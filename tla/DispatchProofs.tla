--------------------------- MODULE DispatchProofs ---------------------------
(***************************************************************************)
(* The dispatcher, for every set of messages and sessions and every size   *)
(* of the queues and the gate: types, mutual exclusion and one place for   *)
(* every message; and what it owes the senders: no follow-up is left where *)
(* nobody looks after it, /stop leaves no task of its session running,     *)
(* only a session that was stopped or reset loses messages, and the        *)
(* dispatcher as a whole implements SessionService.                        *)
(***************************************************************************)
EXTENDS Dispatch, FiniteSetTheorems, TLAPS

\* Taking n elements off the front of a sequence leaves two sequences.
LEMMA Cut ==
    ASSUME NEW S, NEW q \in Seq(S), NEW n \in Nat, n <= Len(q)
    PROVE  First(n, q) \in Seq(S) /\ Rest(n, q) \in Seq(S)
  BY DEF First, Rest

\* Republish moves what fits, so both queues stay what they are.
LEMMA RepublishTypes ==
    ASSUME DispatchAssumption, TypeOK, NEW t \in Msgs, Republish(t)
    PROVE  /\ inbound' \in Seq(Msgs) /\ Len(inbound') <= InboundMax
           /\ queue' \in [Msgs -> Seq(Msgs)]
  BY DEF DispatchAssumption, TypeOK, Republish, Fits, First, Rest

\* A starting task gets the lock some task of its session refers to, or its own
\* when no task of the session refers to any.
LEMMA CandidateLock ==
    ASSUME NEW t, NEW l \in Candidates(t)
    PROVE  \/ l = t /\ \A u \in Peers(SessionOf[t]) : lockOf[u] = NoTask
           \/ \E u \in Peers(SessionOf[t]) : lockOf[u] = l /\ l # NoTask
<1> DEFINE Holders == {v \in Peers(SessionOf[t]) : lockOf[v] # NoTask}
<1>1. CASE Registered(SessionOf[t]) = {}
  <2>1. l = t
    BY <1>1 DEF Candidates
  <2>2. ASSUME NEW u \in Peers(SessionOf[t]), lockOf[u] # NoTask PROVE FALSE
    <3>1. lockOf[u] \in Registered(SessionOf[t])
      BY <2>2 DEF Registered
    <3> QED
      BY <1>1, <3>1
  <2> QED
    BY <2>1, <2>2
<1>2. CASE Registered(SessionOf[t]) # {}
  <2>1. l \in Registered(SessionOf[t])
    BY <1>2 DEF Candidates
  <2>2. PICK u \in Holders : l = lockOf[u]
    BY <2>1 DEF Registered
  <2> QED
    BY <2>2
<1> QED
  BY <1>1, <1>2

\* The bounded queues, the tables and the places keep their types.
THEOREM TypeCorrect == Spec => []TypeOK
<1> USE DispatchAssumption DEF DispatchAssumption
<1>1. Init => TypeOK
  BY DEF Init, TypeOK, Idle, Places
<1>2. TypeOK /\ [Next]_vars => TypeOK'
  <2> SUFFICES ASSUME TypeOK, [Next]_vars PROVE TypeOK'
    OBVIOUS
  <2> USE DEF TypeOK, Places, TaskSteps
  <2>1. ASSUME NEW m \in Msgs, PublishInbound(m) PROVE TypeOK'
    BY <2>1 DEF PublishInbound
  <2>2. CASE ConsumeOutbound
    BY <2>2 DEF ConsumeOutbound
  <2>3. ASSUME NEW m \in Msgs, ServeCommand(m) PROVE TypeOK'
    BY <2>3 DEF ServeCommand, NextInbound
  <2>4. ASSUME NEW m \in Msgs, EnqueuePending(m) PROVE TypeOK'
    BY <2>4 DEF EnqueuePending, NextInbound, Injectable
  <2>5. ASSUME NEW m \in Msgs, SpawnTask(m) PROVE TypeOK'
    BY <2>5 DEF SpawnTask, NextInbound
  <2>6. ASSUME NEW t \in Msgs, CancelTimeout(t) PROVE TypeOK'
    BY <2>6 DEF CancelTimeout, GiveUp
  <2>7. CASE CancelDone
    BY <2>7 DEF CancelDone
  <2>8. CASE CommandReply
    <3>1. at' \in [Msgs -> Places] /\ outbound' \in 0..OutboundMax
      <4>1. at' = [at EXCEPT ![server.msg] = "done"] /\ "done" \in Places
        BY <2>8 DEF CommandReply
      <4>2. at' \in [Msgs -> Places]
        BY <4>1, ZenonT(20)
      <4> QED
        BY <2>8, <4>2 DEF CommandReply
    <3>2. server' \in [step : {"idle", "cancel", "reply"}, msg : Msgs \cup {NoTask},
                       waits : SUBSET Msgs]
      BY <2>8 DEF CommandReply, Idle
    <3> QED
      BY <2>8, <3>1, <3>2 DEF CommandReply
  <2>9. ASSUME NEW t \in Msgs, StartTask(t) PROVE TypeOK'
    <3>1. at' \in [Msgs -> Places]
      BY <2>9 DEF StartTask
    <3>2. ASSUME NEW l \in Candidates(t) PROVE l \in Msgs \cup {NoTask}
      <4>1. \/ l = t
            \/ \E u \in Peers(SessionOf[t]) : lockOf[u] = l
        BY CandidateLock
      <4> QED
        BY <4>1 DEF Peers
    <3>3. PICK l \in Candidates(t) : lockOf' = [lockOf EXCEPT ![t] = l]
      BY <2>9 DEF StartTask
    <3>4. ahead' \in [Msgs -> SUBSET Msgs]
      BY <2>9 DEF StartTask, Line
    <3> QED
      BY <2>9, <3>1, <3>2, <3>3, <3>4 DEF StartTask
  <2>10. ASSUME NEW t \in Msgs, AcquireLock(t) PROVE TypeOK'
    BY <2>10 DEF AcquireLock, Leave, Line
  <2>11. ASSUME NEW t \in Msgs, AcquireGate(t) PROVE TypeOK'
    BY <2>11 DEF AcquireGate, Leave
  <2>12. ASSUME NEW t \in Msgs, Inject(t) PROVE TypeOK'
    BY <2>12 DEF Inject, First, Rest, Elems
  <2>13. ASSUME NEW t \in Msgs, FinishTurn(t) PROVE TypeOK'
    BY <2>13 DEF FinishTurn, Settle
  <2>14. ASSUME NEW t \in Msgs, FailTurn(t) PROVE TypeOK'
    BY <2>14 DEF FailTurn, Settle
  <2>15. ASSUME NEW t \in Msgs, ClearSession(t) PROVE TypeOK'
    BY <2>15 DEF ClearSession
  <2>16. ASSUME NEW t \in Msgs, SessionCleared(t) PROVE TypeOK'
    BY <2>16 DEF SessionCleared
  <2>17. ASSUME NEW t \in Msgs, PublishReply(t) \/ SkipReply(t) \/ PublishClose(t)
         PROVE  TypeOK'
    <3>1. CASE CleanUp(t)
      <4>1. /\ outbound' \in 0..OutboundMax
            /\ UNCHANGED <<server, listed, cancelling, lockOf, locked, ahead, permits,
                           taken, awaits>>
        BY <2>17 DEF PublishReply, SkipReply, PublishClose
      <4>2. at' \in [Msgs -> Places] /\ owner' \in [Sessions -> Msgs \cup {NoTask}]
        BY <3>1 DEF CleanUp, Withdraw
      <4>3. /\ inbound' \in Seq(Msgs) /\ Len(inbound') <= InboundMax
            /\ queue' \in [Msgs -> Seq(Msgs)]
        BY <3>1, RepublishTypes DEF CleanUp
      <4> QED
        BY <4>1, <4>2, <4>3
    <3>2. CASE at' = [at EXCEPT ![t] = "close"] /\ UNCHANGED <<owner, inbound, queue>>
      BY <2>17, <3>2 DEF PublishReply, SkipReply, PublishClose
    <3> QED
      BY <2>17, <3>1, <3>2 DEF PublishReply, SkipReply, PublishClose, AfterReply
  <2>18. ASSUME NEW t \in Msgs, ClearTimeout(t) PROVE TypeOK'
    BY <2>18 DEF ClearTimeout, GiveUp
  <2>19. ASSUME NEW t \in Msgs, RepublishLeftover(t) PROVE TypeOK'
    BY <2>19, RepublishTypes DEF RepublishLeftover
  <2>20. ASSUME NEW t \in Msgs, EndTask(t) PROVE TypeOK'
    <3>1. at' \in [Msgs -> Places] /\ outbound' \in 0..OutboundMax
      BY <2>20 DEF EndTask
    <3>2. /\ locked' \subseteq Msgs \cup {NoTask} /\ listed' \subseteq Msgs
          /\ lockOf' \in [Msgs -> Msgs \cup {NoTask}] /\ permits' \in Nat
      BY <2>20 DEF EndTask, Exit
    <3> QED
      BY <2>20, <3>1, <3>2 DEF EndTask
  <2>21. ASSUME NEW t \in Msgs,
                CancelWaiting(t) \/ CancelToLeave(t) \/ EndWaiting(t) \/ CancelLeaving(t)
         PROVE  TypeOK'
    <3>1. /\ at' \in [Msgs -> Places] /\ lockOf' \in [Msgs -> Msgs \cup {NoTask}]
          /\ listed' \subseteq Msgs
      <4>1. CASE Drop(t)
        BY <4>1 DEF Drop
      <4>2. CASE CancelToLeave(t)
        BY <4>2 DEF CancelToLeave
      <4> QED
        BY <2>21, <4>1, <4>2 DEF CancelWaiting, EndWaiting, CancelLeaving
    <3>2. ahead' \in [Msgs -> SUBSET Msgs] /\ locked' \subseteq Msgs \cup {NoTask}
      <4>1. ahead' = ahead \/ ahead' = [Leave(t) EXCEPT ![t] = {}]
        BY <2>21 DEF CancelWaiting, CancelToLeave, EndWaiting, CancelLeaving
      <4>2. locked' = locked \/ locked' = locked \ {lockOf[t]}
        BY <2>21 DEF CancelWaiting, CancelToLeave, EndWaiting, CancelLeaving
      <4>3. Leave(t) \in [Msgs -> SUBSET Msgs]
        BY DEF Leave
      <4>4. [Leave(t) EXCEPT ![t] = {}] \in [Msgs -> SUBSET Msgs]
        BY <4>3
      <4>5. lockOf[t] \in Msgs \cup {NoTask} /\ ahead \in [Msgs -> SUBSET Msgs]
            /\ locked \subseteq Msgs \cup {NoTask}
        OBVIOUS
      <4>6. ahead' \in [Msgs -> SUBSET Msgs]
        BY ONLY <4>1, <4>4, <4>5
      <4>7. locked' \subseteq Msgs \cup {NoTask}
        BY ONLY <4>2, <4>5
      <4> QED
        BY ONLY <4>6, <4>7
    <3>3. /\ outbound' \in 0..OutboundMax /\ cancelling' \subseteq Msgs
          /\ UNCHANGED <<inbound, server, permits, owner, queue, taken, awaits>>
      BY <2>21 DEF CancelWaiting, CancelToLeave, EndWaiting, CancelLeaving
    <3> QED
      BY <3>1, <3>2, <3>3
  <2>22. ASSUME NEW t \in Msgs, CancelTurn(t) PROVE TypeOK'
    BY <2>22, RepublishTypes DEF CancelTurn, Settle, Withdraw
  <2>23. ASSUME NEW t \in Msgs, CancelCleanup(t) PROVE TypeOK'
    BY <2>23 DEF CancelCleanup, Exit
  <2>24. CASE UNCHANGED vars
    BY <2>24 DEF vars
  <2> QED
    BY <2>1, <2>2, <2>3, <2>4, <2>5, <2>6, <2>7, <2>8, <2>9, <2>10, <2>11, <2>12,
       <2>13, <2>14, <2>15, <2>16, <2>17, <2>18, <2>19, <2>20, <2>21, <2>22, <2>23,
       <2>24 DEF Next, RunLoop, TaskStep, TurnEnds, AllSettled
<1> QED
  BY <1>1, <1>2, PTL DEF Spec
-----------------------------------------------------------------------------
(***************************************************************************)
(* Every message in one place.                                             *)
(***************************************************************************)
LEMMA ElemsAppend ==
    ASSUME NEW S, NEW q \in Seq(S), NEW m \in S
    PROVE  /\ Elems(Append(q, m)) = Elems(q) \cup {m}
           /\ NoRepeat(q) /\ m \notin Elems(q) => NoRepeat(Append(q, m))
<1> DEFINE r == Append(q, m)
<1>1. DOMAIN r = DOMAIN q \cup {Len(q) + 1} /\ r[Len(q) + 1] = m
      /\ \A i \in DOMAIN q : r[i] = q[i] /\ i # Len(q) + 1
  OBVIOUS
<1> QED
  BY <1>1 DEF Elems, NoRepeat

LEMMA ElemsTail ==
    ASSUME NEW S, NEW q \in Seq(S), q # <<>>, NoRepeat(q)
    PROVE  /\ NoRepeat(Tail(q)) /\ Head(q) \in Elems(q)
           /\ Elems(Tail(q)) = Elems(q) \ {Head(q)}
<1>1. Head(q) = q[1] /\ 1 \in DOMAIN q /\ Tail(q) \in Seq(S)
  OBVIOUS
<1>2. \A i \in DOMAIN Tail(q) : i + 1 \in DOMAIN q /\ Tail(q)[i] = q[i + 1] /\ i + 1 # 1
  OBVIOUS
<1>3. \A i \in DOMAIN q : i # 1 => i - 1 \in DOMAIN Tail(q) /\ Tail(q)[i - 1] = q[i]
  OBVIOUS
<1>4. NoRepeat(Tail(q))
  BY <1>2 DEF NoRepeat
<1>5. Elems(Tail(q)) \subseteq Elems(q) \ {Head(q)}
  BY <1>1, <1>2 DEF Elems, NoRepeat
<1>6. Elems(q) \ {Head(q)} \subseteq Elems(Tail(q))
  BY <1>1, <1>3 DEF Elems
<1> QED
  BY <1>1, <1>4, <1>5, <1>6 DEF Elems

LEMMA ElemsCut ==
    ASSUME NEW S, NEW q \in Seq(S), NEW n \in Nat, n <= Len(q), NoRepeat(q)
    PROVE  /\ NoRepeat(First(n, q)) /\ NoRepeat(Rest(n, q))
           /\ Elems(First(n, q)) \subseteq Elems(q)
           /\ Elems(Rest(n, q)) = Elems(q) \ Elems(First(n, q))
<1>1. \A i \in DOMAIN First(n, q) : i \in DOMAIN q /\ i <= n /\ First(n, q)[i] = q[i]
  BY DEF First
<1>2. \A i \in DOMAIN q : i <= n => i \in DOMAIN First(n, q)
  BY DEF First
<1>3. \A i \in DOMAIN Rest(n, q) : i \in Nat /\ i > 0 /\ i + n \in DOMAIN q /\ Rest(n, q)[i] = q[i + n]
  BY DEF Rest
<1>4. \A i \in DOMAIN q : i > n => i - n \in DOMAIN Rest(n, q) /\ Rest(n, q)[i - n] = q[i]
  BY DEF Rest
<1>5. NoRepeat(First(n, q)) /\ Elems(First(n, q)) \subseteq Elems(q)
  BY <1>1 DEF NoRepeat, Elems
<1>6. NoRepeat(Rest(n, q))
  BY <1>3 DEF NoRepeat
<1>7. Elems(Rest(n, q)) \subseteq Elems(q) \ Elems(First(n, q))
  BY <1>1, <1>3 DEF NoRepeat, Elems
<1>8. Elems(q) \ Elems(First(n, q)) \subseteq Elems(Rest(n, q))
  <2> SUFFICES ASSUME NEW i \in DOMAIN q, q[i] \notin Elems(First(n, q))
               PROVE  q[i] \in Elems(Rest(n, q))
    BY DEF Elems
  <2>1. i > n
    BY <1>1, <1>2 DEF Elems
  <2> QED
    BY <1>4, <2>1 DEF Elems
<1> QED
  BY <1>5, <1>6, <1>7, <1>8

LEMMA ElemsConcat ==
    ASSUME NEW S, NEW p \in Seq(S), NEW q \in Seq(S), NoRepeat(p), NoRepeat(q),
           Elems(p) \cap Elems(q) = {}
    PROVE  NoRepeat(p \o q) /\ Elems(p \o q) = Elems(p) \cup Elems(q)
<1> DEFINE r == p \o q
<1>0. Len(r) = Len(p) + Len(q) /\ DOMAIN r = 1..Len(r) /\ DOMAIN p = 1..Len(p)
      /\ DOMAIN q = 1..Len(q) /\ Len(p) \in Nat /\ Len(q) \in Nat
  OBVIOUS
<1>1. ASSUME NEW i \in DOMAIN r
      PROVE  \/ i \in DOMAIN p /\ r[i] = p[i]
             \/ i - Len(p) \in DOMAIN q /\ r[i] = q[i - Len(p)]
  <2>1. CASE i <= Len(p)
    BY <1>0, <2>1
  <2>2. CASE i > Len(p)
    BY <1>0, <2>2
  <2> QED
    BY <1>0, <2>1, <2>2
<1>2. \A i \in DOMAIN p : i \in DOMAIN r /\ r[i] = p[i]
  OBVIOUS
<1>3. \A i \in DOMAIN q : i + Len(p) \in DOMAIN r /\ r[i + Len(p)] = q[i]
  OBVIOUS
<1> HIDE DEF r
<1>4. Elems(r) = Elems(p) \cup Elems(q)
  <2>1. Elems(r) \subseteq Elems(p) \cup Elems(q)
    BY <1>1 DEF Elems
  <2>2. Elems(p) \cup Elems(q) \subseteq Elems(r)
    BY <1>2, <1>3 DEF Elems
  <2> QED
    BY <2>1, <2>2
<1>5. NoRepeat(r)
  <2> SUFFICES ASSUME NEW i \in DOMAIN r, NEW j \in DOMAIN r, r[i] = r[j] PROVE i = j
    BY DEF NoRepeat
  <2>1. CASE i \in DOMAIN p /\ r[i] = p[i] /\ j \in DOMAIN p /\ r[j] = p[j]
    BY <2>1 DEF NoRepeat
  <2>2. CASE /\ i - Len(p) \in DOMAIN q /\ r[i] = q[i - Len(p)]
             /\ j - Len(p) \in DOMAIN q /\ r[j] = q[j - Len(p)]
    <3>1. i - Len(p) = j - Len(p)
      BY <2>2 DEF NoRepeat
    <3> QED
      BY <1>0, <3>1
  <2> QED
    BY <1>1, <2>1, <2>2 DEF Elems
<1> QED
  BY <1>4, <1>5 DEF r
\* The re-published messages move from the task's queue to the inbound queue.
LEMMA RepublishMoves ==
    ASSUME DispatchAssumption, TypeOK, OnePlace, NEW t \in Msgs, Republish(t)
    PROVE  /\ NoRepeat(inbound') /\ Elems(inbound') = Elems(inbound) \cup Returned(t)
           /\ Returned(t) \subseteq Elems(queue[t])
           /\ \A u \in Msgs : NoRepeat(queue'[u])
           /\ Elems(queue'[t]) = Elems(queue[t]) \ Returned(t)
           /\ \A u \in Msgs \ {t} : queue'[u] = queue[u]
<1> DEFINE n == Fits(t)
<1>1. n \in Nat /\ n <= Len(queue[t]) /\ queue[t] \in Seq(Msgs) /\ NoRepeat(queue[t])
  BY DEF DispatchAssumption, TypeOK, Fits, OnePlace
<1>2. First(n, queue[t]) \in Seq(Msgs)
  BY <1>1, Cut
<1>3. /\ NoRepeat(First(n, queue[t])) /\ NoRepeat(Rest(n, queue[t]))
      /\ Elems(First(n, queue[t])) \subseteq Elems(queue[t])
      /\ Elems(Rest(n, queue[t])) = Elems(queue[t]) \ Elems(First(n, queue[t]))
  BY <1>1, ElemsCut
<1>4. Elems(inbound) \cap Elems(First(n, queue[t])) = {}
  <2>1. \A m \in Elems(queue[t]) : m \in Msgs
    BY <1>1 DEF Elems
  <2> QED
    BY <1>3, <2>1 DEF OnePlace
<1>5. /\ NoRepeat(inbound \o First(n, queue[t]))
      /\ Elems(inbound \o First(n, queue[t])) = Elems(inbound) \cup Returned(t)
  BY <1>2, <1>3, <1>4, ElemsConcat DEF OnePlace, TypeOK, Returned
<1>6. /\ inbound' = inbound \o First(n, queue[t])
      /\ queue' = [queue EXCEPT ![t] = Rest(n, queue[t])]
  BY DEF Republish, TypeOK
<1>7. queue'[t] = Rest(n, queue[t]) /\ \A u \in Msgs \ {t} : queue'[u] = queue[u]
  BY <1>6 DEF TypeOK
<1> QED
  BY <1>3, <1>5, <1>6, <1>7 DEF OnePlace, Returned

PlaceInv == OnePlace /\ (server.step = "idle" => server.msg = NoTask)

LEMMA QueuesHoldMessages ==
    ASSUME TypeOK
    PROVE  Elems(inbound) \subseteq Msgs /\ \A t \in Msgs : Elems(queue[t]) \subseteq Msgs
  BY DEF TypeOK, Elems

\* Reading the inbound queue takes its head out of it.
LEMMA NextInboundMoves ==
    ASSUME TypeOK, OnePlace, NEW m \in Msgs, NextInbound(m)
    PROVE  /\ NoRepeat(inbound') /\ at[m] = "inbound"
           /\ Elems(inbound') = Elems(inbound) \ {m}
<1>1. inbound \in Seq(Msgs) /\ inbound # <<>> /\ NoRepeat(inbound)
  BY DEF TypeOK, OnePlace, NextInbound
<1> QED
  BY <1>1, ElemsTail DEF NextInbound, OnePlace

LEMMA CancelTurnMoves ==
    ASSUME NEW t \in Msgs, CancelTurn(t)
    PROVE  \A m \in Msgs : at'[m] = IF m \in Returned(t) THEN "inbound"
                                    ELSE IF m = t THEN "abort"
                                    ELSE IF m \in taken[t] THEN "stopped" ELSE at[m]
<1> DEFINE settled == Settle(t, "abort", "stopped")
<1>1. at' = [m \in Msgs |-> IF m \in Returned(t) THEN "inbound" ELSE settled[m]]
  <2> HIDE DEF Returned, Settle
  <2> QED
    BY DEF CancelTurn
<1>2. \A m \in Msgs : settled[m] = IF m = t THEN "abort"
                                   ELSE IF m \in taken[t] THEN "stopped" ELSE at[m]
  BY DEF Settle
<1> HIDE DEF settled, Returned
<1> QED
  BY <1>1, <1>2

GivesBack(t, step, gone) ==
    /\ \A u \in Msgs : taken'[u] = IF u = t THEN taken[t] \ gone ELSE taken[u]
    /\ \A m \in Msgs : at'[m] = IF m \in Returned(t) THEN "inbound"
                                ELSE IF m = t THEN step
                                ELSE IF m \in gone THEN "stopped" ELSE at[m]

\* A task in its clean-up moves to another step, re-publishes what fits and
\* may give up the follow-ups its turn had taken.
LEMMA RepublishKeepsPlaces ==
    ASSUME DispatchAssumption, TypeOK, PlaceInv,
           NEW t \in Msgs, Republish(t), at[t] \in TaskSteps, UNCHANGED server,
           NEW step \in TaskSteps, NEW gone \in {{}, taken[t]}, GivesBack(t, step, gone)
    PROVE  PlaceInv'
<1>0. \A m \in Msgs : at'[m] = IF m \in Returned(t) THEN "inbound"
                               ELSE IF m = t THEN step
                               ELSE IF m \in gone THEN "stopped" ELSE at[m]
  BY DEF GivesBack
<1> USE DEF PlaceInv, OnePlace, TaskSteps
<1>1. /\ NoRepeat(inbound') /\ Elems(inbound') = Elems(inbound) \cup Returned(t)
      /\ Returned(t) \subseteq Elems(queue[t])
      /\ \A u \in Msgs : NoRepeat(queue'[u])
      /\ Elems(queue'[t]) = Elems(queue[t]) \ Returned(t)
      /\ \A u \in Msgs \ {t} : queue'[u] = queue[u]
  BY RepublishMoves
<1>2. \A u \in Msgs : taken'[u] = IF u = t THEN taken[t] \ gone ELSE taken[u]
  BY DEF GivesBack
<1>3. \A m \in Returned(t) : m \in Msgs /\ at[m] = "pending"
  BY <1>1, QueuesHoldMessages
<1>4. gone \subseteq taken[t] /\ \A m \in gone : m \in Msgs /\ at[m] = "taken"
  BY DEF TypeOK
<1>5. \A m \in Msgs : at'[m] = "inbound" <=> m \in Elems(inbound')
  BY <1>0, <1>1, <1>3, <1>4
<1>6. \A m \in Msgs : at'[m] = "serving" <=> m = server'.msg
  BY <1>0, <1>3, <1>4
<1>7. \A m \in Msgs : at'[m] = "pending" <=> \E u \in Msgs : m \in Elems(queue'[u])
  <2> SUFFICES ASSUME NEW m \in Msgs
               PROVE  at'[m] = "pending" <=> \E u \in Msgs : m \in Elems(queue'[u])
    OBVIOUS
  <2>1. CASE m \in Returned(t)
    BY <1>0, <1>1, <2>1
  <2>2. CASE m \notin Returned(t)
    <3>1. at'[m] = "pending" <=> at[m] = "pending"
      BY <1>0, <1>4, <2>2
    <3>2. (\E u \in Msgs : m \in Elems(queue'[u])) <=> \E u \in Msgs : m \in Elems(queue[u])
      <4>1. \A u \in Msgs : m \in Elems(queue'[u]) <=> m \in Elems(queue[u])
        BY <1>1, <2>2
      <4> QED
        BY <4>1
    <3> QED
      BY <3>1, <3>2
  <2> QED
    BY <2>1, <2>2
<1>8. \A m \in Msgs : at'[m] = "taken" <=> \E u \in Msgs : m \in taken'[u]
  <2> SUFFICES ASSUME NEW m \in Msgs
               PROVE  at'[m] = "taken" <=> \E u \in Msgs : m \in taken'[u]
    OBVIOUS
  <2>1. CASE m \in gone
    <3>1. m \in taken[t] /\ at'[m] = "stopped"
      BY <1>0, <1>3, <1>4, <2>1
    <3>2. \A u \in Msgs : m \notin taken'[u]
      BY <1>2, <2>1, <3>1
    <3> QED
      BY <3>1, <3>2
  <2>2. CASE m \notin gone
    <3>1. at'[m] = "taken" <=> at[m] = "taken"
      BY <1>0, <1>3, <2>2
    <3>2. \A u \in Msgs : m \in taken'[u] <=> m \in taken[u]
      BY <1>2, <2>2
    <3> QED
      BY <3>1, <3>2
  <2> QED
    BY <2>1, <2>2
<1>9. \A m, u, v \in Msgs :
          \/ m \in Elems(queue'[u]) /\ m \in Elems(queue'[v])
          \/ m \in taken'[u] /\ m \in taken'[v]
          => u = v
  <2>1. \A u \in Msgs : Elems(queue'[u]) \subseteq Elems(queue[u])
    BY <1>1
  <2>2. \A u \in Msgs : taken'[u] \subseteq taken[u]
    BY <1>2
  <2> QED
    BY <2>1, <2>2
<1> QED
  BY <1>1, <1>5, <1>6, <1>7, <1>8, <1>9

LEMMA EnqueuePendingKeepsPlaces ==
    ASSUME DispatchAssumption, TypeOK, PlaceInv, NEW m \in Msgs, EnqueuePending(m)
    PROVE  PlaceInv'
<1> USE DEF PlaceInv, OnePlace
<1> DEFINE o == owner[SessionOf[m]]
<1>1. /\ NoRepeat(inbound') /\ at[m] = "inbound"
      /\ Elems(inbound') = Elems(inbound) \ {m}
  BY NextInboundMoves DEF EnqueuePending
<1>2. o \in Msgs /\ queue[o] \in Seq(Msgs) /\ m \notin Elems(queue[o])
  <2>1. o \in Msgs
    BY DEF EnqueuePending, Injectable, TypeOK, DispatchAssumption
  <2> QED
    BY <1>1, <2>1 DEF TypeOK
<1>3. queue'[o] = Append(queue[o], m) /\ \A u \in Msgs \ {o} : queue'[u] = queue[u]
  BY <1>2 DEF EnqueuePending, TypeOK
<1>4. NoRepeat(queue'[o]) /\ Elems(queue'[o]) = Elems(queue[o]) \cup {m}
  BY <1>2, <1>3, ElemsAppend
<1>5. UNCHANGED <<server, taken>>
      /\ \A v \in Msgs : at'[v] = IF v = m THEN "pending" ELSE at[v]
  BY DEF EnqueuePending, TypeOK
<1> HIDE DEF o
<1>6. ASSUME NEW v \in Msgs
      PROVE  at'[v] = "pending" <=> \E u \in Msgs : v \in Elems(queue'[u])
  <2>1. CASE v = m
    BY <1>2, <1>4, <1>5, <2>1
  <2>2. CASE v # m
    <3>1. \A u \in Msgs : v \in Elems(queue'[u]) <=> v \in Elems(queue[u])
      BY <1>3, <1>4, <2>2
    <3> QED
      BY <1>5, <2>2, <3>1
  <2> QED
    BY <2>1, <2>2
<1>7. \A u \in Msgs : m \notin Elems(queue[u])
  BY <1>1
<1>8. ASSUME NEW u \in Msgs, NEW v \in Elems(queue'[u])
      PROVE  IF v = m THEN u = o ELSE v \in Elems(queue[u])
  <2>1. CASE u = o
    BY <1>4, <2>1
  <2>2. CASE u # o
    BY <1>3, <1>7, <2>2
  <2> QED
    BY <2>1, <2>2
<1>9. \A u \in Msgs : NoRepeat(queue'[u])
  BY <1>3, <1>4
<1>10. ASSUME NEW v \in Msgs, NEW t \in Msgs, NEW u \in Msgs,
              v \in Elems(queue'[t]), v \in Elems(queue'[u])
       PROVE  t = u
  <2>1. CASE v = m
    BY <1>7, <1>8, <1>10, <2>1
  <2>2. CASE v # m
    <3>1. v \in Elems(queue[t]) /\ v \in Elems(queue[u])
      BY <1>8, <1>10, <2>2
    <3> QED
      BY <3>1
  <2> QED
    BY <2>1, <2>2
<1>11. ASSUME NEW v \in Msgs
       PROVE  /\ at'[v] = "inbound" <=> v \in Elems(inbound')
              /\ at'[v] = "serving" <=> v = server'.msg
              /\ at'[v] = "taken" <=> \E u \in Msgs : v \in taken'[u]
  BY <1>1, <1>5
<1>12. server'.step = "idle" => server'.msg = NoTask
  BY <1>5
<1> QED
  BY <1>1, <1>5, <1>6, <1>9, <1>10, <1>11, <1>12

LEMMA InjectKeepsPlaces ==
    ASSUME DispatchAssumption, TypeOK, PlaceInv, NEW t \in Msgs, Inject(t)
    PROVE  PlaceInv'
<1> USE DEF PlaceInv, OnePlace
<1> DEFINE n == IF Len(queue[t]) < DrainMax THEN Len(queue[t]) ELSE DrainMax
           got == Elems(First(n, queue[t]))
<1>1. /\ n \in Nat /\ n <= Len(queue[t]) /\ queue[t] \in Seq(Msgs)
      /\ NoRepeat(queue[t])
  BY DEF TypeOK, DispatchAssumption
<1>2. /\ queue'[t] = Rest(n, queue[t]) /\ taken'[t] = taken[t] \cup got
      /\ \A u \in Msgs \ {t} : queue'[u] = queue[u] /\ taken'[u] = taken[u]
  BY DEF Inject, TypeOK
<1>3. at' = [m \in Msgs |-> IF m \in got THEN "taken" ELSE at[m]]
  BY DEF Inject
<1>4. UNCHANGED <<inbound, server>>
  BY DEF Inject
<1> HIDE DEF n
<1>5. NoRepeat(Rest(n, queue[t])) /\ got \subseteq Elems(queue[t])
      /\ Elems(Rest(n, queue[t])) = Elems(queue[t]) \ got
  BY <1>1, ElemsCut
<1> HIDE DEF got
<1>6. ASSUME NEW u \in Msgs
      PROVE  /\ NoRepeat(queue'[u])
             /\ \A m \in Msgs : m \in Elems(queue'[u]) <=> m \in Elems(queue[u]) /\ m \notin got
  <2>1. CASE u = t
    BY <1>2, <1>5, <2>1
  <2>2. CASE u # t
    BY <1>2, <1>5, <2>2
  <2> QED
    BY <2>1, <2>2
<1>7. \A m \in got : m \in Msgs /\ at[m] = "pending"
  BY <1>5, QueuesHoldMessages
<1>8. \A u \in Msgs : taken'[u] = IF u = t THEN taken[t] \cup got ELSE taken[u]
  BY <1>2
<1>9. ASSUME NEW m \in Msgs
      PROVE  /\ at'[m] = "inbound" <=> m \in Elems(inbound')
             /\ at'[m] = "serving" <=> m = server'.msg
             /\ at'[m] = "pending" <=> \E u \in Msgs : m \in Elems(queue'[u])
             /\ at'[m] = "taken" <=> \E u \in Msgs : m \in taken'[u]
  <2>1. CASE m \in got
    BY <1>3, <1>4, <1>6, <1>7, <1>8, <2>1
  <2>2. CASE m \notin got
    BY <1>3, <1>4, <1>6, <1>8, <2>2
  <2> QED
    BY <2>1, <2>2
<1> QED
  BY <1>4, <1>6, <1>7, <1>8, <1>9

LEMMA CancelTurnKeepsPlaces ==
    ASSUME DispatchAssumption, TypeOK, PlaceInv, NEW t \in Msgs, CancelTurn(t)
    PROVE  PlaceInv'
<1> DEFINE step == "abort"
           gone == taken[t]
<1>1. \A m \in Msgs : at'[m] = IF m \in Returned(t) THEN "inbound"
                               ELSE IF m = t THEN step
                               ELSE IF m \in gone THEN "stopped" ELSE at[m]
  BY CancelTurnMoves
<1>2. \A u \in Msgs : taken'[u] = IF u = t THEN taken[t] \ gone ELSE taken[u]
  BY DEF CancelTurn, TypeOK
<1>3. Republish(t) /\ UNCHANGED server /\ at[t] \in TaskSteps /\ step \in TaskSteps
      /\ gone \in {{}, taken[t]}
  BY DEF CancelTurn, TaskSteps
<1>4. GivesBack(t, step, gone)
  BY <1>1, <1>2 DEF GivesBack
<1> HIDE DEF step, gone
<1> QED
  BY <1>3, <1>4, RepublishKeepsPlaces

LEMMA CancelCleanupKeepsPlaces ==
    ASSUME DispatchAssumption, TypeOK, PlaceInv, NEW t \in Msgs, CancelCleanup(t)
    PROVE  PlaceInv'
<1> USE DEF PlaceInv, OnePlace
<1>1. queue'[t] = <<>> /\ \A u \in Msgs \ {t} : queue'[u] = queue[u]
  BY DEF CancelCleanup, TypeOK
<1>2. Elems(queue'[t]) = {} /\ NoRepeat(queue'[t])
  BY <1>1 DEF Elems, NoRepeat
<1>3. \A m \in Msgs : IF m = t THEN at'[m] \in {"stopped", "done"}
                      ELSE at'[m] = IF m \in Elems(queue[t]) THEN "lost" ELSE at[m]
  BY DEF CancelCleanup
<1>4. at[t] \in {"drain", "abort"} /\ UNCHANGED <<inbound, server, taken>>
  BY DEF CancelCleanup
<1>5. ASSUME NEW m \in Msgs
      PROVE  at'[m] = "pending" <=> \E u \in Msgs : m \in Elems(queue'[u])
  <2>1. CASE m \in Elems(queue[t])
    BY <1>1, <1>2, <1>3, <1>4, <2>1
  <2>2. CASE m \notin Elems(queue[t])
    <3>1. \A u \in Msgs : m \in Elems(queue'[u]) <=> m \in Elems(queue[u])
      BY <1>1, <1>2, <2>2
    <3> QED
      BY <1>3, <1>4, <2>2, <3>1
  <2> QED
    BY <2>1, <2>2
<1>6. ASSUME NEW m \in Msgs
      PROVE  /\ at'[m] = "inbound" <=> m \in Elems(inbound')
             /\ at'[m] = "serving" <=> m = server'.msg
             /\ at'[m] = "taken" <=> \E u \in Msgs : m \in taken'[u]
  BY <1>3, <1>4
<1> QED
  BY <1>1, <1>2, <1>4, <1>5, <1>6

LEMMA PlacesInvariant == Spec => []PlaceInv
<1> USE DispatchAssumption DEF DispatchAssumption
<1>1. Init => PlaceInv
  BY DEF Init, PlaceInv, OnePlace, NoRepeat, Elems, Idle
<1>2. TypeOK /\ PlaceInv /\ [Next]_vars => PlaceInv'
  <2> SUFFICES ASSUME TypeOK, PlaceInv, [Next]_vars PROVE PlaceInv'
    OBVIOUS
  <2> USE QueuesHoldMessages DEF TypeOK, PlaceInv, OnePlace
  <2>1. ASSUME NEW m \in Msgs, PublishInbound(m) PROVE PlaceInv'
    <3>1. NoRepeat(inbound') /\ Elems(inbound') = Elems(inbound) \cup {m}
      BY <2>1, ElemsAppend DEF PublishInbound
    <3> QED
      BY <2>1, <3>1 DEF PublishInbound
  <2>2. CASE ConsumeOutbound
    BY <2>2 DEF ConsumeOutbound
  <2>3. ASSUME NEW m \in Msgs, ServeCommand(m) PROVE PlaceInv'
    <3>1. /\ NoRepeat(inbound') /\ at[m] = "inbound"
          /\ Elems(inbound') = Elems(inbound) \ {m}
      BY <2>3, NextInboundMoves DEF ServeCommand
    <3>2. server.msg = NoTask /\ server'.msg = m /\ server'.step = "cancel"
      BY <2>3 DEF ServeCommand, NextInbound
    <3> QED
      BY <2>3, <3>1, <3>2 DEF ServeCommand
  <2>4. ASSUME NEW m \in Msgs, EnqueuePending(m) PROVE PlaceInv'
    BY <2>4, EnqueuePendingKeepsPlaces
  <2>5. ASSUME NEW m \in Msgs, SpawnTask(m) PROVE PlaceInv'
    <3>1. /\ NoRepeat(inbound') /\ at[m] = "inbound"
          /\ Elems(inbound') = Elems(inbound) \ {m}
      BY <2>5, NextInboundMoves DEF SpawnTask
    <3> QED
      BY <2>5, <3>1 DEF SpawnTask
  <2>6. ASSUME NEW t \in Msgs, CancelTimeout(t) \/ ClearTimeout(t) PROVE PlaceInv'
    BY <2>6 DEF CancelTimeout, ClearTimeout, GiveUp
  <2>7. CASE CancelDone
    BY <2>7 DEF CancelDone
  <2>8. CASE CommandReply
    <3>1. server'.msg = NoTask
      BY <2>8 DEF CommandReply, Idle
    <3> QED
      BY <2>8, <3>1 DEF CommandReply
  <2>9. ASSUME NEW t \in Msgs, StartTask(t) PROVE PlaceInv'
    BY <2>9 DEF StartTask, Running
  <2>10. ASSUME NEW t \in Msgs, AcquireLock(t) PROVE PlaceInv'
    BY <2>10 DEF AcquireLock, Running
  <2>11. ASSUME NEW t \in Msgs, AcquireGate(t) PROVE PlaceInv'
    BY <2>11 DEF AcquireGate, Running
  <2>12. ASSUME NEW t \in Msgs, Inject(t) PROVE PlaceInv'
    BY <2>12, InjectKeepsPlaces
  <2>13. ASSUME NEW t \in Msgs, FinishTurn(t) PROVE PlaceInv'
    <3>1. taken'[t] = {} /\ \A u \in Msgs \ {t} : taken'[u] = taken[u]
      BY <2>13 DEF FinishTurn
    <3> QED
      BY <2>13, <3>1 DEF FinishTurn, Settle, Running
  <2>14. ASSUME NEW t \in Msgs, FailTurn(t) PROVE PlaceInv'
    <3>1. taken'[t] = {} /\ \A u \in Msgs \ {t} : taken'[u] = taken[u]
      BY <2>14 DEF FailTurn
    <3> QED
      BY <2>14, <3>1 DEF FailTurn, Settle, Running
  <2>15. ASSUME NEW t \in Msgs, ClearSession(t) PROVE PlaceInv'
    BY <2>15 DEF ClearSession, Running
  <2>16. ASSUME NEW t \in Msgs, SessionCleared(t) PROVE PlaceInv'
    BY <2>16 DEF SessionCleared, Running
  <2>17. ASSUME NEW t \in Msgs, PublishReply(t) \/ SkipReply(t) \/ PublishClose(t),
                CleanUp(t)
         PROVE  PlaceInv'
    <3> DEFINE step == "drain"
               gone == {}
    <3>1. \A m \in Msgs : at'[m] = IF m \in Returned(t) THEN "inbound"
                                   ELSE IF m = t THEN step
                                   ELSE IF m \in gone THEN "stopped" ELSE at[m]
      <4> HIDE DEF Returned
      <4> QED
        BY <2>17 DEF CleanUp
    <3>2. \A u \in Msgs : taken'[u] = IF u = t THEN taken[t] \ gone ELSE taken[u]
      BY <2>17 DEF PublishReply, SkipReply, PublishClose
    <3>3. Republish(t) /\ UNCHANGED server /\ at[t] \in TaskSteps /\ step \in TaskSteps
          /\ gone \in {{}, taken[t]}
      BY <2>17 DEF PublishReply, SkipReply, PublishClose, CleanUp, Running, TaskSteps
    <3>4. GivesBack(t, step, gone)
      BY ONLY <3>1, <3>2 DEF GivesBack
    <3>5. DispatchAssumption /\ TypeOK /\ PlaceInv
      OBVIOUS
    <3> HIDE DEF TypeOK, PlaceInv, OnePlace, DispatchAssumption, step, gone
    <3> QED
      BY ONLY <3>3, <3>4, <3>5, RepublishKeepsPlaces
  <2>18. ASSUME NEW t \in Msgs, PublishReply(t) \/ SkipReply(t) \/ PublishClose(t)
         PROVE  PlaceInv'
    <3>1. CASE at' = [at EXCEPT ![t] = "close"] /\ UNCHANGED <<inbound, queue>>
      <4>1. UNCHANGED <<server, taken>> /\ at[t] \in {"reply", "close"}
        BY <2>18 DEF PublishReply, SkipReply, PublishClose, Running
      <4> QED
        BY <3>1, <4>1
    <3>2. CASE CleanUp(t)
      BY <2>17, <2>18, <3>2
    <3> QED
      BY <2>18, <3>1, <3>2 DEF PublishReply, SkipReply, PublishClose, AfterReply
  <2>19. ASSUME NEW t \in Msgs, RepublishLeftover(t) PROVE PlaceInv'
    <3> DEFINE step == at[t]
               gone == {}
    <3>1. \A m \in Msgs : at'[m] = IF m \in Returned(t) THEN "inbound"
                                   ELSE IF m = t THEN step
                                   ELSE IF m \in gone THEN "stopped" ELSE at[m]
      <4> HIDE DEF Returned
      <4> QED
        BY <2>19 DEF RepublishLeftover
    <3>2. \A u \in Msgs : taken'[u] = IF u = t THEN taken[t] \ gone ELSE taken[u]
      BY <2>19 DEF RepublishLeftover
    <3>3. Republish(t) /\ UNCHANGED server /\ at[t] \in TaskSteps /\ step \in TaskSteps
          /\ gone \in {{}, taken[t]}
      BY <2>19 DEF RepublishLeftover, Running, TaskSteps
    <3> HIDE DEF TypeOK, PlaceInv, OnePlace, DispatchAssumption, TaskSteps, Returned, Republish,
                 step, gone
    <3>4. DispatchAssumption /\ TypeOK /\ PlaceInv
      OBVIOUS
    <3>5. GivesBack(t, step, gone)
      BY ONLY <3>1, <3>2 DEF GivesBack
    <3> QED
      BY ONLY <3>3, <3>4, <3>5, RepublishKeepsPlaces
  <2>20. ASSUME NEW t \in Msgs, EndTask(t) PROVE PlaceInv'
    BY <2>20 DEF EndTask, Running, Exit
  <2>21. ASSUME NEW t \in Msgs,
                CancelWaiting(t) \/ CancelToLeave(t) \/ EndWaiting(t) \/ CancelLeaving(t)
         PROVE  PlaceInv'
    <3>1. UNCHANGED <<inbound, server, queue, taken>>
          /\ at[t] \in {"new", "lock", "gate", "leave"} /\ at'[t] \in {"stopped", "leave"}
          /\ \A u \in Msgs \ {t} : at'[u] = at[u]
      BY <2>21 DEF CancelWaiting, CancelToLeave, EndWaiting, CancelLeaving, Drop, Running
    <3> QED
      BY <3>1
  <2>22. ASSUME NEW t \in Msgs, CancelTurn(t) PROVE PlaceInv'
    BY <2>22, CancelTurnKeepsPlaces
  <2>23. ASSUME NEW t \in Msgs, CancelCleanup(t) PROVE PlaceInv'
    BY <2>23, CancelCleanupKeepsPlaces
  <2>24. CASE UNCHANGED vars
    BY <2>24 DEF vars
  <2> QED
    BY <2>1, <2>2, <2>3, <2>4, <2>5, <2>6, <2>7, <2>8, <2>9, <2>10, <2>11,
       <2>12, <2>13, <2>14, <2>15, <2>16, <2>17, <2>18, <2>19, <2>20, <2>21,
       <2>22, <2>23, <2>24 DEF Next, RunLoop, TaskStep, TurnEnds, AllSettled
<1> QED
  BY <1>1, <1>2, TypeCorrect, PTL DEF Spec

\* Messages are moved, never copied or mislaid.
THEOREM MessagesInOnePlace == Spec => []OnePlace
<1>1. PlaceInv => OnePlace
  BY DEF PlaceInv
<1> QED
  BY <1>1, PlacesInvariant, PTL
-----------------------------------------------------------------------------
(***************************************************************************)
(* Per-session serial.  SessionSerial is not inductive: a task could find  *)
(* a second lock in the registry, or its lock unlocked by another.  LockInv *)
(* says why neither happens: the tasks of a session that are past their    *)
(* first step share one lock, a task that holds its lock has it locked,    *)
(* and no two tasks hold the same one.                                     *)
(***************************************************************************)
LockInv ==
    /\ \A t \in Msgs : lockOf[t] # NoTask <=> at[t] \in {"lock", "leave"} \cup Holding
    /\ \A t, u \in Msgs :
          SessionOf[t] = SessionOf[u] /\ lockOf[t] # NoTask /\ lockOf[u] # NoTask
          => lockOf[t] = lockOf[u]
    /\ \A t \in Msgs : at[t] \in Holding => lockOf[t] \in locked
    /\ \A t, u \in Msgs :
          at[t] \in Holding /\ at[u] \in Holding /\ lockOf[t] = lockOf[u] => t = u

LEMMA LockInvGivesSerial == LockInv => SessionSerial
  BY DEF LockInv, SessionSerial

\* What happens inside a turn, or to messages that are not tasks, leaves the
\* locks alone.
LEMMA LockFrame ==
    ASSUME LockInv, UNCHANGED <<lockOf, locked>>,
           \A u \in Msgs :
              /\ at'[u] \in Holding <=> at[u] \in Holding
              /\ at'[u] \in {"lock", "leave"} <=> at[u] \in {"lock", "leave"}
    PROVE  LockInv'
<1>1. \A u \in Msgs : at'[u] \in {"lock", "leave"} \cup Holding
                     <=> at[u] \in {"lock", "leave"} \cup Holding
  OBVIOUS
<1> QED
  BY <1>1 DEF LockInv

\* Moves of messages that are not tasks are no moves of tasks.
LEMMA QueuedAreNoTasks ==
    ASSUME TypeOK, OnePlace, NEW t \in Msgs
    PROVE  /\ \A m \in Elems(queue[t]) : m \in Msgs /\ at[m] = "pending"
           /\ \A m \in Returned(t) : m \in Elems(queue[t])
           /\ \A m \in taken[t] : m \in Msgs /\ at[m] = "taken"
<1>1. \A m \in Elems(queue[t]) : m \in Msgs
  BY QueuesHoldMessages
<1>2. \A m \in taken[t] : m \in Msgs
  BY DEF TypeOK
<1>3. Returned(t) \subseteq Elems(queue[t])
  <2>1. Fits(t) \in Nat /\ Fits(t) <= Len(queue[t]) /\ queue[t] \in Seq(Msgs)
        /\ NoRepeat(queue[t])
    BY DispatchAssumption DEF DispatchAssumption, Fits, TypeOK, OnePlace
  <2> QED
    BY <2>1, ElemsCut DEF Returned
<1> QED
  BY <1>1, <1>2, <1>3 DEF OnePlace

LEMMA LockInvInductive ==
    ASSUME TypeOK, PlaceInv, LockInv, [Next]_vars PROVE LockInv'
<1> USE DispatchAssumption
<1> DEFINE Same == /\ UNCHANGED <<lockOf, locked>>
                   /\ \A u \in Msgs : /\ at'[u] \in Holding <=> at[u] \in Holding
                                      /\ at'[u] \in {"lock", "leave"}
                                         <=> at[u] \in {"lock", "leave"}
<1>0. Same => LockInv'
  BY LockFrame
<1>1. ASSUME NEW m \in Msgs, PublishInbound(m) PROVE Same
  BY <1>1 DEF PublishInbound, TypeOK, Holding, Inside, PlaceInv
<1>2. ASSUME NEW m \in Msgs, ServeCommand(m) PROVE Same
  BY <1>2, NextInboundMoves DEF ServeCommand, NextInbound, TypeOK, Holding, Inside, PlaceInv
<1>3. ASSUME NEW m \in Msgs, EnqueuePending(m) PROVE Same
  BY <1>3, NextInboundMoves DEF EnqueuePending, NextInbound, TypeOK, Holding, Inside, PlaceInv
<1>4. ASSUME NEW m \in Msgs, SpawnTask(m) PROVE Same
  BY <1>4, NextInboundMoves DEF SpawnTask, NextInbound, TypeOK, Holding, Inside, PlaceInv
<1>5. ASSUME NEW t \in Msgs, CancelTimeout(t) \/ ClearTimeout(t) PROVE Same
  BY <1>5 DEF CancelTimeout, ClearTimeout, GiveUp
<1>6. ASSUME NEW t \in Msgs, AcquireGate(t) PROVE Same
  BY <1>6 DEF AcquireGate, Running, TypeOK, Holding, Inside, PlaceInv
<1>7. ASSUME NEW t \in Msgs, Inject(t) PROVE Same
  <2> DEFINE n == IF Len(queue[t]) < DrainMax THEN Len(queue[t]) ELSE DrainMax
             got == Elems(First(n, queue[t]))
  <2>1. n \in Nat /\ n <= Len(queue[t]) /\ queue[t] \in Seq(Msgs) /\ NoRepeat(queue[t])
    BY DEF DispatchAssumption, TypeOK, PlaceInv, OnePlace
  <2>2. got \subseteq Elems(queue[t])
    BY <2>1, ElemsCut
  <2>3. UNCHANGED <<lockOf, locked>> /\ at' = [m \in Msgs |-> IF m \in got THEN "taken" ELSE at[m]]
    BY <1>7 DEF Inject
  <2> HIDE DEF got
  <2> QED
    BY <2>2, <2>3, QueuedAreNoTasks DEF Holding, Inside, PlaceInv
<1>8. ASSUME NEW t \in Msgs, FinishTurn(t) PROVE Same
  BY <1>8, QueuedAreNoTasks DEF FinishTurn, Running, Settle, TypeOK, Holding, Inside, PlaceInv
<1>9. ASSUME NEW t \in Msgs, FailTurn(t) PROVE Same
  BY <1>9, QueuedAreNoTasks DEF FailTurn, Running, Settle, TypeOK, Holding, Inside, PlaceInv
<1>10. ASSUME NEW t \in Msgs, ClearSession(t) PROVE Same
  BY <1>10 DEF ClearSession, Running, TypeOK, Holding, Inside, PlaceInv
<1>11. ASSUME NEW t \in Msgs, SessionCleared(t) PROVE Same
  BY <1>11 DEF SessionCleared, Running, TypeOK, Holding, Inside, PlaceInv
<1>12. ASSUME NEW t \in Msgs, PublishReply(t) \/ SkipReply(t) \/ PublishClose(t),
              CleanUp(t)
       PROVE  Same
  <2>1. UNCHANGED <<lockOf, locked>> /\ at[t] \in {"reply", "close"}
    BY <1>12 DEF PublishReply, SkipReply, PublishClose, Running
  <2>2. \A u \in Msgs : at'[u] = IF u \in Returned(t) THEN "inbound"
                                 ELSE IF u = t THEN "drain" ELSE at[u]
    <3> HIDE DEF Returned
    <3> QED
      BY <1>12 DEF CleanUp
  <2>3. \A u \in Returned(t) : at[u] = "pending"
    BY QueuedAreNoTasks DEF PlaceInv
  <2> QED
    BY <2>1, <2>2, <2>3 DEF Holding, Inside, Turning
<1>13. ASSUME NEW t \in Msgs, PublishReply(t) \/ SkipReply(t) \/ PublishClose(t)
       PROVE  Same
  <2>1. CASE at' = [at EXCEPT ![t] = "close"]
    <3>1. UNCHANGED <<lockOf, locked>> /\ at[t] \in {"reply", "close"}
      BY <1>13 DEF PublishReply, SkipReply, PublishClose, Running
    <3>2. \A u \in Msgs : at'[u] = IF u = t THEN "close" ELSE at[u]
      BY <2>1 DEF TypeOK
    <3> QED
      BY <3>1, <3>2 DEF Holding, Inside, Turning
  <2>2. CASE CleanUp(t)
    BY <1>12, <1>13, <2>2
  <2> QED
    BY <1>13, <2>1, <2>2 DEF PublishReply, SkipReply, PublishClose, AfterReply
<1>14. ASSUME NEW t \in Msgs, RepublishLeftover(t) PROVE Same
  BY <1>14, QueuedAreNoTasks DEF RepublishLeftover, Running, TypeOK, Holding, Inside, PlaceInv
<1>15. ASSUME NEW t \in Msgs, CancelTurn(t) PROVE Same
  BY <1>15, QueuedAreNoTasks DEF CancelTurn, Settle, TypeOK, Holding, Inside, PlaceInv
<1>16. CASE ConsumeOutbound
  BY <1>16, <1>0 DEF ConsumeOutbound, TypeOK, PlaceInv, Holding, Inside
<1>17. CASE CancelDone
  BY <1>17, <1>0 DEF CancelDone, TypeOK, PlaceInv, Holding, Inside
<1>18. CASE CommandReply
  BY <1>18, <1>0 DEF CommandReply, OnePlace, TypeOK, PlaceInv, Holding, Inside
<1>19. CASE UNCHANGED vars
  BY <1>19, <1>0 DEF vars
<1>20. ASSUME NEW t \in Msgs, StartTask(t) PROVE LockInv'
  <2>1. PICK l \in Candidates(t) : lockOf' = [lockOf EXCEPT ![t] = l]
    BY <1>20 DEF StartTask
  <2>2. \/ l = t /\ \A u \in Peers(SessionOf[t]) : lockOf[u] = NoTask
        \/ \E u \in Peers(SessionOf[t]) : lockOf[u] = l /\ l # NoTask
    BY CandidateLock
  <2>3. l # NoTask /\ \A u \in Peers(SessionOf[t]) : lockOf[u] # NoTask => lockOf[u] = l
    BY <2>2 DEF LockInv, Peers, DispatchAssumption
  <2>4. /\ at[t] = "new" /\ at' = [at EXCEPT ![t] = "lock"] /\ locked' = locked
    BY <1>20 DEF StartTask, Running
  <2>5. \A u \in Msgs : /\ at'[u] = IF u = t THEN "lock" ELSE at[u]
                        /\ lockOf'[u] = IF u = t THEN l ELSE lockOf[u]
    BY <2>1, <2>4 DEF TypeOK
  <2> QED
    BY <2>3, <2>4, <2>5 DEF LockInv, Peers, Holding, Inside
<1>21. ASSUME NEW t \in Msgs, AcquireLock(t) PROVE LockInv'
  <2>1. at[t] = "lock" /\ lockOf[t] \notin locked /\ locked' = locked \cup {lockOf[t]}
    BY <1>21 DEF AcquireLock, Running
  <2>2. lockOf' = lockOf /\ \A u \in Msgs : at'[u] = IF u = t THEN "gate" ELSE at[u]
    BY <1>21 DEF AcquireLock, TypeOK
  <2> QED
    BY <2>1, <2>2 DEF LockInv, Holding, Inside
\* A task that is over gives its lock up, which nobody else holds.
<1>22. ASSUME NEW t \in Msgs, EndTask(t) PROVE LockInv'
  <2>1. at[t] \in {"drain", "abort"} /\ at'[t] \in {"stopped", "done"}
        /\ \A u \in Msgs \ {t} : at'[u] = at[u]
    BY <1>22 DEF EndTask, Running, TypeOK
  <2>2. \A u \in Msgs : lockOf'[u] = IF u = t THEN NoTask ELSE lockOf[u]
    BY <1>22 DEF EndTask, Exit, TypeOK
  <2>3. locked' = locked \ {lockOf[t]}
    BY <1>22 DEF EndTask, Exit
  <2> QED
    BY <2>1, <2>2, <2>3 DEF LockInv, Holding, Inside
<1>23. ASSUME NEW t \in Msgs, CancelWaiting(t) \/ EndWaiting(t) \/ CancelLeaving(t)
       PROVE  LockInv'
  <2>1. at[t] \in {"new", "lock", "gate", "leave"} /\ at'[t] = "stopped"
        /\ \A u \in Msgs \ {t} : at'[u] = at[u]
    BY <1>23 DEF CancelWaiting, EndWaiting, CancelLeaving, Drop, Running, TypeOK
  <2>2. \A u \in Msgs : lockOf'[u] = IF u = t THEN NoTask ELSE lockOf[u]
    BY <1>23 DEF CancelWaiting, EndWaiting, CancelLeaving, Drop, TypeOK
  <2>3. locked' = IF at[t] = "gate" THEN locked \ {lockOf[t]} ELSE locked
    BY <1>23 DEF CancelWaiting, EndWaiting, CancelLeaving, Running
  <2> QED
    BY <2>1, <2>2, <2>3 DEF LockInv, Holding, Inside, Turning
<1>25. ASSUME NEW t \in Msgs, CancelToLeave(t) PROVE LockInv'
  <2>1. at[t] \in {"lock", "gate"} /\ at'[t] = "leave" /\ lockOf' = lockOf
        /\ \A u \in Msgs \ {t} : at'[u] = at[u]
    BY <1>25 DEF CancelToLeave, TypeOK
  <2>2. locked' = IF at[t] = "gate" THEN locked \ {lockOf[t]} ELSE locked
    BY <1>25 DEF CancelToLeave
  <2> QED
    BY <2>1, <2>2 DEF LockInv, Holding, Inside, Turning
<1>24. ASSUME NEW t \in Msgs, CancelCleanup(t) PROVE LockInv'
  <2>0. \A m \in Elems(queue[t]) : at[m] = "pending"
    BY QueuedAreNoTasks DEF PlaceInv
  <2>1. at[t] \in {"drain", "abort"} /\ at'[t] \in {"stopped", "done"}
        /\ \A u \in Msgs \ {t} :
              at'[u] = at[u] \/ (at[u] = "pending" /\ at'[u] = "lost")
    BY <1>24, <2>0 DEF CancelCleanup
  <2>2. \A u \in Msgs : lockOf'[u] = IF u = t THEN NoTask ELSE lockOf[u]
    BY <1>24 DEF CancelCleanup, Exit, TypeOK
  <2>3. locked' = locked \ {lockOf[t]}
    BY <1>24 DEF CancelCleanup, Exit
  <2> QED
    BY <2>1, <2>2, <2>3 DEF LockInv, Holding, Inside
<1> QED
  BY <1>0, <1>1, <1>2, <1>3, <1>4, <1>5, <1>6, <1>7, <1>8, <1>9, <1>10, <1>11,
     <1>12, <1>13, <1>14, <1>15, <1>16, <1>17, <1>18, <1>19, <1>20, <1>21,
     <1>22, <1>23, <1>24, <1>25 DEF Next, RunLoop, TaskStep, TurnEnds, AllSettled

THEOREM SessionSerialHolds == Spec => []SessionSerial
<1>1. Init => LockInv
  BY DEF Init, LockInv, Holding, Inside
<1>2. TypeOK /\ PlaceInv /\ LockInv /\ [Next]_vars => LockInv'
  BY LockInvInductive
<1> QED
  BY <1>1, <1>2, TypeCorrect, PlacesInvariant, LockInvGivesSerial, PTL DEF Spec
-----------------------------------------------------------------------------
(***************************************************************************)
(* What the dispatcher owes the senders of messages.                       *)
(***************************************************************************)
\* Who keeps a message that waits: a published queue is that of a running turn
\* of the session, a queue that holds something is that of a task inside the
\* gate, and only a chat at work has follow-ups in its prompt.
KeeperInv ==
    /\ \A s \in Sessions : owner[s] # NoTask =>
           at[owner[s]] \in Turning /\ SessionOf[owner[s]] = s
    /\ \A t \in Msgs : \A m \in Elems(queue[t]) :
           at[t] \in Inside /\ SessionOf[m] = SessionOf[t] /\ Kind[m] = "chat"
    /\ \A t \in Msgs : \A m \in taken[t] :
           at[t] = "run" /\ SessionOf[m] = SessionOf[t] /\ Kind[t] = "chat"

\* What a clean-up re-publishes was pending in the task's own queue.
LEMMA RepublishFrame ==
    ASSUME TypeOK, PlaceInv, NEW t \in Msgs, Republish(t)
    PROVE  /\ \A m \in Returned(t) : m \in Elems(queue[t]) /\ m \in Msgs /\ at[m] = "pending"
           /\ \A u \in Msgs : \A m \in Elems(queue'[u]) : m \in Elems(queue[u])
<1>1. /\ Elems(queue'[t]) = Elems(queue[t]) \ Returned(t)
      /\ \A u \in Msgs \ {t} : queue'[u] = queue[u]
  BY DispatchAssumption, RepublishMoves DEF PlaceInv
<1> QED
  BY <1>1, QueuedAreNoTasks DEF PlaceInv

\* The queue published for a session is a task's.
LEMMA OwnersAreTasks ==
    ASSUME TypeOK PROVE \A s \in Sessions : owner[s] # NoTask => owner[s] \in Msgs
  BY DEF TypeOK

\* Queues and prompts lose messages only, queues are withdrawn only, and no task
\* leaves the steps in which it may own what it keeps.
LEMMA KeeperFrame ==
    ASSUME KeeperInv,
           \A s \in Sessions : owner'[s] # NoTask =>
               owner'[s] = owner[s] /\ at'[owner[s]] \in Turning,
           \A u \in Msgs : \A m \in Elems(queue'[u]) :
               m \in Elems(queue[u]) /\ (at[u] \in Inside => at'[u] \in Inside),
           \A u \in Msgs : \A m \in taken'[u] : m \in taken[u] /\ at'[u] = at[u]
    PROVE  KeeperInv'
<1>1. \A s \in Sessions : owner'[s] # NoTask =>
          at'[owner'[s]] \in Turning /\ SessionOf[owner'[s]] = s
  BY DEF KeeperInv
<1>2. \A t \in Msgs : \A m \in Elems(queue'[t]) :
          at'[t] \in Inside /\ SessionOf[m] = SessionOf[t] /\ Kind[m] = "chat"
  BY DEF KeeperInv
<1>3. \A t \in Msgs : \A m \in taken'[t] :
          at'[t] = "run" /\ SessionOf[m] = SessionOf[t] /\ Kind[t] = "chat"
  BY DEF KeeperInv
<1> QED
  BY <1>1, <1>2, <1>3 DEF KeeperInv

\* A step of a message that is no running turn.
LEMMA QuietKeeps ==
    ASSUME TypeOK, KeeperInv, UNCHANGED <<owner, queue, taken>>,
           \A u \in Msgs : at[u] \in Inside => at'[u] = at[u]
    PROVE  KeeperInv'
<1>1. \A s \in Sessions : owner[s] # NoTask =>
          at'[owner[s]] \in Turning
  BY OwnersAreTasks DEF KeeperInv, Inside, Turning
<1>2. \A u \in Msgs : \A m \in taken[u] : at'[u] = at[u]
  BY DEF KeeperInv, Inside, Turning
<1> QED
  BY <1>1, <1>2, KeeperFrame

\* A running turn t moves on: what it no longer owns, it may no longer keep.
LEMMA TurnKeeps ==
    ASSUME TypeOK, KeeperInv, NEW t \in Msgs,
           \A u \in Msgs \ {t} : at[u] \in Inside => at'[u] = at[u],
           \A s \in Sessions : owner'[s] # NoTask => owner'[s] = owner[s],
           \A u \in Msgs : \A m \in Elems(queue'[u]) : m \in Elems(queue[u]),
           \A u \in Msgs : \A m \in taken'[u] : m \in taken[u],
           at'[t] \notin Turning => \A s \in Sessions : owner'[s] # t,
           at'[t] \notin Inside => Elems(queue'[t]) = {},
           at'[t] # at[t] => taken'[t] = {}
    PROVE  KeeperInv'
<1>1. \A s \in Sessions : owner'[s] # NoTask =>
          owner'[s] = owner[s] /\ at'[owner[s]] \in Turning
  BY OwnersAreTasks DEF KeeperInv, Inside, Turning
<1>2. \A u \in Msgs : \A m \in Elems(queue'[u]) :
          m \in Elems(queue[u]) /\ (at[u] \in Inside => at'[u] \in Inside)
  OBVIOUS
<1>3. ASSUME NEW u \in Msgs, NEW m \in taken'[u] PROVE m \in taken[u] /\ at'[u] = at[u]
  <2>1. m \in taken[u] /\ at[u] \in Inside
    BY <1>3 DEF KeeperInv, Inside, Turning
  <2> QED
    BY <1>3, <2>1
<1> QED
  BY <1>1, <1>2, <1>3, KeeperFrame

LEMMA KeeperInvInductive ==
    ASSUME TypeOK, TypeOK', PlaceInv, KeeperInv, [Next]_vars PROVE KeeperInv'
<1> USE DispatchAssumption
<1>1. ASSUME NEW m \in Msgs, PublishInbound(m) PROVE KeeperInv'
  <2>1. UNCHANGED <<owner, queue, taken>> /\ at[m] = "unsent"
        /\ \A u \in Msgs \ {m} : at'[u] = at[u]
    BY <1>1 DEF PublishInbound, TypeOK
  <2> QED
    BY <2>1, QuietKeeps DEF Inside, Turning
<1>2. ASSUME NEW m \in Msgs, ServeCommand(m) PROVE KeeperInv'
  <2>1. UNCHANGED <<owner, queue, taken>> /\ at[m] = "inbound"
        /\ \A u \in Msgs \ {m} : at'[u] = at[u]
    BY <1>2, NextInboundMoves DEF ServeCommand, TypeOK, PlaceInv
  <2> QED
    BY <2>1, QuietKeeps DEF Inside, Turning
<1>3. ASSUME NEW m \in Msgs, EnqueuePending(m) PROVE KeeperInv'
  <2> DEFINE o == owner[SessionOf[m]]
  <2>1. UNCHANGED <<owner, taken>> /\ at[m] = "inbound"
        /\ \A u \in Msgs \ {m} : at'[u] = at[u]
    BY <1>3, NextInboundMoves DEF EnqueuePending, TypeOK, PlaceInv
  <2>2. o \in Msgs /\ Kind[m] = "chat" /\ SessionOf[m] \in Sessions /\ o # NoTask
    BY <1>3 DEF EnqueuePending, Injectable, TypeOK, DispatchAssumption
  <2>3. at[o] \in Turning /\ SessionOf[o] = SessionOf[m]
    BY <2>2 DEF KeeperInv
  <2>4. queue'[o] = Append(queue[o], m) /\ \A u \in Msgs \ {o} : queue'[u] = queue[u]
    BY <1>3, <2>2 DEF EnqueuePending, TypeOK
  <2>5. Elems(queue'[o]) = Elems(queue[o]) \cup {m}
    BY <2>2, <2>4, ElemsAppend DEF TypeOK
  <2> HIDE DEF o
  <2>6. ASSUME NEW u \in Msgs, NEW v \in Elems(queue'[u])
        PROVE  at'[u] \in Inside /\ SessionOf[v] = SessionOf[u] /\ Kind[v] = "chat"
    <3>1. CASE u = o /\ v = m
      BY <2>1, <2>2, <2>3, <3>1 DEF Inside, Turning
    <3>2. CASE v \in Elems(queue[u])
      BY <2>1, <3>2 DEF KeeperInv, Inside, Turning
    <3> QED
      BY <2>4, <2>5, <2>6, <3>1, <3>2
  <2>7. \A s \in Sessions : owner'[s] # NoTask =>
           at'[owner'[s]] \in Turning /\ SessionOf[owner'[s]] = s
    BY <2>1, OwnersAreTasks DEF KeeperInv, Inside, Turning
  <2>8. \A t \in Msgs : \A v \in taken'[t] :
           at'[t] = "run" /\ SessionOf[v] = SessionOf[t] /\ Kind[t] = "chat"
    BY <2>1 DEF KeeperInv
  <2> QED
    BY <2>6, <2>7, <2>8 DEF KeeperInv
<1>4. ASSUME NEW m \in Msgs, SpawnTask(m) PROVE KeeperInv'
  <2>1. UNCHANGED <<owner, queue, taken>> /\ at[m] = "inbound"
        /\ \A u \in Msgs \ {m} : at'[u] = at[u]
    BY <1>4, NextInboundMoves DEF SpawnTask, TypeOK, PlaceInv
  <2> QED
    BY <2>1, QuietKeeps DEF Inside, Turning
<1>5. ASSUME NEW t \in Msgs, CancelTimeout(t) \/ ClearTimeout(t) PROVE KeeperInv'
  BY <1>5 DEF CancelTimeout, ClearTimeout, GiveUp, KeeperInv
<1>6. CASE CancelDone
  BY <1>6 DEF CancelDone, KeeperInv
<1>7. CASE CommandReply
  <2>1. UNCHANGED <<owner, queue, taken>>
        /\ \A u \in Msgs : at'[u] = IF u = server.msg THEN "done" ELSE at[u]
    BY <1>7 DEF CommandReply, TypeOK
  <2>2. \A u \in Msgs : u = server.msg => at[u] = "serving"
    BY DEF PlaceInv, OnePlace
  <2> QED
    BY <2>1, <2>2, QuietKeeps DEF Inside, Turning
<1>8. CASE ConsumeOutbound
  BY <1>8 DEF ConsumeOutbound, KeeperInv
<1>9. ASSUME NEW t \in Msgs, StartTask(t) PROVE KeeperInv'
  <2>1. UNCHANGED <<owner, queue, taken>> /\ at[t] = "new"
        /\ \A u \in Msgs \ {t} : at'[u] = at[u]
    BY <1>9 DEF StartTask, Running, TypeOK
  <2> QED
    BY <2>1, QuietKeeps DEF Inside, Turning
<1>10. ASSUME NEW t \in Msgs, AcquireLock(t) PROVE KeeperInv'
  <2>1. UNCHANGED <<owner, queue, taken>> /\ at[t] = "lock"
        /\ \A u \in Msgs \ {t} : at'[u] = at[u]
    BY <1>10 DEF AcquireLock, Running, TypeOK
  <2> QED
    BY <2>1, QuietKeeps DEF Inside, Turning
<1>11. ASSUME NEW t \in Msgs, AcquireGate(t) PROVE KeeperInv'
  <2>1. UNCHANGED <<queue, taken>> /\ at[t] = "gate" /\ at'[t] = "run"
        /\ \A u \in Msgs \ {t} : at'[u] = at[u]
    BY <1>11 DEF AcquireGate, Running, TypeOK
  <2>2. \A s \in Sessions : owner'[s] = IF s = SessionOf[t] THEN t ELSE owner[s]
    BY <1>11 DEF AcquireGate, TypeOK
  <2>3. \A s \in Sessions : owner'[s] # NoTask =>
            at'[owner'[s]] \in Turning /\ SessionOf[owner'[s]] = s
    BY <2>1, <2>2, OwnersAreTasks DEF KeeperInv, Turning
  <2>4. \A u \in Msgs : at[u] \in Inside => at'[u] = at[u]
    BY <2>1 DEF Inside, Turning
  <2> QED
    BY <2>1, <2>3, <2>4 DEF KeeperInv, Inside, Turning
<1>12. ASSUME NEW t \in Msgs, Inject(t) PROVE KeeperInv'
  <2> DEFINE n == IF Len(queue[t]) < DrainMax THEN Len(queue[t]) ELSE DrainMax
             got == Elems(First(n, queue[t]))
  <2>1. n \in Nat /\ n <= Len(queue[t]) /\ queue[t] \in Seq(Msgs) /\ NoRepeat(queue[t])
    BY DEF DispatchAssumption, TypeOK, PlaceInv, OnePlace
  <2>2. got \subseteq Elems(queue[t]) /\ Elems(Rest(n, queue[t])) \subseteq Elems(queue[t])
    BY <2>1, ElemsCut
  <2>3. /\ queue'[t] = Rest(n, queue[t]) /\ \A u \in Msgs \ {t} : queue'[u] = queue[u]
        /\ \A u \in Msgs : taken'[u] = IF u = t THEN taken[t] \cup got ELSE taken[u]
        /\ owner' = owner /\ at[t] = "run" /\ Kind[t] = "chat"
        /\ \A u \in Msgs : at'[u] = IF u \in got THEN "taken" ELSE at[u]
    BY <1>12 DEF Inject, Running, TypeOK
  <2>4. \A u \in got : at[u] = "pending"
    BY <2>2, QueuedAreNoTasks DEF PlaceInv
  <2> HIDE DEF n, got
  <2>5. \A u \in Msgs : \A m \in Elems(queue'[u]) : m \in Elems(queue[u])
    BY <2>2, <2>3
  <2>6. \A u \in Msgs : at[u] \in Inside => at'[u] = at[u]
    BY <2>3, <2>4 DEF Inside, Turning
  <2>7. \A s \in Sessions : owner[s] # NoTask => at'[owner[s]] = at[owner[s]]
    BY <2>6 DEF KeeperInv, TypeOK, Inside, Turning
  <2>8. ASSUME NEW u \in Msgs, NEW m \in taken'[u]
        PROVE  m \in taken[u] \/ (u = t /\ m \in Elems(queue[t]))
    <3>1. m \in IF u = t THEN taken[t] \cup got ELSE taken[u]
      BY <2>3, <2>8
    <3> QED
      BY <2>2, <3>1
  <2>9. ASSUME NEW u \in Msgs, NEW m \in taken'[u]
        PROVE  at'[u] = "run" /\ SessionOf[m] = SessionOf[u] /\ Kind[u] = "chat"
    BY <2>3, <2>6, <2>8, <2>9 DEF KeeperInv, Inside, Turning
  <2> QED
    BY <2>3, <2>5, <2>6, <2>7, <2>9 DEF KeeperInv
<1>13. ASSUME NEW t \in Msgs, FinishTurn(t) \/ FailTurn(t) PROVE KeeperInv'
  <2>1. /\ UNCHANGED <<owner, queue>> /\ at[t] = "run" /\ at'[t] \in {"reply", "close"}
        /\ \A u \in Msgs : taken'[u] = IF u = t THEN {} ELSE taken[u]
        /\ \A u \in Msgs \ {t} : at'[u] = at[u] \/ u \in taken[t]
    BY <1>13 DEF FinishTurn, FailTurn, Running, Settle, TypeOK
  <2>2. \A u \in Msgs \ {t} : at[u] \in Inside => at'[u] = at[u]
    BY <2>1, QueuedAreNoTasks DEF Inside, Turning, PlaceInv
  <2>3. \A u \in Msgs : \A m \in taken'[u] : m \in taken[u]
    BY <2>1
  <2>4. taken'[t] = {}
    BY <2>1
  <2> HIDE DEF TypeOK
  <2> QED
    BY <2>1, <2>2, <2>3, <2>4, TurnKeeps DEF Inside, Turning
<1>14. ASSUME NEW t \in Msgs, ClearSession(t) PROVE KeeperInv'
  <2>1. UNCHANGED <<owner, queue, taken>> /\ at[t] = "run" /\ at'[t] = "clearing"
        /\ \A u \in Msgs \ {t} : at'[u] = at[u]
    BY <1>14 DEF ClearSession, Running, TypeOK
  <2>2. taken[t] = {}
    BY <1>14 DEF ClearSession, KeeperInv
  <2> QED
    BY <2>1, <2>2, TurnKeeps DEF Inside, Turning
<1>15. ASSUME NEW t \in Msgs, SessionCleared(t) PROVE KeeperInv'
  <2>1. UNCHANGED <<owner, queue, taken>> /\ at[t] = "clearing" /\ at'[t] = "reply"
        /\ \A u \in Msgs \ {t} : at'[u] = at[u]
    BY <1>15 DEF SessionCleared, Running, TypeOK
  <2>2. taken[t] = {}
    BY <2>1 DEF KeeperInv
  <2> QED
    BY <2>1, <2>2, TurnKeeps DEF Inside, Turning
<1>16. ASSUME NEW t \in Msgs, PublishReply(t) \/ SkipReply(t) \/ PublishClose(t)
       PROVE  KeeperInv'
  <2>0. at[t] \in {"reply", "close"} /\ taken' = taken
    BY <1>16 DEF PublishReply, SkipReply, PublishClose, Running
  <2>1. CASE CleanUp(t)
    <3>1. /\ Republish(t) /\ owner' = Withdraw(t)
          /\ \A u \in Msgs : at'[u] = IF u \in Returned(t) THEN "inbound"
                                      ELSE IF u = t THEN "drain" ELSE at[u]
      <4> HIDE DEF Returned, Republish
      <4> QED
        BY <2>1 DEF CleanUp
    <3>2. \A u \in Msgs \ {t} : at[u] \in Inside => at'[u] = at[u]
      BY <3>1, RepublishFrame DEF Inside, Turning
    <3>3. at'[t] = "drain" /\ taken[t] = {}
      BY <2>0, <3>1, RepublishFrame DEF KeeperInv
    <3>4. \A s \in Sessions : owner'[s] = IF owner[s] = t THEN NoTask ELSE owner[s]
      BY <3>1 DEF Withdraw
    <3> QED
      BY <2>0, <3>1, <3>2, <3>3, <3>4, RepublishFrame, TurnKeeps, DispatchAssumption
         DEF Inside, Turning, DispatchAssumption
  <2>2. CASE at' = [at EXCEPT ![t] = "close"] /\ UNCHANGED <<owner, queue>>
    <3>1. at'[t] = "close" /\ \A u \in Msgs \ {t} : at'[u] = at[u]
      BY <2>2 DEF TypeOK
    <3>2. taken[t] = {}
      BY <2>0 DEF KeeperInv
    <3> QED
      BY <2>0, <2>2, <3>1, <3>2, TurnKeeps DEF Inside, Turning
  <2> QED
    BY <1>16, <2>1, <2>2 DEF PublishReply, SkipReply, PublishClose, AfterReply
<1>17. ASSUME NEW t \in Msgs, RepublishLeftover(t) PROVE KeeperInv'
  <2>1. /\ Republish(t) /\ taken' = taken /\ owner' = owner
        /\ \A u \in Msgs : at'[u] = IF u \in Returned(t) THEN "inbound" ELSE at[u]
    <3> HIDE DEF Returned, Republish
    <3> QED
      BY <1>17 DEF RepublishLeftover
  <2>2. \A u \in Msgs : at[u] \in Inside => at'[u] = at[u]
    BY <2>1, RepublishFrame DEF Inside, Turning
  <2>3. at[t] \in {"drain", "abort"}
    BY <1>17 DEF RepublishLeftover, Running
  <2>4. \A s \in Sessions : owner[s] # t
    BY <2>3 DEF KeeperInv, Turning, DispatchAssumption
  <2> QED
    BY <2>1, <2>2, <2>3, <2>4, RepublishFrame, TurnKeeps DEF Inside, Turning
<1>18. ASSUME NEW t \in Msgs, EndTask(t) PROVE KeeperInv'
  <2>1. UNCHANGED <<owner, queue, taken>> /\ at[t] \in {"drain", "abort"} /\ queue[t] = <<>>
        /\ \A u \in Msgs \ {t} : at'[u] = at[u]
    BY <1>18 DEF EndTask, Running, TypeOK
  <2>2. Elems(queue[t]) = {}
    BY <2>1 DEF Elems
  <2>3. taken[t] = {} /\ \A s \in Sessions : owner[s] # t
    BY <2>1 DEF KeeperInv, Turning, DispatchAssumption
  <2> QED
    BY <2>1, <2>2, <2>3, TurnKeeps
<1>19. ASSUME NEW t \in Msgs,
              CancelWaiting(t) \/ CancelToLeave(t) \/ EndWaiting(t) \/ CancelLeaving(t)
       PROVE  KeeperInv'
  <2>1. UNCHANGED <<owner, queue, taken>> /\ at[t] \in {"new", "lock", "gate", "leave"}
        /\ \A u \in Msgs \ {t} : at'[u] = at[u]
    BY <1>19 DEF CancelWaiting, CancelToLeave, EndWaiting, CancelLeaving, Drop, Running,
       TypeOK
  <2> QED
    BY <2>1, QuietKeeps DEF Inside, Turning
<1>20. ASSUME NEW t \in Msgs, CancelTurn(t) PROVE KeeperInv'
  <2>1. /\ Republish(t) /\ owner' = Withdraw(t) /\ at[t] \in Turning
        /\ \A u \in Msgs : taken'[u] = IF u = t THEN {} ELSE taken[u]
        /\ \A u \in Msgs : at'[u] = IF u \in Returned(t) THEN "inbound"
                                    ELSE IF u = t THEN "abort"
                                    ELSE IF u \in taken[t] THEN "stopped" ELSE at[u]
    <3> HIDE DEF Returned, Republish
    <3> QED
      BY <1>20 DEF CancelTurn, Settle, TypeOK, Turning
  <2>2. \A u \in Msgs \ {t} : at[u] \in Inside => at'[u] = at[u]
    BY <2>1, RepublishFrame, QueuedAreNoTasks DEF Inside, Turning, PlaceInv
  <2>3. at'[t] = "abort" /\ taken'[t] = {} /\ \A u \in Msgs : \A m \in taken'[u] : m \in taken[u]
    BY <2>1, RepublishFrame DEF Turning
  <2>4. \A s \in Sessions : owner'[s] = IF owner[s] = t THEN NoTask ELSE owner[s]
    BY <2>1 DEF Withdraw
  <2>5. NoTask # t /\ \A s \in Sessions : owner'[s] # t /\ (owner'[s] # NoTask => owner'[s] = owner[s])
    BY <2>4 DEF DispatchAssumption
  <2>6. at'[t] \in Inside
    BY <2>3 DEF Inside
  <2>7. \A u \in Msgs : \A m \in Elems(queue'[u]) : m \in Elems(queue[u])
    BY <2>1, RepublishFrame
  <2> QED
    BY <2>2, <2>3, <2>5, <2>6, <2>7, TurnKeeps
<1>21. ASSUME NEW t \in Msgs, CancelCleanup(t) PROVE KeeperInv'
  <2>1. /\ UNCHANGED <<owner, taken>> /\ at[t] \in {"drain", "abort"}
        /\ queue'[t] = <<>> /\ \A u \in Msgs \ {t} : queue'[u] = queue[u]
        /\ \A u \in Msgs \ {t} : at'[u] = IF u \in Elems(queue[t]) THEN "lost" ELSE at[u]
    BY <1>21 DEF CancelCleanup, TypeOK
  <2>2. Elems(queue'[t]) = {}
    BY <2>1 DEF Elems
  <2>3. \A u \in Msgs \ {t} : at[u] \in Inside => at'[u] = at[u]
    BY <2>1, QueuedAreNoTasks DEF Inside, Turning, PlaceInv
  <2>4. taken[t] = {} /\ \A s \in Sessions : owner[s] # t
    BY <2>1 DEF KeeperInv, Turning, DispatchAssumption
  <2>5. \A u \in Msgs : \A m \in Elems(queue'[u]) : m \in Elems(queue[u])
    BY <2>1, <2>2
  <2> QED
    BY <2>1, <2>2, <2>3, <2>4, <2>5, TurnKeeps
<1>22. CASE UNCHANGED vars
  BY <1>22 DEF vars, KeeperInv
<1> QED
  BY <1>1, <1>2, <1>3, <1>4, <1>5, <1>6, <1>7, <1>8, <1>9, <1>10, <1>11,
     <1>12, <1>13, <1>14, <1>15, <1>16, <1>17, <1>18, <1>19, <1>20, <1>21,
     <1>22 DEF Next, RunLoop, TaskStep, TurnEnds, AllSettled

-----------------------------------------------------------------------------
\* What a step of task t does to the messages it took or kept: they are no
\* tasks, before or after, and only a cancelled task drops them.
Others(t) ==
    \A u \in Msgs \ {t} :
        \/ at'[u] = at[u]
        \/ /\ at[u] \in {"pending", "taken"} /\ SessionOf[u] = SessionOf[t]
           /\ at'[u] \in {"inbound", "taken", "done", "failed", "stopped", "lost"}
           /\ at'[u] = "inbound" => Kind[u] = "chat"
           /\ at'[u] \in {"stopped", "lost"} => t \in cancelling

LEMMA TurnMoves ==
    ASSUME TypeOK, PlaceInv, KeeperInv, NEW t \in Msgs
    PROVE  /\ Inject(t) => at[t] = "run" /\ at'[t] = "run" /\ Others(t)
           /\ FinishTurn(t) \/ FailTurn(t) =>
                  at[t] = "run" /\ at'[t] \in {"reply", "close"} /\ Others(t)
           /\ PublishReply(t) \/ SkipReply(t) \/ PublishClose(t) =>
                  /\ at[t] \in {"reply", "close"} /\ at'[t] \in {"close", "drain"}
                  /\ Others(t)
           /\ RepublishLeftover(t) =>
                  at[t] \in {"drain", "abort"} /\ at'[t] = at[t] /\ Others(t)
           /\ CancelTurn(t) =>
                  at[t] \in Turning /\ at'[t] = "abort" /\ Others(t)
           /\ CancelCleanup(t) =>
                  /\ at[t] \in {"drain", "abort"}
                  /\ at'[t] = IF at[t] = "abort" THEN "stopped" ELSE "done"
                  /\ Others(t)
<1> USE DispatchAssumption
<1>0. /\ \A m \in Elems(queue[t]) : m \in Msgs /\ at[m] = "pending"
                                    /\ SessionOf[m] = SessionOf[t] /\ Kind[m] = "chat"
      /\ \A m \in taken[t] : m \in Msgs /\ at[m] = "taken" /\ SessionOf[m] = SessionOf[t]
  BY QueuedAreNoTasks DEF KeeperInv, PlaceInv
<1>00. Republish(t) => \A m \in Returned(t) : m \in Elems(queue[t])
  BY RepublishFrame
<1>1. ASSUME Inject(t) PROVE at[t] = "run" /\ at'[t] = "run" /\ Others(t)
  <2> DEFINE n == IF Len(queue[t]) < DrainMax THEN Len(queue[t]) ELSE DrainMax
             got == Elems(First(n, queue[t]))
  <2>1. n \in Nat /\ n <= Len(queue[t]) /\ queue[t] \in Seq(Msgs) /\ NoRepeat(queue[t])
    BY DEF DispatchAssumption, TypeOK, PlaceInv, OnePlace
  <2>2. got \subseteq Elems(queue[t])
    BY <2>1, ElemsCut
  <2>3. at[t] = "run" /\ \A u \in Msgs : at'[u] = IF u \in got THEN "taken" ELSE at[u]
    BY <1>1 DEF Inject, Running
  <2> HIDE DEF n, got
  <2>4. \A u \in got : at[u] = "pending" /\ SessionOf[u] = SessionOf[t]
    BY <1>0, <2>2
  <2> QED
    BY <2>3, <2>4 DEF Others
<1>2. ASSUME FinishTurn(t) \/ FailTurn(t)
      PROVE  at[t] = "run" /\ at'[t] \in {"reply", "close"} /\ Others(t)
  BY <1>0, <1>2 DEF FinishTurn, FailTurn, Running, Settle, Others
<1>3. ASSUME PublishReply(t) \/ SkipReply(t) \/ PublishClose(t)
      PROVE  at[t] \in {"reply", "close"} /\ at'[t] \in {"close", "drain"} /\ Others(t)
  <2>1. at[t] \in {"reply", "close"}
    BY <1>3 DEF PublishReply, SkipReply, PublishClose, Running
  <2>2. CASE CleanUp(t)
    <3>1. /\ Republish(t)
          /\ \A u \in Msgs : at'[u] = IF u \in Returned(t) THEN "inbound"
                                      ELSE IF u = t THEN "drain" ELSE at[u]
      BY <2>2 DEF CleanUp
    <3> QED
      BY <1>0, <1>00, <2>1, <3>1 DEF Others
  <2>3. CASE at' = [at EXCEPT ![t] = "close"]
    BY <2>1, <2>3 DEF Others, TypeOK
  <2> QED
    BY <1>3, <2>1, <2>2, <2>3 DEF PublishReply, SkipReply, PublishClose, AfterReply
<1>4. ASSUME RepublishLeftover(t)
      PROVE  at[t] \in {"drain", "abort"} /\ at'[t] = at[t] /\ Others(t)
  <2>1. /\ Republish(t) /\ at[t] \in {"drain", "abort"}
        /\ \A u \in Msgs : at'[u] = IF u \in Returned(t) THEN "inbound" ELSE at[u]
    BY <1>4 DEF RepublishLeftover, Running
  <2> QED
    BY <1>0, <1>00, <2>1 DEF Others
<1>5. ASSUME CancelTurn(t)
      PROVE  at[t] \in Turning /\ at'[t] = "abort" /\ Others(t)
  <2>1. /\ Republish(t) /\ at[t] \in Turning /\ t \in cancelling
        /\ \A u \in Msgs : at'[u] = IF u \in Returned(t) THEN "inbound"
                                    ELSE IF u = t THEN "abort"
                                    ELSE IF u \in taken[t] THEN "stopped" ELSE at[u]
    BY <1>5 DEF CancelTurn, Settle, Turning
  <2> QED
    BY <1>0, <1>00, <2>1 DEF Others, Turning
<1>6. ASSUME CancelCleanup(t)
      PROVE  /\ at[t] \in {"drain", "abort"}
             /\ at'[t] = IF at[t] = "abort" THEN "stopped" ELSE "done"
             /\ Others(t)
  BY <1>0, <1>6 DEF CancelCleanup, Others
<1> QED
  BY <1>1, <1>2, <1>3, <1>4, <1>5, <1>6

-----------------------------------------------------------------------------
\* Who is told to end: one who is told is waited for by the command at work or
\* by a /new turn of its session; a task is on the list, told, waited for by
\* the command at work, a /new turn, or at its idle status and waited for by
\* one; and the command at work accounts for every task of its session.
Awaited(t) == \E c \in Msgs : t \in awaits[c]
Told(t) ==
    \/ t \in cancelling \cup server.waits \/ Kind[t] = "new"
    \/ at[t] = "leave" /\ Awaited(t)

CancelInv ==
    /\ server.step # "cancel" => server.waits = {}
    /\ server.step # "idle" => server.msg \in Msgs /\ Kind[server.msg] # "chat"
    /\ \A c \in Msgs : \A t \in awaits[c] :
          at[c] = "clearing" /\ Kind[c] = "new" /\ SessionOf[t] = SessionOf[c] /\ t # c
    /\ \A t \in listed \cup cancelling : Live(t)
    /\ \A t \in cancelling : t \in server.waits \/ Awaited(t)
    /\ \A t \in Msgs : Live(t) => t \in listed \/ Told(t)
    /\ server.step # "idle" /\ Kind[server.msg] # "query" =>
          \A t \in Peers(SessionOf[server.msg]) : Live(t) => Told(t)

\* No task starts or ends, none is told to end, and none that waits for others
\* or with its status moves.
LEMMA CancelFrame ==
    ASSUME CancelInv, UNCHANGED <<server, listed, cancelling, awaits>>,
           listed \cup cancelling \subseteq Msgs,
           \A u \in Msgs : Live(u)' <=> Live(u),
           \A u \in Msgs : at[u] \in {"leave", "clearing"} => at'[u] = at[u]
    PROVE  CancelInv'
<1>1. \A t \in listed' \cup cancelling' : Live(t)'
  BY DEF CancelInv
<1>2. \A t \in Msgs : Told(t) => Told(t)'
  BY DEF Told, Awaited
<1>3. \A t : Awaited(t)' <=> Awaited(t)
  BY DEF Awaited
<1>4. \A c \in Msgs : \A t \in awaits'[c] :
         at'[c] = "clearing" /\ Kind[c] = "new" /\ SessionOf[t] = SessionOf[c] /\ t # c
  BY DEF CancelInv
<1>5. server'.step # "idle" /\ Kind[server'.msg] # "query" =>
          \A t \in Peers(SessionOf[server'.msg]) : Live(t)' => Told(t)'
  BY <1>2 DEF CancelInv, Peers
<1>6. \A t \in Msgs : Live(t)' => t \in listed' \/ Told(t)'
  BY <1>2 DEF CancelInv
<1> QED
  BY <1>1, <1>3, <1>4, <1>5, <1>6 DEF CancelInv

\* Steps of a task that stays a task, and neither waits for others nor with its
\* status.
LEMMA TurnCancels ==
    ASSUME TypeOK, CancelInv, UNCHANGED <<server, listed, cancelling, awaits>>, NEW t \in Msgs,
           Live(t), Live(t)', at[t] \notin {"leave", "clearing"}, Others(t)
    PROVE  CancelInv'
<1>1. \A u \in Msgs : Live(u)' <=> Live(u)
  BY DEF Others, Live, TaskSteps
<1>2. \A u \in Msgs : at[u] \in {"leave", "clearing"} => at'[u] = at[u]
  BY DEF Others
<1>3. listed \cup cancelling \subseteq Msgs
  BY DEF TypeOK
<1> QED
  BY <1>1, <1>2, <1>3, CancelFrame

\* Only the command at work waits for a task inside the gate: what a /new turn
\* waits for is kept out of it by the turn itself.
LEMMA InsideIsServed ==
    ASSUME TypeOK, SessionSerial, CancelInv, NEW t \in cancelling, at[t] \in Inside
    PROVE  t \in server.waits
<1>1. ASSUME NEW c \in Msgs, t \in awaits[c] PROVE FALSE
  BY <1>1 DEF CancelInv, SessionSerial, Holding, Inside, Turning, TypeOK
<1> QED
  BY <1>1 DEF CancelInv, Awaited

LEMMA CancelInvInductive ==
    ASSUME TypeOK, TypeOK', PlaceInv, KeeperInv, SessionSerial, CancelInv, [Next]_vars
    PROVE  CancelInv'
<1> USE DispatchAssumption
<1>0. /\ listed \cup cancelling \subseteq Msgs
      /\ server.waits \subseteq Msgs /\ server.step \in {"idle", "cancel", "reply"}
      /\ \A u \in Msgs : u = server.msg => at[u] = "serving"
  BY DEF TypeOK, PlaceInv, OnePlace
<1>1. ASSUME NEW m \in Msgs, PublishInbound(m) \/ EnqueuePending(m) PROVE CancelInv'
  <2>1. UNCHANGED <<server, listed, cancelling, awaits>> /\ at[m] \in {"unsent", "inbound"}
        /\ at'[m] \in {"inbound", "pending"}
        /\ \A u \in Msgs \ {m} : at'[u] = at[u]
    BY <1>1, NextInboundMoves DEF PublishInbound, EnqueuePending, TypeOK, PlaceInv
  <2> QED
    BY <1>0, <2>1, CancelFrame DEF Live, TaskSteps
<1>2. ASSUME NEW m \in Msgs, ServeCommand(m) PROVE CancelInv'
  <2> DEFINE popped == IF Kind[m] = "query" THEN {} ELSE listed \cap Peers(SessionOf[m])
  <2>1. /\ at[m] = "inbound" /\ at'[m] = "serving" /\ \A u \in Msgs \ {m} : at'[u] = at[u]
        /\ server.step = "idle" /\ Kind[m] # "chat" /\ awaits' = awaits
        /\ server' = [step |-> "cancel", msg |-> m, waits |-> popped]
        /\ listed' = listed \ popped /\ cancelling' = cancelling \cup popped
    BY <1>2, NextInboundMoves
       DEF ServeCommand, NextInbound, Dispatchable, TypeOK, PlaceInv
  <2>2. \A u \in Msgs : Live(u)' <=> Live(u)
    BY <2>1 DEF Live, TaskSteps
  <2>3. \A u : Awaited(u)' <=> Awaited(u)
    BY <2>1 DEF Awaited
  <2>4. server.waits = {}
    BY <2>1 DEF CancelInv
  <2>5. Kind[m] # "query" => popped = listed \cap Peers(SessionOf[m])
    OBVIOUS
  <2>9. popped \subseteq listed
    OBVIOUS
  <2> HIDE DEF popped
  <2>6. \A t \in Msgs : Told(t) \/ t \in popped => Told(t)'
    <3>1. \A t \in Msgs : at[t] = "leave" => at'[t] = "leave"
      BY <2>1
    <3>2. server.waits \cup cancelling \cup popped \subseteq server'.waits \cup cancelling'
      BY <2>1, <2>4
    <3> QED
      BY <3>1, <3>2, <2>3 DEF Told, Awaited
  <2>7. \A t \in Msgs : Live(t)' => t \in listed' \/ Told(t)'
    BY <2>1, <2>2, <2>6 DEF CancelInv
  <2>8. Kind[m] # "query" => \A t \in Peers(SessionOf[m]) : Live(t)' => Told(t)'
    BY <2>2, <2>5, <2>6 DEF CancelInv, Peers
  <2>10. \A t \in listed' \cup cancelling' : Live(t)'
    BY <1>0, <2>1, <2>2, <2>9 DEF CancelInv
  <2>11. \A t \in cancelling' : t \in server'.waits \/ Awaited(t)'
    BY <2>1, <2>3, <2>4 DEF CancelInv
  <2>12. \A c \in Msgs : \A t \in awaits'[c] :
            at'[c] = "clearing" /\ Kind[c] = "new" /\ SessionOf[t] = SessionOf[c] /\ t # c
    BY <2>1 DEF CancelInv
  <2> QED
    BY <2>1, <2>7, <2>8, <2>10, <2>11, <2>12 DEF CancelInv
<1>3. ASSUME NEW m \in Msgs, SpawnTask(m) PROVE CancelInv'
  <2>1. /\ UNCHANGED <<server, cancelling, awaits>> /\ at[m] = "inbound" /\ at'[m] = "new"
        /\ \A u \in Msgs \ {m} : at'[u] = at[u]
        /\ server.step = "idle" /\ listed' = listed \cup {m}
    BY <1>3, NextInboundMoves DEF SpawnTask, NextInbound, TypeOK, PlaceInv
  <2>2. m \notin cancelling /\ Live(m)' /\ \A u \in Msgs \ {m} : Live(u)' <=> Live(u)
    BY <2>1 DEF CancelInv, Live, TaskSteps
  <2>3. \A u : Awaited(u)' <=> Awaited(u)
    BY <2>1 DEF Awaited
  <2>4. \A u \in listed' \cup cancelling' : Live(u)'
    BY <1>0, <2>1, <2>2 DEF CancelInv
  <2>5. \A u \in Msgs : Live(u)' => u \in listed' \/ Told(u)'
    BY <2>1, <2>2, <2>3 DEF CancelInv, Told
  <2>6. \A c \in Msgs : \A t \in awaits'[c] :
            at'[c] = "clearing" /\ Kind[c] = "new" /\ SessionOf[t] = SessionOf[c] /\ t # c
    BY <2>1 DEF CancelInv
  <2> QED
    BY <2>1, <2>3, <2>4, <2>5, <2>6 DEF CancelInv
<1>4. ASSUME NEW t \in Msgs, GiveUp(t), t \in server.waits \/ Awaited(t) PROVE CancelInv'
  <2>1. UNCHANGED <<at, server, listed, awaits>> /\ at[t] \in {"abort", "leave"}
        /\ cancelling' = cancelling \cup {t}
    BY <1>4 DEF GiveUp, Stuck
  <2>2. \A u : (Awaited(u)' <=> Awaited(u)) /\ (Live(u)' <=> Live(u)) /\ (Told(u) => Told(u)')
    BY <2>1 DEF Awaited, Live, Told
  <2>3. Live(t)
    BY <2>1 DEF Live, TaskSteps
  <2> QED
    BY <1>4, <2>1, <2>2, <2>3 DEF CancelInv
<1>44. ASSUME NEW t \in Msgs, CancelTimeout(t) \/ ClearTimeout(t) PROVE CancelInv'
  <2>1. CASE CancelTimeout(t)
    BY <1>4, <2>1 DEF CancelTimeout
  <2>2. CASE ClearTimeout(t)
    <3>1. PICK u \in awaits[t] : GiveUp(u)
      BY <2>2 DEF ClearTimeout
    <3>2. u \in Msgs /\ Awaited(u)
      BY DEF TypeOK, Awaited
    <3> QED
      BY <1>4, <3>1, <3>2
  <2> QED
    BY <1>44, <2>1, <2>2
<1>5. CASE CancelDone
  <2>1. /\ UNCHANGED <<at, listed, cancelling, awaits>> /\ server.step = "cancel"
        /\ \A t \in server.waits : ~Live(t)
        /\ server'.step = "reply" /\ server'.waits = {} /\ server'.msg = server.msg
    BY <1>5 DEF CancelDone, TypeOK
  <2>2. \A u : (Awaited(u)' <=> Awaited(u)) /\ (Live(u)' <=> Live(u))
    BY <2>1 DEF Awaited, Live
  <2>3. \A u \in Msgs : Live(u) /\ Told(u) => Told(u)'
    BY <2>1, <2>2 DEF Told
  <2>4. \A t \in cancelling' : t \in server'.waits \/ Awaited(t)'
    BY <2>1, <2>2 DEF CancelInv
  <2>5. \A t \in Msgs : Live(t)' => t \in listed' \/ Told(t)'
    BY <2>1, <2>2, <2>3 DEF CancelInv
  <2>6. Kind[server'.msg] # "query" =>
            \A t \in Peers(SessionOf[server'.msg]) : Live(t)' => Told(t)'
    BY <2>1, <2>2, <2>3 DEF CancelInv, Peers
  <2> QED
    BY <2>1, <2>2, <2>4, <2>5, <2>6 DEF CancelInv
<1>6. CASE CommandReply
  <2>1. /\ UNCHANGED <<listed, cancelling, awaits>>
        /\ \A u \in Msgs : at'[u] = IF u = server.msg THEN "done" ELSE at[u]
        /\ server.step = "reply" /\ server'.step = "idle" /\ server'.waits = {}
    BY <1>6 DEF CommandReply, TypeOK, Idle
  <2>2. \A u \in Msgs : Live(u)' <=> Live(u)
    BY <1>0, <2>1 DEF Live, TaskSteps
  <2>3. \A u \in Msgs : at[u] \in {"leave", "clearing"} => at'[u] = at[u]
    BY <1>0, <2>1
  <2>4. server.waits = {} /\ \A u : Awaited(u)' <=> Awaited(u)
    BY <2>1 DEF Awaited, CancelInv
  <2>5. \A u \in Msgs : Told(u) => Told(u)'
    BY <2>1, <2>3, <2>4 DEF Told
  <2> QED
    BY <1>0, <2>1, <2>2, <2>3, <2>4, <2>5 DEF CancelInv
<1>7. CASE ConsumeOutbound
  BY <1>0, <1>7, CancelFrame DEF ConsumeOutbound, Live
<1>8. ASSUME NEW t \in Msgs, StartTask(t) \/ AcquireLock(t) \/ AcquireGate(t)
      PROVE  CancelInv'
  <2>1. UNCHANGED <<server, listed, cancelling, awaits>>
        /\ at[t] \in {"new", "lock", "gate"} /\ at'[t] \in {"lock", "gate", "run"}
        /\ \A u \in Msgs \ {t} : at'[u] = at[u]
    BY <1>8 DEF StartTask, AcquireLock, AcquireGate, Running, TypeOK
  <2> QED
    BY <1>0, <2>1, CancelFrame DEF Live, TaskSteps
<1>9. ASSUME NEW t \in Msgs,
             Inject(t) \/ FinishTurn(t) \/ FailTurn(t) \/ PublishReply(t)
             \/ SkipReply(t) \/ PublishClose(t) \/ RepublishLeftover(t)
      PROVE  CancelInv'
  <2>1. UNCHANGED <<server, listed, cancelling, awaits>>
    BY <1>9 DEF Inject, FinishTurn, FailTurn, PublishReply, SkipReply, PublishClose,
       RepublishLeftover
  <2>2. /\ Others(t) /\ at[t] \in {"run", "reply", "close", "drain", "abort"}
        /\ at'[t] \in {"run", "reply", "close", "drain", "abort"}
    BY <1>9, TurnMoves
  <2> QED
    BY <2>1, <2>2, TurnCancels DEF Live, TaskSteps
\* A /new turn waits for all it takes off the list but itself.
<1>10. ASSUME NEW t \in Msgs, ClearSession(t) PROVE CancelInv'
  <2> DEFINE popped == listed \cap Peers(SessionOf[t])
  <2>1. /\ server' = server /\ at[t] = "run" /\ at'[t] = "clearing" /\ Kind[t] = "new"
        /\ \A u \in Msgs \ {t} : at'[u] = at[u]
        /\ listed' = listed \ popped /\ cancelling' = cancelling \cup (popped \ {t})
        /\ \A c \in Msgs : awaits'[c] = IF c = t THEN popped \ {t} ELSE awaits[c]
    BY <1>10 DEF ClearSession, Running, TypeOK
  <2>2. \A u \in Msgs : Live(u)' <=> Live(u)
    BY <2>1 DEF Live, TaskSteps
  <2>3. awaits[t] = {}
    BY <2>1 DEF CancelInv, TypeOK
  <2>4. \A u : (Awaited(u) => Awaited(u)') /\ (u \in popped \ {t} => Awaited(u)')
    BY <2>1, <2>3 DEF Awaited
  <2>5. popped \subseteq listed /\ \A u \in popped : SessionOf[u] = SessionOf[t]
    BY DEF Peers
  <2> HIDE DEF popped
  <2>6. \A u \in listed' \cup cancelling' : Live(u)'
    BY <1>0, <2>1, <2>2, <2>5 DEF CancelInv
  <2>7. \A u \in Msgs : (Told(u) => Told(u)') /\ (u \in popped => Told(u)')
    <3>1. \A u \in Msgs : at[u] = "leave" => at'[u] = "leave"
      BY <2>1
    <3>2. /\ cancelling \cup (popped \ {t}) \subseteq cancelling' /\ server' = server
          /\ Kind[t] = "new"
      BY <2>1
    <3> QED
      BY <3>1, <3>2, <2>4 DEF Told, Awaited
  <2>8. \A u \in Msgs : Live(u)' => u \in listed' \/ Told(u)'
    BY <2>1, <2>2, <2>7 DEF CancelInv
  <2>9. \A u \in cancelling' : u \in server'.waits \/ Awaited(u)'
    BY <2>1, <2>4 DEF CancelInv
  <2>10. server'.step # "idle" /\ Kind[server'.msg] # "query" =>
            \A u \in Peers(SessionOf[server'.msg]) : Live(u)' => Told(u)'
    BY <2>1, <2>2, <2>7 DEF CancelInv, Peers
  <2>11. \A c \in Msgs : \A u \in awaits'[c] :
            at'[c] = "clearing" /\ Kind[c] = "new" /\ SessionOf[u] = SessionOf[c] /\ u # c
    BY <2>1, <2>5 DEF CancelInv
  <2> QED
    BY <2>1, <2>6, <2>8, <2>9, <2>10, <2>11 DEF CancelInv
<1>11. ASSUME NEW t \in Msgs, SessionCleared(t) PROVE CancelInv'
  <2>1. /\ UNCHANGED <<server, listed, cancelling>> /\ at[t] = "clearing" /\ at'[t] = "reply"
        /\ \A u \in Msgs \ {t} : at'[u] = at[u]
        /\ \A c \in Msgs : awaits'[c] = IF c = t THEN {} ELSE awaits[c]
        /\ \A u \in awaits[t] : ~Live(u)
    <3>1. \A c \in Msgs : awaits'[c] = IF c = t THEN {} ELSE awaits[c]
      BY <1>11 DEF SessionCleared, TypeOK
    <3>2. \A u \in awaits[t] : ~Live(u)
      BY <1>11 DEF SessionCleared
    <3> QED
      BY <1>11, <3>1, <3>2 DEF SessionCleared, Running, TypeOK
  <2>2. \A u \in Msgs : Live(u)' <=> Live(u)
    BY <2>1 DEF Live, TaskSteps
  <2>3. ASSUME NEW u, Live(u), Awaited(u) PROVE Awaited(u)'
    <3>1. PICK c \in Msgs : u \in awaits[c]
      BY <2>3 DEF Awaited
    <3>2. c # t
      BY <2>1, <2>3, <3>1
    <3> QED
      BY <2>1, <3>1, <3>2 DEF Awaited
  <2>4. \A u \in Msgs : Live(u) /\ Told(u) => Told(u)'
    BY <2>1, <2>3 DEF Told
  <2>5. \A u \in listed' \cup cancelling' : Live(u)'
    BY <1>0, <2>1, <2>2 DEF CancelInv
  <2>6. \A u \in cancelling' : u \in server'.waits \/ Awaited(u)'
    BY <2>1, <2>3 DEF CancelInv
  <2>7. ASSUME NEW c \in Msgs, NEW u \in awaits'[c]
        PROVE  at'[c] = "clearing" /\ Kind[c] = "new" /\ SessionOf[u] = SessionOf[c] /\ u # c
    <3>1. c # t /\ u \in awaits[c]
      BY <2>1
    <3> QED
      BY <2>1, <3>1 DEF CancelInv
  <2>8. \A u \in Msgs : Live(u)' => u \in listed' \/ Told(u)'
    BY <2>1, <2>2, <2>4 DEF CancelInv
  <2>9. server'.step # "idle" /\ Kind[server'.msg] # "query" =>
            \A u \in Peers(SessionOf[server'.msg]) : Live(u)' => Told(u)'
    BY <2>1, <2>2, <2>4 DEF CancelInv, Peers
  <2> QED
    BY <2>1, <2>5, <2>6, <2>7, <2>8, <2>9 DEF CancelInv
\* A task that ends is on no list and waited for by nobody in vain.
<1>12. ASSUME NEW t \in Msgs,
              EndTask(t) \/ CancelWaiting(t) \/ EndWaiting(t) \/ CancelLeaving(t)
              \/ CancelCleanup(t)
       PROVE  CancelInv'
  <2>1. /\ UNCHANGED <<server, awaits>> /\ listed' = listed \ {t}
        /\ cancelling' \in {cancelling, cancelling \ {t}} /\ t \notin cancelling'
        /\ at[t] # "clearing" /\ at'[t] \in {"stopped", "done"}
    BY <1>12 DEF EndTask, CancelWaiting, EndWaiting, CancelLeaving, CancelCleanup, Drop,
       Exit, Running, TypeOK
  <2>2. Others(t)
    <3>1. CASE EndTask(t) \/ CancelWaiting(t) \/ EndWaiting(t) \/ CancelLeaving(t)
      BY <3>1 DEF EndTask, CancelWaiting, EndWaiting, CancelLeaving, Drop, TypeOK, Others
    <3> QED
      BY <1>12, <3>1, TurnMoves
  <2>3. ~Live(t)' /\ \A u \in Msgs \ {t} : Live(u)' <=> Live(u)
    BY <2>1, <2>2 DEF Others, Live, TaskSteps
  <2>4. \A u \in Msgs \ {t} : at[u] \in {"leave", "clearing"} => at'[u] = at[u]
    BY <2>2 DEF Others
  <2>5. \A u \in listed' \cup cancelling' : Live(u)'
    BY <1>0, <2>1, <2>3 DEF CancelInv
  <2>6. \A u : Awaited(u)' <=> Awaited(u)
    BY <2>1 DEF Awaited
  <2>7. \A u \in Msgs \ {t} : Told(u) => Told(u)'
    BY <2>1, <2>4, <2>6 DEF Told
  <2>8. \A u \in Msgs : Live(u)' => u \in listed' \/ Told(u)'
    BY <2>1, <2>3, <2>7 DEF CancelInv
  <2>9. \A u \in cancelling' : u \in server'.waits \/ Awaited(u)'
    BY <2>1, <2>6 DEF CancelInv
  <2>10. server'.step # "idle" /\ Kind[server'.msg] # "query" =>
            \A u \in Peers(SessionOf[server'.msg]) : Live(u)' => Told(u)'
    BY <2>1, <2>3, <2>7 DEF CancelInv, Peers
  <2>11. \A c \in Msgs : \A u \in awaits'[c] :
            at'[c] = "clearing" /\ Kind[c] = "new" /\ SessionOf[u] = SessionOf[c] /\ u # c
    BY <2>1, <2>4 DEF CancelInv
  <2> QED
    BY <2>1, <2>5, <2>8, <2>9, <2>10, <2>11 DEF CancelInv
\* One who is told is waited for: by the command at work inside the gate, by it
\* or a /new turn outside.
<1>13. ASSUME NEW t \in Msgs, CancelTurn(t) \/ CancelToLeave(t) PROVE CancelInv'
  <2>1. /\ UNCHANGED <<server, listed, awaits>> /\ t \in cancelling
        /\ cancelling' = cancelling \ {t}
    BY <1>13 DEF CancelTurn, CancelToLeave
  <2>2. /\ Others(t) /\ at[t] \in Inside \cup {"lock", "gate"} /\ at[t] # "clearing"
        /\ at'[t] \in {"abort", "leave"}
    <3>1. CASE CancelTurn(t)
      BY <3>1, TurnMoves DEF CancelTurn, Inside, Turning
    <3>2. CASE CancelToLeave(t)
      BY <3>2 DEF CancelToLeave, Others, TypeOK
    <3> QED
      BY <1>13, <3>1, <3>2
  <2>3. \A u \in Msgs : Live(u)' <=> Live(u)
    BY <2>2 DEF Others, Live, TaskSteps, Inside, Turning
  <2>4. \A u \in Msgs : at[u] \in {"leave", "clearing"} => at'[u] = at[u]
    BY <2>2 DEF Others, Inside, Turning
  <2>5. t \in server.waits \/ (at'[t] = "leave" /\ Awaited(t))
    <3>1. CASE CancelTurn(t)
      <4>1. at[t] \in Inside /\ t \in cancelling
        BY <3>1 DEF CancelTurn, Inside
      <4>2. t \in server.waits
        BY <4>1, InsideIsServed
      <4> QED
        BY <4>2
    <3>2. CASE CancelToLeave(t)
      <4>1. at'[t] = "leave"
        BY <3>2 DEF CancelToLeave, TypeOK
      <4>2. ~(t \in server.waits) => Awaited(t)
        BY <2>1 DEF CancelInv
      <4> QED
        BY <4>1, <4>2
    <3> QED
      BY <1>13, <3>1, <3>2
  <2>6. \A u \in listed' \cup cancelling' : Live(u)'
    BY <1>0, <2>1, <2>3 DEF CancelInv
  <2>7. \A u : Awaited(u)' <=> Awaited(u)
    BY <2>1 DEF Awaited
  <2>8. \A u \in Msgs : Told(u) => Told(u)'
    BY <2>1, <2>4, <2>5, <2>7 DEF Told
  <2>9. \A u \in Msgs : Live(u)' => u \in listed' \/ Told(u)'
    BY <2>1, <2>3, <2>8 DEF CancelInv
  <2>10. \A u \in cancelling' : u \in server'.waits \/ Awaited(u)'
    BY <2>1, <2>7 DEF CancelInv
  <2>11. server'.step # "idle" /\ Kind[server'.msg] # "query" =>
            \A u \in Peers(SessionOf[server'.msg]) : Live(u)' => Told(u)'
    BY <2>1, <2>3, <2>8 DEF CancelInv, Peers
  <2>12. \A c \in Msgs : \A u \in awaits'[c] :
            at'[c] = "clearing" /\ Kind[c] = "new" /\ SessionOf[u] = SessionOf[c] /\ u # c
    BY <2>1, <2>4 DEF CancelInv
  <2> QED
    BY <2>1, <2>6, <2>9, <2>10, <2>11, <2>12 DEF CancelInv
<1>14. CASE UNCHANGED vars
  BY <1>0, <1>14, CancelFrame DEF vars, Live
<1> QED
  BY <1>1, <1>2, <1>3, <1>44, <1>5, <1>6, <1>7, <1>8, <1>9, <1>10, <1>11,
     <1>12, <1>13, <1>14 DEF Next, RunLoop, TaskStep, TurnEnds, AllSettled

-----------------------------------------------------------------------------
\* The user stopped or reset the session, and the command has been read.
Requested(s) ==
    \E c \in Peers(s) : Kind[c] \in {"stop", "new"}
                        /\ at[c] \notin {"unsent", "inbound", "pending"}

\* Nothing is cancelled or dropped but on request.
DropInv ==
    /\ \A t \in cancelling \cup server.waits : Requested(SessionOf[t])
    /\ \A m \in Msgs : at[m] \in {"abort", "leave", "stopped", "lost"} =>
          Requested(SessionOf[m])

\* Only chats ever go back to the inbound queue, so a command stays read.
LEMMA RequestedStays ==
    ASSUME \A u \in Msgs : at'[u] \in {"unsent", "inbound", "pending"} =>
               at[u] \in {"unsent", "inbound", "pending"} \/ Kind[u] = "chat",
           NEW s, Requested(s)
    PROVE  Requested(s)'
  BY DEF Requested, Peers

LEMMA DropFrame ==
    ASSUME DropInv,
           \A u \in Msgs : at'[u] \in {"unsent", "inbound", "pending"} =>
               at[u] \in {"unsent", "inbound", "pending"} \/ Kind[u] = "chat",
           \A u \in cancelling' \cup server'.waits :
               u \in cancelling \cup server.waits \/ Requested(SessionOf[u])',
           \A u \in Msgs : at'[u] \in {"abort", "leave", "stopped", "lost"} =>
               at[u] \in {"abort", "leave", "stopped", "lost"} \/ Requested(SessionOf[u])
    PROVE  DropInv'
<1>1. \A s : Requested(s) => Requested(s)'
  BY RequestedStays
<1>2. \A t \in cancelling' \cup server'.waits : Requested(SessionOf[t])'
  BY <1>1 DEF DropInv
<1>3. \A m \in Msgs : at'[m] \in {"abort", "leave", "stopped", "lost"} =>
          Requested(SessionOf[m])'
  BY <1>1 DEF DropInv
<1> QED
  BY <1>2, <1>3 DEF DropInv

LEMMA DropInvInductive ==
    ASSUME TypeOK, TypeOK', PlaceInv, KeeperInv, CancelInv, DropInv, [Next]_vars
    PROVE  DropInv'
<1> USE DispatchAssumption
<1>1. ASSUME NEW m \in Msgs, PublishInbound(m) PROVE DropInv'
  <2>1. UNCHANGED <<server, cancelling>> /\ at[m] = "unsent" /\ at'[m] = "inbound"
        /\ \A u \in Msgs \ {m} : at'[u] = at[u]
    BY <1>1 DEF PublishInbound, TypeOK
  <2> QED
    BY <2>1, DropFrame
<1>2. ASSUME NEW m \in Msgs, ServeCommand(m) PROVE DropInv'
  <2> DEFINE popped == IF Kind[m] = "query" THEN {} ELSE listed \cap Peers(SessionOf[m])
  <2>1. /\ at[m] = "inbound" /\ at'[m] = "serving" /\ \A u \in Msgs \ {m} : at'[u] = at[u]
        /\ Kind[m] \in {"query", "new", "stop"} /\ server'.waits = popped
        /\ cancelling' = cancelling \cup popped
    BY <1>2, NextInboundMoves
       DEF ServeCommand, NextInbound, Dispatchable, TypeOK, PlaceInv
  <2>2. ASSUME NEW u \in popped PROVE Requested(SessionOf[u])'
    BY <2>1, <2>2 DEF Requested, Peers
  <2> HIDE DEF popped
  <2> QED
    BY <2>1, <2>2, DropFrame
<1>3. ASSUME NEW m \in Msgs, EnqueuePending(m) \/ SpawnTask(m) PROVE DropInv'
  <2>1. UNCHANGED <<server, cancelling>> /\ at[m] = "inbound" /\ at'[m] \in {"pending", "new"}
        /\ \A u \in Msgs \ {m} : at'[u] = at[u]
    <3>1. UNCHANGED <<server, cancelling>> /\ NextInbound(m)
      BY <1>3 DEF EnqueuePending, SpawnTask
    <3>2. PICK place \in {"pending", "new"} : at' = [at EXCEPT ![m] = place]
      BY <1>3 DEF EnqueuePending, SpawnTask
    <3>3. at[m] = "inbound"
      BY <3>1, NextInboundMoves DEF PlaceInv
    <3> QED
      BY <3>1, <3>2, <3>3 DEF TypeOK
  <2> QED
    BY <2>1, DropFrame
<1>4. ASSUME NEW t \in Msgs, CancelTimeout(t) \/ ClearTimeout(t) PROVE DropInv'
  <2>1. CASE CancelTimeout(t)
    <3>1. UNCHANGED <<at, server>> /\ t \in server.waits /\ cancelling' = cancelling \cup {t}
      BY <2>1 DEF CancelTimeout, GiveUp
    <3> QED
      BY <3>1, DropFrame
  <2>2. CASE ClearTimeout(t)
    <3>1. PICK u \in awaits[t] : UNCHANGED <<at, server>> /\ cancelling' = cancelling \cup {u}
      BY <2>2 DEF ClearTimeout, GiveUp
    <3>2. Requested(SessionOf[u])'
      BY <3>1 DEF CancelInv, Requested, Peers
    <3> QED
      BY <3>1, <3>2, DropFrame
  <2> QED
    BY <1>4, <2>1, <2>2
<1>5. CASE CancelDone
  <2>1. UNCHANGED <<at, cancelling>> /\ server'.waits = {}
    BY <1>5 DEF CancelDone, TypeOK
  <2> QED
    BY <2>1, DropFrame
<1>6. CASE CommandReply
  <2>1. /\ cancelling' = cancelling /\ server'.waits = {}
        /\ \A u \in Msgs : at'[u] = IF u = server.msg THEN "done" ELSE at[u]
    BY <1>6 DEF CommandReply, TypeOK, Idle
  <2> QED
    BY <2>1, DropFrame
<1>7. CASE ConsumeOutbound
  BY <1>7, DropFrame DEF ConsumeOutbound
<1>8. ASSUME NEW t \in Msgs, StartTask(t) \/ AcquireLock(t) \/ AcquireGate(t) \/ SessionCleared(t)
      PROVE  DropInv'
  <2>1. UNCHANGED <<server, cancelling>>
        /\ at'[t] \in {"lock", "gate", "run", "reply"}
        /\ \A u \in Msgs \ {t} : at'[u] = at[u]
    BY <1>8 DEF StartTask, AcquireLock, AcquireGate, SessionCleared, TypeOK
  <2> QED
    BY <2>1, DropFrame
<1>9. ASSUME NEW t \in Msgs,
             Inject(t) \/ FinishTurn(t) \/ FailTurn(t) \/ PublishReply(t)
             \/ SkipReply(t) \/ PublishClose(t) \/ RepublishLeftover(t)
      PROVE  DropInv'
  <2>1. UNCHANGED <<server, cancelling>>
    BY <1>9 DEF Inject, FinishTurn, FailTurn, PublishReply, SkipReply, PublishClose,
       RepublishLeftover
  <2>2. Others(t) /\ at'[t] \in {"run", "reply", "close", "drain", at[t]}
    BY <1>9, TurnMoves
  <2>3. t \in cancelling => Requested(SessionOf[t])
    BY DEF DropInv
  <2> QED
    BY <2>1, <2>2, <2>3, DropFrame DEF Others
\* The /new turn itself is the request for what it cancels.
<1>10. ASSUME NEW t \in Msgs, ClearSession(t) PROVE DropInv'
  <2>1. /\ server' = server /\ at'[t] = "clearing" /\ Kind[t] = "new"
        /\ \A u \in Msgs \ {t} : at'[u] = at[u]
        /\ cancelling' \subseteq cancelling \cup Peers(SessionOf[t])
    BY <1>10 DEF ClearSession, TypeOK
  <2>2. \A u \in Peers(SessionOf[t]) : Requested(SessionOf[u])'
    BY <2>1 DEF Requested, Peers
  <2> QED
    BY <2>1, <2>2, DropFrame
<1>11. ASSUME NEW t \in Msgs, EndTask(t) PROVE DropInv'
  <2>1. UNCHANGED <<server, cancelling>> /\ \A u \in Msgs \ {t} : at'[u] = at[u]
    BY <1>11 DEF EndTask, TypeOK
  <2>2. at'[t] = IF at[t] = "abort" THEN "stopped" ELSE "done"
    BY <1>11 DEF EndTask, TypeOK
  <2> QED
    BY <2>1, <2>2, DropFrame
<1>12. ASSUME NEW t \in Msgs,
              CancelWaiting(t) \/ CancelToLeave(t) \/ EndWaiting(t) \/ CancelLeaving(t)
              \/ CancelTurn(t) \/ CancelCleanup(t)
       PROVE  DropInv'
  <2>1. /\ server' = server /\ cancelling' \subseteq cancelling
        /\ Requested(SessionOf[t])
    BY <1>12 DEF CancelWaiting, CancelToLeave, EndWaiting, CancelLeaving, CancelTurn,
       CancelCleanup, Running, DropInv
  <2>2. Others(t) /\ at'[t] \in {"stopped", "leave", "abort", "done"}
    <3>1. CASE CancelWaiting(t) \/ CancelToLeave(t) \/ EndWaiting(t) \/ CancelLeaving(t)
      BY <3>1 DEF CancelWaiting, CancelToLeave, EndWaiting, CancelLeaving, Drop, TypeOK,
         Others
    <3> QED
      BY <1>12, <3>1, TurnMoves
  <2> QED
    BY <2>1, <2>2, DropFrame DEF Others
<1>13. CASE UNCHANGED vars
  BY <1>13, DropFrame DEF vars
<1> QED
  BY <1>1, <1>2, <1>3, <1>4, <1>5, <1>6, <1>7, <1>8, <1>9, <1>10, <1>11,
     <1>12, <1>13 DEF Next, RunLoop, TaskStep, TurnEnds, AllSettled

-----------------------------------------------------------------------------
\* The gate: a permit is out for every task inside it.
Serving == {t \in Msgs : at[t] \in Inside}
GateInv == GateMax > 0 => IsFiniteSet(Serving) /\ permits + Cardinality(Serving) = GateMax

LEMMA GateInvInductive ==
    ASSUME TypeOK, TypeOK', PlaceInv, KeeperInv, GateInv, [Next]_vars
    PROVE  GateInv'
<1> USE DispatchAssumption
<1>0. ASSUME permits' = permits, \A u \in Msgs : at'[u] \in Inside <=> at[u] \in Inside
      PROVE  GateInv'
  <2>1. Serving' = Serving
    BY <1>0 DEF Serving
  <2> QED
    BY <1>0, <2>1 DEF GateInv
<1>1. ASSUME NEW m \in Msgs,
             PublishInbound(m) \/ ServeCommand(m) \/ EnqueuePending(m) \/ SpawnTask(m)
      PROVE  GateInv'
  <2>1. permits' = permits /\ at[m] \notin Inside /\ at'[m] \notin Inside
        /\ \A u \in Msgs \ {m} : at'[u] = at[u]
    BY <1>1, NextInboundMoves
       DEF PublishInbound, ServeCommand, EnqueuePending, SpawnTask, TypeOK, PlaceInv, Inside
  <2> QED
    BY <1>0, <2>1
<1>2. CASE ConsumeOutbound \/ CancelDone \/ UNCHANGED vars
  BY <1>0, <1>2 DEF ConsumeOutbound, CancelDone, vars
<1>3. ASSUME NEW t \in Msgs, CancelTimeout(t) \/ ClearTimeout(t) PROVE GateInv'
  BY <1>0, <1>3 DEF CancelTimeout, ClearTimeout, GiveUp
<1>4. CASE CommandReply
  <2>1. /\ permits' = permits
        /\ \A u \in Msgs : at'[u] = IF u = server.msg THEN "done" ELSE at[u]
    BY <1>4 DEF CommandReply, TypeOK
  <2>2. \A u \in Msgs : u = server.msg => at[u] = "serving"
    BY DEF PlaceInv, OnePlace
  <2> QED
    BY <1>0, <2>1, <2>2 DEF Inside
<1>5. ASSUME NEW t \in Msgs, StartTask(t) \/ AcquireLock(t) \/ ClearSession(t) \/ SessionCleared(t)
      PROVE  GateInv'
  <2>1. permits' = permits /\ (at[t] \in Inside <=> at'[t] \in Inside)
        /\ \A u \in Msgs \ {t} : at'[u] = at[u]
    BY <1>5 DEF StartTask, AcquireLock, ClearSession, SessionCleared, Running, TypeOK, Inside
  <2> QED
    BY <1>0, <2>1
<1>6. ASSUME NEW t \in Msgs,
             Inject(t) \/ FinishTurn(t) \/ FailTurn(t) \/ PublishReply(t)
             \/ SkipReply(t) \/ PublishClose(t) \/ RepublishLeftover(t) \/ CancelTurn(t)
      PROVE  GateInv'
  <2>1. permits' = permits
    BY <1>6 DEF Inject, FinishTurn, FailTurn, PublishReply, SkipReply, PublishClose,
       RepublishLeftover, CancelTurn
  <2>2. Others(t) /\ at[t] \in Inside /\ at'[t] \in Inside
    BY <1>6, TurnMoves DEF Inside, Turning
  <2> QED
    BY <1>0, <2>1, <2>2 DEF Others, Inside
<1>7. ASSUME NEW t \in Msgs, AcquireGate(t) PROVE GateInv'
  <2>1. /\ at[t] = "gate" /\ at'[t] = "run" /\ \A u \in Msgs \ {t} : at'[u] = at[u]
        /\ GateMax > 0 => permits' = permits - 1
    BY <1>7 DEF AcquireGate, Running, TypeOK
  <2>2. Serving' = Serving \cup {t} /\ t \notin Serving
    BY <2>1 DEF Serving, Inside
  <2>3. SUFFICES ASSUME GateMax > 0
                 PROVE  IsFiniteSet(Serving') /\ permits' + Cardinality(Serving') = GateMax
    BY DEF GateInv
  <2>4. IsFiniteSet(Serving') /\ Cardinality(Serving') = Cardinality(Serving) + 1
    BY <2>2, <2>3, FS_AddElement DEF GateInv
  <2>5. permits \in Nat /\ Cardinality(Serving) \in Nat
    BY <2>3, FS_CardinalityType DEF TypeOK, GateInv
  <2> QED
    BY <2>1, <2>3, <2>4, <2>5 DEF GateInv
<1>8. ASSUME NEW t \in Msgs, EndTask(t) \/ CancelCleanup(t) PROVE GateInv'
  <2>1. /\ at[t] \in {"drain", "abort"} /\ at'[t] \in {"done", "stopped"} /\ Others(t)
        /\ GateMax > 0 => permits' = permits + 1
    <3>1. GateMax > 0 => permits' = permits + 1
      BY <1>8 DEF EndTask, CancelCleanup, Exit
    <3>2. CASE EndTask(t)
      BY <3>1, <3>2 DEF EndTask, Running, TypeOK, Others
    <3> QED
      BY <1>8, <3>1, <3>2, TurnMoves
  <2>2. Serving' = Serving \ {t} /\ t \in Serving
    BY <2>1 DEF Serving, Others, Inside
  <2>3. SUFFICES ASSUME GateMax > 0
                 PROVE  IsFiniteSet(Serving') /\ permits' + Cardinality(Serving') = GateMax
    BY DEF GateInv
  <2>4. IsFiniteSet(Serving') /\ Cardinality(Serving') = Cardinality(Serving) - 1
    BY <2>2, <2>3, FS_RemoveElement DEF GateInv
  <2>5. permits \in Nat /\ Cardinality(Serving) \in Nat
    BY <2>3, FS_CardinalityType DEF TypeOK, GateInv
  <2> QED
    BY <2>1, <2>3, <2>4, <2>5 DEF GateInv
<1>9. ASSUME NEW t \in Msgs,
             CancelWaiting(t) \/ CancelToLeave(t) \/ EndWaiting(t) \/ CancelLeaving(t)
      PROVE  GateInv'
  <2>1. permits' = permits /\ at[t] \notin Inside /\ at'[t] \notin Inside
        /\ \A u \in Msgs \ {t} : at'[u] = at[u]
    BY <1>9 DEF CancelWaiting, CancelToLeave, EndWaiting, CancelLeaving, Drop, Running,
       TypeOK, Inside, Turning
  <2> QED
    BY <1>0, <2>1
<1> QED
  BY <1>1, <1>2, <1>3, <1>4, <1>5, <1>6, <1>7, <1>8, <1>9
     DEF Next, RunLoop, TaskStep, TurnEnds, AllSettled
-----------------------------------------------------------------------------
ServiceInv == KeeperInv /\ CancelInv /\ DropInv /\ GateInv

LEMMA ServiceInvariant == Spec => []ServiceInv
<1>1. Init => ServiceInv
  <2>1. Init => KeeperInv
    BY DispatchAssumption DEF Init, KeeperInv, Elems
  <2>2. Init => CancelInv
    BY DEF Init, CancelInv, Idle, Live, TaskSteps
  <2>3. Init => DropInv
    BY DEF Init, DropInv, Idle
  <2>4. Init => GateInv
    <3> SUFFICES ASSUME Init PROVE GateInv
      OBVIOUS
    <3>1. Serving = {}
      BY DEF Init, Serving, Inside
    <3> QED
      BY <3>1, FS_EmptySet, DispatchAssumption DEF Init, GateInv, DispatchAssumption
  <2> QED
    BY <2>1, <2>2, <2>3, <2>4 DEF ServiceInv
<1>2. TypeOK /\ TypeOK' /\ PlaceInv /\ SessionSerial /\ ServiceInv /\ [Next]_vars => ServiceInv'
  BY KeeperInvInductive, CancelInvInductive, DropInvInductive, GateInvInductive
     DEF ServiceInv
<1> QED
  BY <1>1, <1>2, TypeCorrect, PlacesInvariant, SessionSerialHolds, PTL DEF Spec

\* A turn that closes its queue and a reset leave nothing behind.
THEOREM NothingStrandedHolds == Spec => []NothingStranded
<1>1. TypeOK /\ PlaceInv /\ ServiceInv => NothingStranded
  <2> SUFFICES ASSUME TypeOK, PlaceInv, ServiceInv PROVE NothingStranded
    OBVIOUS
  <2>1. PendingHasKeeper
    <3>1. ASSUME NEW m \in Msgs, at[m] = "pending"
          PROVE  \E t \in Msgs : /\ m \in Elems(queue[t]) /\ at[t] \in Inside
                                 /\ SessionOf[t] = SessionOf[m]
      <4>1. PICK t \in Msgs : m \in Elems(queue[t])
        BY <3>1 DEF PlaceInv, OnePlace
      <4> QED
        BY <4>1 DEF ServiceInv, KeeperInv
    <3> QED
      BY <3>1 DEF PendingHasKeeper, ServiceInv, KeeperInv
  <2>2. StopLeavesNothing
    BY DEF StopLeavesNothing, ServiceInv, CancelInv, Told, Awaited
  <2> QED
    BY <2>1, <2>2 DEF NothingStranded
<1> QED
  BY <1>1, ServiceInvariant, TypeCorrect, PlacesInvariant, PTL

\* Only a session the user stopped or reset loses messages.
THEOREM DroppedOnRequestHolds == Spec => []DroppedOnRequest
<1>1. ServiceInv => DroppedOnRequest
  BY DEF ServiceInv, DropInv, Requested, DroppedOnRequest
<1> QED
  BY <1>1, ServiceInvariant, PTL

\* Where nobody resets the session, /stop leaves no task of it running.
NoResets == \A m \in Msgs : Kind[m] # "new"

THEOREM StopCancelsAllHolds == NoResets => (Spec => []StopCancelsAll)
<1>1. NoResets /\ ServiceInv => StopCancelsAll
  <2> SUFFICES ASSUME NoResets, ServiceInv, server.step = "reply", Kind[server.msg] # "query",
                      NEW t \in Peers(SessionOf[server.msg])
               PROVE  ~Live(t)
    BY DEF StopCancelsAll
  <2>1. \A u : ~Awaited(u)
    BY DEF ServiceInv, CancelInv, NoResets, Awaited
  <2>2. server.waits = {} /\ cancelling = {}
    BY <2>1 DEF ServiceInv, CancelInv
  <2> QED
    BY <2>1, <2>2 DEF ServiceInv, CancelInv, NoResets, Peers, Told
<1>2. CASE NoResets
  <2>1. ServiceInv => StopCancelsAll
    BY <1>1, <1>2
  <2> QED
    BY <2>1, ServiceInvariant, PTL
<1> QED
  BY <1>2

-----------------------------------------------------------------------------
(***************************************************************************)
(* The dispatcher implements SessionService.                               *)
(***************************************************************************)
\* The phase of a place, and the places of a phase.
LEMMA PhaseFacts ==
    /\ Phase("unsent") = "unsent" /\ Phase("taken") = "absorbed" /\ Phase("done") = "settled"
    /\ \A p \in Inside : Phase(p) = "serving"
    /\ \A p \in {"failed", "stopped", "lost"} : Phase(p) = "discarded"
    /\ \A p \in {"inbound", "serving", "pending", "new", "lock", "gate", "leave"} :
           Phase(p) = "waiting"
  BY DEF Phase, Inside, Turning

LEMMA PhasePlaces ==
    ASSUME NEW p \in Places
    PROVE  /\ Phase(p) = "serving" => p \in Inside
           /\ Phase(p) = "absorbed" => p = "taken"
  BY PhaseFacts DEF Places, TaskSteps, Inside, Turning

phase == [m \in Msgs |-> Phase(at[m])]

LEMMA Stutters ==
    ASSUME \A u \in Msgs : Phase(at'[u]) = Phase(at[u]) PROVE phase' = phase
  BY DEF phase

LEMMA Submits ==
    ASSUME NEW m \in Msgs, Phase(at[m]) = "unsent", Phase(at'[m]) = "waiting",
           \A u \in Msgs \ {m} : Phase(at'[u]) = Phase(at[u])
    PROVE  Service!Next
  BY DEF Service!Next, Service!Submit

LEMMA Dismisses ==
    ASSUME NEW m \in Msgs, NEW fate \in {"settled", "discarded"},
           Phase(at[m]) = "waiting", Phase(at'[m]) = fate,
           \A u \in Msgs \ {m} : Phase(at'[u]) = Phase(at[u])
    PROVE  Service!Next
<1>1. Service!Dismiss(m, fate)
  BY DEF Service!Dismiss
<1> QED
  BY <1>1 DEF Service!Next, Service!Over

\* SessionService counts with the same Cardinality.
LEMMA SameCardinality == \A S : Service!Cardinality(S) = Cardinality(S)
  BY DEF Cardinality, Service!Cardinality, IsFiniteSet, Service!IsFiniteSet

LEMMA Serves ==
    ASSUME TypeOK, NEW m \in Msgs, Phase(at[m]) = "waiting", Phase(at'[m]) = "serving",
           \A u \in Msgs \ {m} : Phase(at'[u]) = Phase(at[u]),
           \A u \in Peers(SessionOf[m]) : at[u] \notin Inside,
           GateMax > 0 => Cardinality(Serving) < GateMax
    PROVE  Service!Next
<1>1. Service!InPhase("serving") = Serving
  BY PhaseFacts, PhasePlaces DEF Service!InPhase, Serving, TypeOK
<1>2. Service!Peers(SessionOf[m]) \cap Service!InPhase("serving") = {}
  BY <1>1 DEF Service!Peers, Peers, Serving
<1>3. GateMax > 0 => Service!Cardinality(Service!InPhase("serving")) < GateMax
  BY <1>1, SameCardinality
<1>4. Service!Serve(m)
  BY <1>2, <1>3 DEF Service!Serve
<1> QED
  BY <1>4 DEF Service!Next

LEMMA Absorbs ==
    ASSUME NEW m \in Msgs, NEW got \in SUBSET Msgs, Phase(at[m]) = "serving",
           \A u \in got : SessionOf[u] = SessionOf[m] /\ Phase(at[u]) = "waiting",
           \A u \in Msgs : Phase(at'[u]) = IF u \in got THEN "absorbed" ELSE Phase(at[u])
    PROVE  Service!Next
<1>1. Service!Absorb(m, got)
  BY DEF Service!Absorb, Service!Peers, Service!InPhase
<1>2. got \in SUBSET Service!InPhase("waiting")
  BY DEF Service!InPhase
<1> QED
  BY <1>1, <1>2 DEF Service!Next

LEMMA Concludes ==
    ASSUME NEW m \in Msgs, NEW fate \in {"settled", "discarded"}, Phase(at[m]) = "serving",
           \A u \in Msgs : Phase(at'[u]) =
               IF SessionOf[u] = SessionOf[m] /\ Phase(at[u]) = "absorbed"
                 THEN fate ELSE Phase(at[u])
    PROVE  Service!Next
<1>1. Service!Conclude(m, fate)
  BY DEF Service!Conclude, Service!Peers
<1> QED
  BY <1>1 DEF Service!Next, Service!Over

LEMMA Releases ==
    ASSUME NEW m \in Msgs, NEW fate \in {"settled", "discarded"}, NEW given \in SUBSET Msgs,
           Phase(at[m]) = "serving",
           \A u \in given : SessionOf[u] = SessionOf[m] /\ Phase(at[u]) = "waiting",
           \A u \in Msgs : SessionOf[u] = SessionOf[m] => Phase(at[u]) # "absorbed",
           \A u \in Msgs : Phase(at'[u]) = IF u = m THEN fate
                                           ELSE IF u \in given THEN "discarded"
                                           ELSE Phase(at[u])
    PROVE  Service!Next
<1>1. Service!Release(m, fate, given)
  BY DEF Service!Release, Service!Peers, Service!InPhase
<1>2. given \in SUBSET Service!InPhase("waiting")
  BY DEF Service!InPhase
<1> QED
  BY <1>1, <1>2 DEF Service!Next, Service!Over

\* The follow-ups absorbed in a session are those of the one turn it is serving.
LEMMA AbsorbedByTurn ==
    ASSUME TypeOK, PlaceInv, KeeperInv, SessionSerial, NEW t \in Msgs, at[t] \in Inside,
           NEW u \in Msgs
    PROVE  SessionOf[u] = SessionOf[t] /\ Phase(at[u]) = "absorbed" <=> u \in taken[t]
<1>1. ASSUME SessionOf[u] = SessionOf[t], Phase(at[u]) = "absorbed" PROVE u \in taken[t]
  <2>1. at[u] = "taken"
    BY <1>1, PhasePlaces DEF TypeOK
  <2>2. PICK v \in Msgs : u \in taken[v]
    BY <2>1 DEF PlaceInv, OnePlace
  <2>3. at[v] = "run" /\ SessionOf[v] = SessionOf[t]
    BY <1>1, <2>2 DEF KeeperInv
  <2> QED
    BY <2>2, <2>3 DEF SessionSerial, Holding, Inside
<1>2. ASSUME u \in taken[t] PROVE SessionOf[u] = SessionOf[t] /\ Phase(at[u]) = "absorbed"
  BY <1>2, PhaseFacts DEF KeeperInv, PlaceInv, OnePlace
<1> QED
  BY <1>1, <1>2

LEMMA StepImplements ==
    ASSUME TypeOK, TypeOK', PlaceInv, SessionSerial, KeeperInv, GateInv, [Next]_vars
    PROVE  Service!Next \/ phase' = phase
<1> USE DispatchAssumption
<1> HIDE DEF Phase
<1>1. ASSUME NEW m \in Msgs, PublishInbound(m) PROVE Service!Next
  <2>1. at[m] = "unsent" /\ at'[m] = "inbound" /\ \A u \in Msgs \ {m} : at'[u] = at[u]
    BY <1>1 DEF PublishInbound, TypeOK
  <2> QED
    BY <2>1, PhaseFacts, Submits
<1>2. ASSUME NEW m \in Msgs, ServeCommand(m) \/ EnqueuePending(m) \/ SpawnTask(m)
      PROVE  phase' = phase
  <2>1. at[m] = "inbound" /\ at'[m] \in {"serving", "pending", "new"}
        /\ \A u \in Msgs \ {m} : at'[u] = at[u]
    BY <1>2, NextInboundMoves DEF ServeCommand, EnqueuePending, SpawnTask, TypeOK, PlaceInv
  <2> QED
    BY <2>1, PhaseFacts, Stutters
<1>3. CASE ConsumeOutbound \/ CancelDone \/ UNCHANGED vars
  BY <1>3, Stutters DEF ConsumeOutbound, CancelDone, vars
<1>4. ASSUME NEW t \in Msgs, CancelTimeout(t) \/ ClearTimeout(t) PROVE phase' = phase
  BY <1>4, Stutters DEF CancelTimeout, ClearTimeout, GiveUp
<1>5. CASE CommandReply
  <2>1. \A u \in Msgs : at'[u] = IF u = server.msg THEN "done" ELSE at[u]
    BY <1>5 DEF CommandReply, TypeOK
  <2>2. CASE server.msg \in Msgs
    <3>1. at[server.msg] = "serving"
      BY <2>2 DEF PlaceInv, OnePlace
    <3> QED
      BY <2>1, <2>2, <3>1, PhaseFacts, Dismisses
  <2>3. CASE server.msg \notin Msgs
    BY <2>1, <2>3, Stutters
  <2> QED
    BY <2>2, <2>3
<1>6. ASSUME NEW t \in Msgs, StartTask(t) \/ AcquireLock(t) PROVE phase' = phase
  <2>1. at[t] \in {"new", "lock"} /\ at'[t] \in {"lock", "gate"}
        /\ \A u \in Msgs \ {t} : at'[u] = at[u]
    BY <1>6 DEF StartTask, AcquireLock, Running, TypeOK
  <2> QED
    BY <2>1, PhaseFacts, Stutters
\* The lock keeps the session's other turns out, the permits the rest.
<1>7. ASSUME NEW t \in Msgs, AcquireGate(t) PROVE Service!Next
  <2>1. /\ at[t] = "gate" /\ at'[t] = "run" /\ \A u \in Msgs \ {t} : at'[u] = at[u]
        /\ GateMax > 0 => permits > 0
    BY <1>7 DEF AcquireGate, Running, TypeOK
  <2>2. \A u \in Peers(SessionOf[t]) : at[u] \notin Inside
    BY <2>1 DEF SessionSerial, Peers, Holding, Inside
  <2>3. GateMax > 0 => Cardinality(Serving) < GateMax
    BY <2>1, FS_CardinalityType DEF GateInv, TypeOK
  <2>4. Phase(at[t]) = "waiting" /\ Phase(at'[t]) = "serving"
    BY <2>1, PhaseFacts DEF Inside
  <2> QED
    BY <2>1, <2>2, <2>3, <2>4, Serves
<1>8. ASSUME NEW t \in Msgs, Inject(t) PROVE Service!Next
  <2> DEFINE n == IF Len(queue[t]) < DrainMax THEN Len(queue[t]) ELSE DrainMax
             got == Elems(First(n, queue[t]))
  <2>1. n \in Nat /\ n <= Len(queue[t]) /\ queue[t] \in Seq(Msgs) /\ NoRepeat(queue[t])
    BY DEF DispatchAssumption, TypeOK, PlaceInv, OnePlace
  <2>2. got \subseteq Elems(queue[t])
    BY <2>1, ElemsCut
  <2>3. at[t] = "run" /\ \A u \in Msgs : at'[u] = IF u \in got THEN "taken" ELSE at[u]
    BY <1>8 DEF Inject, Running
  <2> HIDE DEF n, got
  <2>4. \A u \in got : u \in Msgs /\ at[u] = "pending" /\ SessionOf[u] = SessionOf[t]
    BY <2>2, QueuedAreNoTasks DEF PlaceInv, KeeperInv
  <2>5. Phase(at[t]) = "serving" /\ got \in SUBSET Msgs
    BY <2>3, <2>4, PhaseFacts DEF Inside
  <2> QED
    BY <2>3, <2>4, <2>5, PhaseFacts, Absorbs
<1>9. ASSUME NEW t \in Msgs, FinishTurn(t) \/ FailTurn(t) PROVE Service!Next
  <2>1. PICK end \in {"done", "failed"}, step \in {"reply", "close"} :
            \A u \in Msgs : at'[u] = IF u = t THEN step
                                     ELSE IF u \in taken[t] THEN end ELSE at[u]
    BY <1>9 DEF FinishTurn, FailTurn, Settle
  <2>2. at[t] = "run" /\ t \notin taken[t]
    BY <1>9, QueuedAreNoTasks DEF FinishTurn, FailTurn, Running, PlaceInv
  <2>3. Phase(end) \in {"settled", "discarded"} /\ Phase(at[t]) = "serving"
        /\ Phase(step) = "serving"
    BY <2>2, PhaseFacts DEF Inside
  <2>4. \A u \in Msgs : Phase(at'[u]) =
            IF SessionOf[u] = SessionOf[t] /\ Phase(at[u]) = "absorbed"
              THEN Phase(end) ELSE Phase(at[u])
    BY <2>1, <2>2, <2>3, AbsorbedByTurn DEF Inside
  <2> QED
    BY <2>3, <2>4, Concludes
<1>10. ASSUME NEW t \in Msgs, ClearSession(t) \/ SessionCleared(t) PROVE phase' = phase
  <2>1. at[t] \in Inside /\ at'[t] \in Inside /\ \A u \in Msgs \ {t} : at'[u] = at[u]
    BY <1>10 DEF ClearSession, SessionCleared, Running, TypeOK, Inside
  <2> QED
    BY <2>1, PhaseFacts, Stutters
<1>11. ASSUME NEW t \in Msgs,
              PublishReply(t) \/ SkipReply(t) \/ PublishClose(t) \/ RepublishLeftover(t)
       PROVE  phase' = phase
  <2>1. at[t] \in Inside /\ at'[t] \in Inside
    BY <1>11, TurnMoves DEF Inside, Turning
  <2>2. CASE CleanUp(t) \/ RepublishLeftover(t)
    <3>1. /\ Republish(t)
          /\ \A u \in Msgs \ {t} : at'[u] = IF u \in Returned(t) THEN "inbound" ELSE at[u]
      BY <2>2 DEF CleanUp, RepublishLeftover
    <3>2. \A u \in Returned(t) : at[u] = "pending"
      BY <3>1, RepublishFrame
    <3> QED
      BY <2>1, <3>1, <3>2, PhaseFacts, Stutters
  <2>3. CASE at' = [at EXCEPT ![t] = "close"]
    <3>1. \A u \in Msgs \ {t} : at'[u] = at[u]
      BY <2>3 DEF TypeOK
    <3> QED
      BY <2>1, <3>1, PhaseFacts, Stutters
  <2> QED
    BY <1>11, <2>2, <2>3 DEF PublishReply, SkipReply, PublishClose, AfterReply
\* A turn at its end has no follow-ups left: they were concluded with it.
<1>12. ASSUME NEW t \in Msgs, EndTask(t) PROVE Service!Next
  <2>1. /\ at[t] \in {"drain", "abort"} /\ at'[t] \in {"stopped", "done"}
        /\ \A u \in Msgs \ {t} : at'[u] = at[u]
    BY <1>12 DEF EndTask, Running, TypeOK
  <2>2. taken[t] = {} /\ at[t] \in Inside
    BY <2>1 DEF KeeperInv, Inside
  <2>3. \A u \in Msgs : SessionOf[u] = SessionOf[t] => Phase(at[u]) # "absorbed"
    BY <2>2, AbsorbedByTurn
  <2>4. Phase(at'[t]) \in {"settled", "discarded"} /\ Phase(at[t]) = "serving"
    BY <2>1, <2>2, PhaseFacts
  <2> DEFINE given == {}
  <2>5. \A u \in Msgs : Phase(at'[u]) = IF u = t THEN Phase(at'[t])
                                        ELSE IF u \in given THEN "discarded" ELSE Phase(at[u])
    BY <2>1
  <2>6. \A u \in given : SessionOf[u] = SessionOf[t] /\ Phase(at[u]) = "waiting"
    OBVIOUS
  <2>7. given \in SUBSET Msgs
    OBVIOUS
  <2> HIDE DEF given
  <2> QED
    BY <2>3, <2>4, <2>5, <2>6, <2>7, Releases
<1>13. ASSUME NEW t \in Msgs, CancelWaiting(t) \/ EndWaiting(t) \/ CancelLeaving(t)
       PROVE  Service!Next
  <2>1. at[t] \in {"new", "lock", "gate", "leave"} /\ at'[t] = "stopped"
        /\ \A u \in Msgs \ {t} : at'[u] = at[u]
    BY <1>13 DEF CancelWaiting, EndWaiting, CancelLeaving, Drop, Running, TypeOK
  <2> QED
    BY <2>1, PhaseFacts, Dismisses
<1>16. ASSUME NEW t \in Msgs, CancelToLeave(t) PROVE phase' = phase
  <2>1. at[t] \in {"lock", "gate"} /\ at'[t] = "leave"
        /\ \A u \in Msgs \ {t} : at'[u] = at[u]
    BY <1>16 DEF CancelToLeave, TypeOK
  <2> QED
    BY <2>1, PhaseFacts, Stutters
<1>14. ASSUME NEW t \in Msgs, CancelTurn(t) PROVE Service!Next
  <2>1. /\ Republish(t) /\ at[t] \in Turning
        /\ \A u \in Msgs : at'[u] = IF u \in Returned(t) THEN "inbound"
                                    ELSE IF u = t THEN "abort"
                                    ELSE IF u \in taken[t] THEN "stopped" ELSE at[u]
    BY <1>14 DEF CancelTurn, Settle, Turning
  <2>2. \A u \in Returned(t) : at[u] = "pending"
    BY <2>1, RepublishFrame
  <2>3. \A u \in taken[t] : u \in Msgs /\ at[u] = "taken"
    BY QueuedAreNoTasks DEF PlaceInv
  <2>4. at[t] \in Inside /\ Phase(at[t]) = "serving" /\ Phase("abort") = "serving"
        /\ Phase("stopped") = "discarded"
    BY <2>1, PhaseFacts DEF Inside, Turning
  <2>5. \A u \in Msgs : Phase(at'[u]) =
            IF SessionOf[u] = SessionOf[t] /\ Phase(at[u]) = "absorbed"
              THEN "discarded" ELSE Phase(at[u])
    BY <2>1, <2>2, <2>3, <2>4, AbsorbedByTurn, PhaseFacts
  <2> QED
    BY <2>4, <2>5, Concludes
<1>15. ASSUME NEW t \in Msgs, CancelCleanup(t) PROVE Service!Next
  <2> DEFINE given == Elems(queue[t])
  <2>1. /\ at[t] \in {"drain", "abort"} /\ at'[t] \in {"stopped", "done"}
        /\ \A u \in Msgs \ {t} : at'[u] = IF u \in given THEN "lost" ELSE at[u]
    BY <1>15 DEF CancelCleanup
  <2>2. taken[t] = {} /\ at[t] \in Inside
    BY <2>1 DEF KeeperInv, Inside
  <2>3. \A u \in Msgs : SessionOf[u] = SessionOf[t] => Phase(at[u]) # "absorbed"
    BY <2>2, AbsorbedByTurn
  <2>4. Phase(at'[t]) \in {"settled", "discarded"} /\ Phase(at[t]) = "serving"
    BY <2>1, <2>2, PhaseFacts
  <2>5. \A u \in given : u \in Msgs /\ SessionOf[u] = SessionOf[t] /\ Phase(at[u]) = "waiting"
    BY QueuedAreNoTasks, PhaseFacts DEF PlaceInv, KeeperInv
  <2> HIDE DEF given
  <2>6. \A u \in Msgs : Phase(at'[u]) = IF u = t THEN Phase(at'[t])
                                        ELSE IF u \in given THEN "discarded" ELSE Phase(at[u])
    BY <2>1, PhaseFacts
  <2> QED
    BY <2>3, <2>4, <2>5, <2>6, Releases
<1> QED
  BY <1>1, <1>2, <1>3, <1>4, <1>5, <1>6, <1>7, <1>8, <1>9, <1>10, <1>11, <1>12,
     <1>13, <1>14, <1>15, <1>16 DEF Next, RunLoop, TaskStep, TurnEnds, AllSettled

\* The dispatcher serves each message at most once, one of a session at a time
\* and at most GateMax in all; follow-ups share the fate of their turn.
THEOREM ServiceImplemented == Spec => ServiceSpec
<1>1. Init => Service!Init
  BY PhaseFacts DEF Init, Service!Init
<1>2. TypeOK /\ TypeOK' /\ PlaceInv /\ SessionSerial /\ ServiceInv /\ [Next]_vars
      => [Service!Next]_phase
  BY StepImplements DEF ServiceInv
<1> QED
  BY <1>1, <1>2, TypeCorrect, PlacesInvariant, SessionSerialHolds, ServiceInvariant,
     PTL DEF Spec, ServiceSpec, Service!Spec, phase
=============================================================================
