-------------------------- MODULE BackgroundProofs --------------------------
(***************************************************************************)
(* Theorems about the work that no message of a user starts: the           *)
(* sub-agents of a session (Subagents) and the jobs of the cron service    *)
(* (Cron).  The two parts of the module are about one component each.      *)
(***************************************************************************)
EXTENDS Subagents, Cron, FiniteSetTheorems, WellFoundedInduction, TLAPS

-----------------------------------------------------------------------------
(***************************************************************************)
(* SUB-AGENTS.  For every set of children, messages and /stop commands and *)
(* every size of the two queues: a spawned child finds a permit, every     *)
(* message is in one place, a turn that waits has something to wait for,   *)
(* and /stop leaves nothing at work.                                       *)
(***************************************************************************)

-----------------------------------------------------------------------------
(***************************************************************************)
(* Sequences.                                                              *)
(***************************************************************************)
\* Min of two numbers is one of them and no more than either.
LEMMA MinOfTwo ==
    ASSUME NEW a \in Nat, NEW b \in Nat
    PROVE  Min({a, b}) \in {a, b} /\ Min({a, b}) <= a /\ Min({a, b}) <= b
<1>1. \E x \in {a, b} : \A y \in {a, b} : x <= y
  <2>1. a <= b \/ b <= a
    OBVIOUS
  <2> QED
    BY <2>1
<1>2. Min({a, b}) \in {a, b} /\ \A y \in {a, b} : Min({a, b}) <= y
  BY <1>1 DEF Min
<1> QED
  BY <1>2

\* An item is at most once in s.
Once(s) ==
    \A k, l \in 1 .. Len(s) : s[k] = s[l] /\ s[k] \in Items => k = l

\* The items of s.
In(s) == ToSet(s) \cap Items

LEMMA InElement ==
    ASSUME NEW S, NEW s \in Seq(S), NEW x
    PROVE  /\ x \in In(s) <=> x \in Items /\ \E k \in 1 .. Len(s) : s[k] = x
  BY DEF In, ToSet

LEMMA InEmpty ==
    ASSUME NEW s, s = <<>>
    PROVE  In(s) = {} /\ Once(s)
  BY DEF In, ToSet, Once

\* A message more.
LEMMA InAppend ==
    ASSUME NEW S, NEW s \in Seq(S), NEW e \in S
    PROVE  /\ In(Append(s, e)) = In(s) \cup ({e} \cap Items)
           /\ Once(s) /\ e \notin In(s) => Once(Append(s, e))
<1> PICK t : t = Append(s, e)
  OBVIOUS
<1>1. /\ t \in Seq(S) /\ Len(t) = Len(s) + 1
      /\ \A k \in 1 .. Len(s) : t[k] = s[k]
      /\ t[Len(s) + 1] = e
  OBVIOUS
<1>2. Len(s) \in Nat /\ 1 .. Len(t) = (1 .. Len(s)) \cup {Len(s) + 1}
  BY <1>1
<1>3. ASSUME NEW x PROVE x \in In(t) <=> x \in In(s) \cup ({e} \cap Items)
  <2>1. x \in In(t) <=> x \in Items /\ \E k \in 1 .. Len(t) : t[k] = x
    BY <1>1, InElement
  <2>2. x \in In(s) <=> x \in Items /\ \E k \in 1 .. Len(s) : s[k] = x
    BY InElement
  <2> QED
    BY <2>1, <2>2, <1>1, <1>2
<1>4. ASSUME Once(s), e \notin In(s) PROVE Once(t)
  <2> SUFFICES ASSUME NEW k \in 1 .. Len(t), NEW l \in 1 .. Len(t),
                      t[k] = t[l], t[k] \in Items
               PROVE  k = l
    BY DEF Once
  <2>1. CASE k \in 1 .. Len(s) /\ l \in 1 .. Len(s)
    BY <2>1, <1>1, <1>4 DEF Once
  <2>2. ASSUME NEW i \in 1 .. Len(s), t[i] = e, e \in Items PROVE FALSE
    BY <2>2, <1>1, <1>4, InElement
  <2> QED
    BY <2>1, <2>2, <1>1, <1>2
<1> QED
  BY <1>3, <1>4

\* The first message goes.
LEMMA InTail ==
    ASSUME NEW S, NEW s \in Seq(S), s # <<>>
    PROVE  /\ In(s) = In(Tail(s)) \cup ({Head(s)} \cap Items)
           /\ Once(s) => Once(Tail(s)) /\ Head(s) \notin In(Tail(s))
           /\ Head(s) \in S /\ Tail(s) \in Seq(S)
<1> PICK t : t = Tail(s)
  OBVIOUS
<1>1. /\ t \in Seq(S) /\ Len(t) = Len(s) - 1 /\ Len(s) \in Nat /\ Len(s) >= 1
      /\ \A k \in 1 .. Len(t) : t[k] = s[k + 1]
      /\ s[1] = Head(s) /\ Head(s) \in S
  OBVIOUS
<1>0. t \in Seq(S)
  BY <1>1
<1>2. ASSUME NEW x PROVE x \in In(s) <=> x \in In(t) \cup ({Head(s)} \cap Items)
  <2>1. x \in In(t) <=> x \in Items /\ \E k \in 1 .. Len(t) : t[k] = x
    BY <1>0, InElement
  <2>2. x \in In(s) <=> x \in Items /\ \E k \in 1 .. Len(s) : s[k] = x
    BY InElement
  <2>3. ASSUME NEW k \in 1 .. Len(s), s[k] = x, k # 1 PROVE \E j \in 1 .. Len(t) : t[j] = x
    <3>1. k - 1 \in 1 .. Len(t) /\ t[k - 1] = x
      BY <1>1, <2>3
    <3> QED
      BY <3>1
  <2>4. ASSUME NEW k \in 1 .. Len(t), t[k] = x PROVE \E j \in 1 .. Len(s) : s[j] = x
    <3>1. k + 1 \in 1 .. Len(s) /\ s[k + 1] = x
      BY <1>1, <2>4
    <3> QED
      BY <3>1
  <2>5. 1 \in 1 .. Len(s) /\ s[1] = Head(s)
    BY <1>1
  <2> QED
    BY <2>1, <2>2, <2>3, <2>4, <2>5
<1>3. ASSUME Once(s) PROVE Once(t) /\ Head(s) \notin In(t)
  <2>1. Once(t)
    <3> SUFFICES ASSUME NEW k \in 1 .. Len(t), NEW l \in 1 .. Len(t),
                        t[k] = t[l], t[k] \in Items
                 PROVE  k = l
      BY DEF Once
    <3>1. k + 1 \in 1 .. Len(s) /\ l + 1 \in 1 .. Len(s)
      BY <1>1
    <3>2. k + 1 = l + 1
      BY <3>1, <1>1, <1>3 DEF Once
    <3> QED
      BY <3>2
  <2>2. ASSUME Head(s) \in In(t) PROVE FALSE
    <3>1. PICK k \in 1 .. Len(t) : t[k] = Head(s)
      BY <2>2, <1>0, InElement
    <3>2. Head(s) \in Items
      BY <2>2 DEF In
    <3>3. k + 1 \in 1 .. Len(s) /\ 1 \in 1 .. Len(s) /\ s[k + 1] = s[1] /\ s[1] \in Items
      BY <3>1, <3>2, <1>1
    <3>4. k + 1 = 1
      BY <3>3, <1>3 DEF Once
    <3> QED
      BY <3>4
  <2> QED
    BY <2>1, <2>2
<1> QED
  BY <1>1, <1>2, <1>3

\* A sequence is cut after its first n messages.
LEMMA InCut ==
    ASSUME NEW S, NEW s \in Seq(S), NEW n \in 0 .. Len(s)
    PROVE  /\ SubSeq(s, 1, n) \in Seq(S) /\ Len(SubSeq(s, 1, n)) = n
           /\ SubSeq(s, n + 1, Len(s)) \in Seq(S) /\ Len(SubSeq(s, n + 1, Len(s))) = Len(s) - n
           /\ In(s) = In(SubSeq(s, 1, n)) \cup In(SubSeq(s, n + 1, Len(s)))
           /\ Once(s) =>
                /\ Once(SubSeq(s, 1, n)) /\ Once(SubSeq(s, n + 1, Len(s)))
                /\ In(SubSeq(s, 1, n)) \cap In(SubSeq(s, n + 1, Len(s))) = {}
<1> PICK a, b : a = SubSeq(s, 1, n) /\ b = SubSeq(s, n + 1, Len(s))
  OBVIOUS
<1>1. /\ a \in Seq(S) /\ Len(a) = n /\ n \in Nat
      /\ \A k \in 1 .. n : a[k] = s[k]
  OBVIOUS
<1>2. /\ b \in Seq(S) /\ Len(b) = Len(s) - n /\ Len(s) \in Nat
      /\ \A k \in 1 .. Len(s) - n : b[k] = s[k + n]
  OBVIOUS
<1>3. ASSUME NEW x PROVE x \in In(s) <=> x \in In(a) \cup In(b)
  <2>1. x \in In(a) <=> x \in Items /\ \E k \in 1 .. Len(a) : a[k] = x
    BY <1>1, InElement
  <2>2. x \in In(b) <=> x \in Items /\ \E k \in 1 .. Len(b) : b[k] = x
    BY <1>2, InElement
  <2>3. x \in In(s) <=> x \in Items /\ \E k \in 1 .. Len(s) : s[k] = x
    BY InElement
  <2>4. ASSUME NEW k \in 1 .. Len(s), k > n PROVE k - n \in 1 .. Len(b) /\ b[k - n] = s[k]
    BY <1>1, <1>2, <2>4
  <2>5. ASSUME NEW k \in 1 .. Len(b) PROVE k + n \in 1 .. Len(s) /\ b[k] = s[k + n]
    BY <1>1, <1>2
  <2>6. ASSUME NEW k \in 1 .. Len(a) PROVE k \in 1 .. Len(s) /\ a[k] = s[k]
    BY <1>1
  <2>7. ASSUME NEW k \in 1 .. Len(s), k <= n PROVE k \in 1 .. Len(a)
    BY <1>1, <2>7
  <2>8. \A k \in 1 .. Len(s) : k > n \/ k <= n
    BY <1>1
  <2>9. (\E k \in 1 .. Len(s) : s[k] = x)
        <=> (\E k \in 1 .. Len(a) : a[k] = x) \/ \E k \in 1 .. Len(b) : b[k] = x
    <3>1. ASSUME NEW k \in 1 .. Len(s), s[k] = x
          PROVE  (\E j \in 1 .. Len(a) : a[j] = x) \/ \E j \in 1 .. Len(b) : b[j] = x
      <4>1. CASE k > n
        <5>1. k - n \in 1 .. Len(b) /\ b[k - n] = x
          BY <4>1, <3>1, <2>4
        <5> QED
          BY <5>1
      <4>2. CASE k <= n
        BY <4>2, <3>1, <2>6, <2>7
      <4> QED
        BY <4>1, <4>2, <2>8
    <3>2. ASSUME NEW j \in 1 .. Len(a), a[j] = x PROVE \E k \in 1 .. Len(s) : s[k] = x
      BY <3>2, <2>6
    <3>3. ASSUME NEW j \in 1 .. Len(b), b[j] = x PROVE \E k \in 1 .. Len(s) : s[k] = x
      <4>1. j + n \in 1 .. Len(s) /\ s[j + n] = x
        BY <3>3, <2>5
      <4> QED
        BY <4>1
    <3> QED
      BY <3>1, <3>2, <3>3
  <2> QED
    BY <2>1, <2>2, <2>3, <2>9
<1>4. ASSUME Once(s) PROVE Once(a) /\ Once(b) /\ In(a) \cap In(b) = {}
  <2>1. Once(a)
    BY <1>1, <1>4 DEF Once
  <2>2. Once(b)
    <3> SUFFICES ASSUME NEW k \in 1 .. Len(b), NEW l \in 1 .. Len(b),
                        b[k] = b[l], b[k] \in Items
                 PROVE  k = l
      BY DEF Once
    <3>1. k + n \in 1 .. Len(s) /\ l + n \in 1 .. Len(s)
      BY <1>2, <1>1
    <3>2. k + n = l + n
      BY <3>1, <1>2, <1>4 DEF Once
    <3> QED
      BY <3>2, <1>1, <1>2
  <2>3. ASSUME NEW x \in In(a), x \in In(b) PROVE FALSE
    <3>1. x \in Items /\ \E k \in 1 .. Len(a) : a[k] = x
      BY <1>1, InElement
    <3>2. \E l \in 1 .. Len(b) : b[l] = x
      BY <1>2, <2>3, InElement
    <3>3. PICK k \in 1 .. n : s[k] = x
      BY <3>1, <1>1
    <3>4. PICK l \in 1 .. Len(b) : b[l] = x
      BY <3>2
    <3>5. k \in 1 .. Len(s) /\ l + n \in 1 .. Len(s) /\ s[l + n] = x
      BY <3>4, <1>1, <1>2
    <3>6. k = l + n
      BY <3>1, <3>3, <3>5, <1>4 DEF Once
    <3> QED
      BY <3>6, <1>1, <1>2
  <2> QED
    BY <2>1, <2>2, <2>3
<1> QED
  BY <1>1, <1>2, <1>3, <1>4

\* One sequence after another.
Joined(s, a, b) == s = a \o b

LEMMA InConcat ==
    ASSUME NEW S, NEW a \in Seq(S), NEW b \in Seq(S), NEW s, Joined(s, a, b)
    PROVE  /\ s \in Seq(S) /\ Len(s) = Len(a) + Len(b)
           /\ In(s) = In(a) \cup In(b)
           /\ Once(a) /\ Once(b) /\ In(a) \cap In(b) = {} => Once(s)
<1>1. /\ s \in Seq(S) /\ Len(s) = Len(a) + Len(b) /\ Len(a) \in Nat /\ Len(b) \in Nat
      /\ \A k \in 1 .. Len(s) : s[k] = IF k <= Len(a) THEN a[k] ELSE b[k - Len(a)]
  BY DEF Joined
<1>2. ASSUME NEW k \in 1 .. Len(a) PROVE k \in 1 .. Len(s) /\ s[k] = a[k]
  BY <1>1
<1>3. ASSUME NEW k \in 1 .. Len(b) PROVE k + Len(a) \in 1 .. Len(s) /\ s[k + Len(a)] = b[k]
  <2>1. PICK l : l = k + Len(a)
    OBVIOUS
  <2>2. l \in 1 .. Len(s) /\ ~(l <= Len(a)) /\ l - Len(a) = k
    BY <2>1, <1>1
  <2>3. s[l] = b[l - Len(a)]
    BY <2>2, <1>1
  <2> QED
    BY <2>1, <2>2, <2>3
<1>4. ASSUME NEW k \in 1 .. Len(s)
      PROVE  \/ k \in 1 .. Len(a) /\ s[k] = a[k]
             \/ k - Len(a) \in 1 .. Len(b) /\ s[k] = b[k - Len(a)]
  BY <1>1
<1>5. ASSUME NEW x PROVE x \in In(s) <=> x \in In(a) \cup In(b)
  <2>1. x \in In(a) <=> x \in Items /\ \E k \in 1 .. Len(a) : a[k] = x
    BY InElement
  <2>2. x \in In(b) <=> x \in Items /\ \E k \in 1 .. Len(b) : b[k] = x
    BY InElement
  <2>3. x \in In(s) <=> x \in Items /\ \E k \in 1 .. Len(s) : s[k] = x
    BY <1>1, InElement
  <2> QED
    BY <2>1, <2>2, <2>3, <1>2, <1>3, <1>4
<1>6. ASSUME Once(a), Once(b), In(a) \cap In(b) = {} PROVE Once(s)
  <2> SUFFICES ASSUME NEW k \in 1 .. Len(s), NEW l \in 1 .. Len(s),
                      s[k] = s[l], s[k] \in Items
               PROVE  k = l
    BY DEF Once
  <2>1. ASSUME NEW i \in 1 .. Len(a), NEW j \in 1 .. Len(b), a[i] = b[j], a[i] \in Items
        PROVE  FALSE
    <3>1. a[i] \in In(a) /\ a[i] \in In(b)
      BY <2>1, InElement
    <3> QED
      BY <3>1, <1>6
  <2>2. CASE k \in 1 .. Len(a) /\ l \in 1 .. Len(a) /\ s[k] = a[k] /\ s[l] = a[l]
    BY <2>2, <1>6 DEF Once
  <2>3. CASE /\ k - Len(a) \in 1 .. Len(b) /\ l - Len(a) \in 1 .. Len(b)
             /\ s[k] = b[k - Len(a)] /\ s[l] = b[l - Len(a)]
    <3>1. k - Len(a) = l - Len(a)
      BY <2>3, <1>6 DEF Once
    <3> QED
      BY <3>1, <1>1
  <2> QED
    BY <2>1, <2>2, <2>3, <1>4
<1> QED
  BY <1>1, <1>5, <1>6
-----------------------------------------------------------------------------
(***************************************************************************)
(* Types and phases.                                                       *)
(***************************************************************************)
Turns == [step : TurnSteps, of : Items \cup {NoItem}, cycles : 0 .. MaxCycles,
          then : {"work", "close"}, stopped : BOOLEAN]

\* A turn waits for a message before its last cycle only.
Below == turn.step = "wait" => turn.cycles # MaxCycles

LEMMA NoTurnType == NoTurn \in Turns /\ NoTurn.step = "idle" /\ ~NoTurn.stopped
  BY SubagentsAssumption DEF NoTurn, Turns, TurnSteps, SubagentsAssumption

\* A step of the turn changes the step it is at.
LEMMA TurnMoves ==
    ASSUME NEW t \in Turns, NEW s \in TurnSteps
    PROVE  [t EXCEPT !.step = s] \in Turns /\ [t EXCEPT !.step = s].step = s
  BY DEF Turns

\* The turn takes the first n messages of its queue.
LEMMA TookTypes ==
    ASSUME NEW n \in 0 .. Len(pending), Took(n), turn \in Turns,
           pending \in Seq(Items), Len(pending) <= PendingMax, told \subseteq Items,
           n > 0 => turn.cycles # MaxCycles
    PROVE  /\ turn' \in Turns /\ turn'.step \in {"work", "close"}
           /\ pending' \in Seq(Items) /\ Len(pending') <= PendingMax /\ told' \subseteq Items
<1>0. MaxCycles \in Nat /\ PendingMax \in Nat /\ Len(pending) \in Nat
  BY SubagentsAssumption DEF SubagentsAssumption
<1>1. turn' \in Turns /\ turn'.step \in {"work", "close"}
  <2>1. turn.then \in {"work", "close"} /\ {"work", "close"} \subseteq TurnSteps
    BY DEF Turns, TurnSteps
  <2>2. CASE n > 0
    <3>1. turn.cycles + 1 \in 0 .. MaxCycles
      BY <2>2, <1>0 DEF Turns
    <3>2. turn' = [turn EXCEPT !.step = "work", !.cycles = turn.cycles + 1]
      BY <2>2 DEF Took, Turns
    <3> QED
      BY <3>1, <3>2, <2>1 DEF Turns
  <2>3. CASE ~(n > 0)
    <3>1. turn' = [turn EXCEPT !.step = turn.then]
      BY <2>3 DEF Took, Turns
    <3> QED
      BY <3>1, <2>1 DEF Turns
  <2> QED
    BY <2>2, <2>3
<1>2. pending' \in Seq(Items) /\ Len(pending') = Len(pending) - n
  BY InCut DEF Took
<1>3. told' \subseteq Items
  BY DEF Took
<1> QED
  BY <1>0, <1>1, <1>2, <1>3

\* How many messages a drain takes.
LEMMA TakesSome ==
    ASSUME pending \in Seq(Items)
    PROVE  /\ Min({Len(pending), DrainMax}) \in 0 .. Len(pending)
           /\ pending # <<>> => Min({Len(pending), DrainMax}) > 0
<1>1. DrainMax \in Nat /\ DrainMax > 0 /\ Len(pending) \in Nat
  BY SubagentsAssumption DEF SubagentsAssumption
<1>2. pending # <<>> => Len(pending) > 0
  OBVIOUS
<1> QED
  BY <1>1, <1>2, MinOfTwo

\* What fits of q goes back to the bus.
LEMMA GiveBackTypes ==
    ASSUME NEW q \in Seq(Items), GiveBack(q), Len(q) <= PendingMax, turn \in Turns,
           inbound \in Seq(Items \cup Stops), Len(inbound) <= InboundMax
    PROVE  /\ inbound' \in Seq(Items \cup Stops) /\ Len(inbound') <= InboundMax
           /\ pending' \in Seq(Items) /\ Len(pending') <= PendingMax
           /\ turn' \in Turns /\ turn'.step \in {"idle", "return"}
           /\ turn'.step = "idle" => turn' = NoTurn
<1>0. InboundMax \in Nat /\ PendingMax \in Nat /\ Len(q) \in Nat /\ Len(inbound) \in Nat
  BY SubagentsAssumption DEF SubagentsAssumption
<1>1. Room \in Nat /\ Len(inbound) + Room = InboundMax
  BY <1>0 DEF Room
<1> DEFINE n == Min({Room, Len(q)})
<1>2. n \in 0 .. Len(q) /\ n <= Room
  BY <1>0, <1>1, MinOfTwo
<1> HIDE DEF n
<1>3. /\ inbound' = inbound \o SubSeq(q, 1, n)
      /\ pending' = SubSeq(q, n + 1, Len(q))
      /\ turn' = IF n = Len(q) THEN NoTurn ELSE [turn EXCEPT !.step = "return"]
  BY DEF GiveBack, n
<1>4. /\ SubSeq(q, 1, n) \in Seq(Items) /\ Len(SubSeq(q, 1, n)) = n
      /\ pending' \in Seq(Items) /\ Len(pending') = Len(q) - n
  BY <1>2, <1>3, InCut
<1>5. SubSeq(q, 1, n) \in Seq(Items \cup Stops)
  BY <1>4
<1>6. inbound' \in Seq(Items \cup Stops) /\ Len(inbound') = Len(inbound) + n
  <2>1. PICK w, i, g : w = inbound' /\ i = inbound /\ g = SubSeq(q, 1, n)
    OBVIOUS
  <2>2. Joined(w, i, g) /\ i \in Seq(Items \cup Stops) /\ g \in Seq(Items \cup Stops)
    BY <2>1, <1>3, <1>5 DEF Joined
  <2>3. w \in Seq(Items \cup Stops) /\ Len(w) = Len(i) + Len(g)
    BY <2>2, InConcat
  <2> QED
    BY <2>1, <2>3, <1>4
<1>7. turn' \in Turns /\ turn'.step \in {"idle", "return"} /\ (turn'.step = "idle" => turn' = NoTurn)
  <2>1. CASE n = Len(q)
    BY <2>1, <1>3, NoTurnType
  <2>2. CASE n # Len(q)
    <3>1. turn' \in Turns /\ turn'.step = "return"
      BY <2>2, <1>3, TurnMoves DEF TurnSteps
    <3> QED
      BY <3>1
  <2> QED
    BY <2>1, <2>2
<1> QED
  BY <1>0, <1>1, <1>2, <1>4, <1>6, <1>7

\* Only the phases the turn is drained from lead on to a wait.
LEMMA TypeInit == Init => TypeOK /\ Below
<1> SUFFICES ASSUME Init PROVE TypeOK /\ Below
  OBVIOUS
<1> USE SubagentsAssumption DEF SubagentsAssumption
<1>1. PICK q : q = <<>>
  OBVIOUS
<1>2. inbound = q /\ pending = q /\ line = q
  BY <1>1 DEF Init
<1>3. q \in Seq(Items) /\ q \in Seq(Items \cup Stops) /\ Len(q) = 0
  BY <1>1
<1>4. turn \in Turns /\ turn.step = "idle"
  BY NoTurnType DEF Init
<1>5. child \in [Children -> ChildStates]
  BY DEF Init, ChildStates
<1>6. /\ direct = {} /\ open = FALSE /\ stop = "no"
      /\ sent = {} /\ told = {} /\ mute = {} /\ lost = {}
  BY DEF Init
<1>7. Len(q) <= InboundMax /\ Len(q) <= PendingMax
  BY <1>3
<1> QED
  BY <1>2, <1>3, <1>4, <1>5, <1>6, <1>7 DEF TypeOK, Below, Turns

\* Each step of a child keeps the types.
LEMMA ChildTypes ==
    ASSUME TypeOK, Below, ChildStep
    PROVE  TypeOK' /\ Below'
<1> USE SubagentsAssumption DEF SubagentsAssumption
<1> PICK c \in Children :
      Spawn(c) \/ Begin(c) \/ RunEnds(c) \/ Announce(c) \/ AnnounceFails(c)
      \/ Cancelled(c) \/ Reap(c)
  BY DEF ChildStep
<1>1. CASE Spawn(c)
  <2>1. turn' \in Turns /\ (turn' = turn \/ turn'.step = "drain")
    <3>1. CASE c \in Foreign
      BY <3>1, <1>1 DEF Spawn, TypeOK, Turns
    <3>2. CASE c \notin Foreign
      <4>1. turn \in Turns
        BY DEF TypeOK, Turns
      <4>2. turn' = [turn EXCEPT !.step = "drain", !.then = "work"]
        BY <3>2, <1>1 DEF Spawn
      <4> QED
        BY <4>1, <4>2 DEF Turns, TurnSteps
    <3> QED
      BY <3>1, <3>2
  <2>2. child' \in [Children -> ChildStates]
    BY <1>1 DEF Spawn, TypeOK, ChildStates, Alive
  <2> QED
    BY <1>1, <2>1, <2>2 DEF Spawn, TypeOK, Below, Turns
<1>2. ASSUME NEW s \in ChildStates, child' = [child EXCEPT ![c] = s]
      PROVE  child' \in [Children -> ChildStates]
  BY <1>2 DEF TypeOK
<1>3. CASE Begin(c)
  BY <1>3, <1>2 DEF Begin, TypeOK, Below, ChildStates, Alive
<1>4. CASE RunEnds(c)
  BY <1>4, <1>2 DEF RunEnds, TypeOK, Below, ChildStates, Alive
<1>5. CASE Announce(c)
  <2>1. c \in Items \cup Stops /\ Len(inbound) < InboundMax
    BY <1>5 DEF Announce, Items
  <2>2. inbound' = Append(inbound, c)
    BY <1>5 DEF Announce
  <2>3. inbound' \in Seq(Items \cup Stops) /\ Len(inbound') <= InboundMax
    BY <2>1, <2>2 DEF TypeOK
  <2> QED
    BY <1>5, <1>2, <2>3 DEF Announce, TypeOK, Below, ChildStates, Alive
<1>6. CASE AnnounceFails(c)
  BY <1>6, <1>2 DEF AnnounceFails, TypeOK, Below, ChildStates, Alive
<1>7. CASE Cancelled(c)
  BY <1>7, <1>2 DEF Cancelled, TypeOK, Below, ChildStates, Alive
<1>8. CASE Reap(c)
  BY <1>8, <1>2 DEF Reap, TypeOK, Below, ChildStates, Alive
<1> QED
  BY <1>1, <1>3, <1>4, <1>5, <1>6, <1>7, <1>8

\* Each step of the turn keeps the types.
LEMMA TurnTypes ==
    ASSUME TypeOK, Below, TurnStep
    PROVE  TypeOK' /\ Below'
<1> USE SubagentsAssumption DEF SubagentsAssumption
<1>0. turn \in Turns /\ pending \in Seq(Items) /\ Len(pending) <= PendingMax
  BY DEF TypeOK, Turns
<1>1. CASE Start
  <2>1. line # <<>> /\ line \in Seq(Items)
    BY <1>1 DEF Start, TypeOK
  <2>2. Head(line) \in Items /\ Tail(line) \in Seq(Items)
    BY <2>1, InTail
  <2>3. turn' \in Turns /\ turn'.step = "work"
    <3>1. turn' = [NoTurn EXCEPT !.step = "work", !.of = Head(line)]
      BY <1>1 DEF Start
    <3> QED
      BY <3>1, <2>2, NoTurnType DEF Turns, TurnSteps
  <2> QED
    BY <1>1, <2>2, <2>3 DEF Start, TypeOK, Below, Turns
<1>2. CASE Answer
  <2>1. turn' \in Turns /\ turn'.step = "drain"
    BY <1>2, <1>0 DEF Answer, Turns, TurnSteps
  <2> QED
    BY <1>2, <2>1 DEF Answer, TypeOK, Below, Turns
<1>3. ASSUME NEW n \in 0 .. Len(pending), Took(n), n > 0 => turn.cycles # MaxCycles,
             UNCHANGED <<child, direct, inbound, open, line, stop, sent, mute, lost>>
      PROVE  TypeOK' /\ Below'
  <2>1. told \subseteq Items
    BY DEF TypeOK
  <2>2. /\ turn' \in Turns /\ turn'.step \in {"work", "close"}
        /\ pending' \in Seq(Items) /\ Len(pending') <= PendingMax /\ told' \subseteq Items
    BY <1>0, <1>3, <2>1, TookTypes
  <2> QED
    BY <1>3, <2>2 DEF TypeOK, Below, Turns
<1>4. CASE Drain
  <2>1. UNCHANGED <<child, direct, inbound, open, line, stop, sent, mute, lost>>
    BY <1>4 DEF Drain
  <2>2. CASE turn.cycles = MaxCycles
    <3>1. Took(0)
      BY <2>2, <1>4 DEF Drain
    <3>2. 0 \in 0 .. Len(pending) /\ ~(0 > 0)
      BY <1>0
    <3> QED
      BY <3>1, <3>2, <2>1, <1>3
  <2>3. CASE turn.cycles # MaxCycles /\ pending = <<>> /\ Own # {}
    <3>1. turn' = [turn EXCEPT !.step = "wait"] /\ UNCHANGED <<told, pending>>
      BY <2>3, <1>4 DEF Drain
    <3>2. turn' \in Turns /\ turn'.cycles # MaxCycles
      BY <3>1, <2>3, <1>0 DEF Turns, TurnSteps
    <3> QED
      BY <3>1, <3>2, <2>1 DEF TypeOK, Below, Turns
  <2>4. CASE turn.cycles # MaxCycles /\ ~(pending = <<>> /\ Own # {})
    <3>1. Took(Min({Len(pending), DrainMax}))
      BY <2>4, <1>4 DEF Drain
    <3> QED
      BY <3>1, <2>1, <2>4, <1>0, <1>3, TakesSome
  <2> QED
    BY <2>2, <2>3, <2>4
<1>5. CASE Wake
  <2>1. Took(Min({Len(pending), DrainMax})) /\ turn.cycles # MaxCycles
    BY <1>5 DEF Wake, Below
  <2>2. UNCHANGED <<child, direct, inbound, open, line, stop, sent, mute, lost>>
    BY <1>5 DEF Wake
  <2> QED
    BY <2>1, <2>2, <1>0, <1>3, TakesSome
<1>6. CASE WaitTimeout
  <2>1. Took(0) /\ 0 \in 0 .. Len(pending) /\ ~(0 > 0)
    BY <1>6, <1>0 DEF WaitTimeout
  <2>2. UNCHANGED <<child, direct, inbound, open, line, stop, sent, mute, lost>>
    BY <1>6 DEF WaitTimeout
  <2> QED
    BY <2>1, <2>2, <1>3
<1>7. CASE Abort
  <2>1. turn' \in Turns /\ turn'.step = "close"
    BY <1>7, <1>0 DEF Abort, Turns, TurnSteps
  <2> QED
    BY <1>7, <2>1 DEF Abort, TypeOK, Below, Turns
<1>8. CASE Close \/ Return
  <2>1. inbound \in Seq(Items \cup Stops) /\ Len(inbound) <= InboundMax /\ GiveBack(pending)
    BY <1>8 DEF Close, Return, TypeOK
  <2>2. /\ inbound' \in Seq(Items \cup Stops) /\ Len(inbound') <= InboundMax
        /\ pending' \in Seq(Items) /\ Len(pending') <= PendingMax
        /\ turn' \in Turns /\ turn'.step \in {"idle", "return"}
    BY <2>1, <1>0, GiveBackTypes
  <2>3. open' \in BOOLEAN
    BY <1>8 DEF Close, Return, TypeOK
  <2>4. UNCHANGED <<child, direct, line, stop, sent, told, mute, lost>>
    BY <1>8 DEF Close, Return
  <2> QED
    BY <2>2, <2>3, <2>4 DEF TypeOK, Below, Turns
<1>9. ASSUME NEW D \in SUBSET Delegates, Delegate(D) PROVE TypeOK' /\ Below'
  <2>1. turn' \in Turns /\ turn'.step = "delegate"
    BY <1>9, <1>0 DEF Delegate, Turns, TurnSteps
  <2> QED
    BY <1>9, <2>1 DEF Delegate, TypeOK, Below, Turns
<1>10. ASSUME NEW d \in Delegates, DirectEnds(d) PROVE TypeOK' /\ Below'
  <2>1. turn' \in Turns /\ turn'.step \in {"drain", "delegate"}
    <3>1. turn' = turn \/ turn' = [turn EXCEPT !.step = "drain", !.then = "work"]
      BY <1>10 DEF DirectEnds
    <3>2. turn.step = "delegate"
      BY <1>10 DEF DirectEnds
    <3> QED
      BY <3>1, <3>2, <1>0 DEF Turns, TurnSteps
  <2>2. direct' \subseteq Delegates
    BY <1>10 DEF DirectEnds, TypeOK
  <2> QED
    BY <1>10, <2>1, <2>2 DEF DirectEnds, TypeOK, Below, Turns
<1> QED
  BY <1>1, <1>2, <1>4, <1>5, <1>6, <1>7, <1>8, <1>9, <1>10 DEF TurnStep

\* A user's message and each step of the run loop keep the types.
LEMMA LoopTypes ==
    ASSUME TypeOK, Below, LoopStep \/ \E m \in Chats \cup Stops : UserSends(m)
    PROVE  TypeOK' /\ Below'
<1> USE SubagentsAssumption DEF SubagentsAssumption
<1>0. /\ turn \in Turns /\ NoTurn \in Turns /\ NoTurn.step = "idle"
      /\ pending \in Seq(Items) /\ line \in Seq(Items) /\ inbound \in Seq(Items \cup Stops)
      /\ Len(pending) <= PendingMax /\ Len(inbound) <= InboundMax
  BY NoTurnType DEF TypeOK, Turns
<1>1. ASSUME NEW m \in Chats \cup Stops, UserSends(m) PROVE TypeOK' /\ Below'
  <2>1. m \in Items \cup Stops /\ Len(inbound) < InboundMax /\ inbound' = Append(inbound, m)
    BY <1>1, <1>0 DEF UserSends, Room, Items
  <2>2. inbound' \in Seq(Items \cup Stops) /\ Len(inbound') <= InboundMax
    BY <2>1, <1>0
  <2> QED
    BY <1>1, <2>2 DEF UserSends, TypeOK, Below
<1>2. ASSUME inbound # <<>>, inbound' = Tail(inbound)
      PROVE  /\ inbound' \in Seq(Items \cup Stops) /\ Len(inbound') <= InboundMax
             /\ Head(inbound) \in Items \cup Stops
  BY <1>0, <1>2
<1>3. PICK e : e = <<>>
  OBVIOUS
<1>4. e \in Seq(Items) /\ Len(e) <= PendingMax
  BY <1>3
<1>5. ToSet(line) \subseteq Items /\ ToSet(pending) \subseteq Items
  BY <1>0 DEF ToSet
<1>6. CASE Route
  <2>1. PICK m : m = Head(inbound)
    OBVIOUS
  <2>2. inbound # <<>> /\ m \notin Stops /\ inbound' = Tail(inbound)
    BY <1>6, <2>1 DEF Route
  <2>3. m \in Items
    BY <2>1, <2>2, <1>2
  <2>4. \/ /\ told' = told \cup {m} /\ pending' = pending /\ line' = line
        \/ /\ Len(pending) < PendingMax /\ pending' = Append(pending, m)
           /\ told' = told /\ line' = line
        \/ /\ line' = Append(line, m) /\ told' = told /\ pending' = pending
    BY <1>6, <2>1 DEF Route
  <2>5. /\ pending' \in Seq(Items) /\ Len(pending') <= PendingMax
        /\ line' \in Seq(Items) /\ told' \subseteq Items
    <3>1. told \subseteq Items
      BY DEF TypeOK
    <3>2. /\ Append(pending, m) \in Seq(Items) /\ Append(line, m) \in Seq(Items)
          /\ Len(pending) < PendingMax => Len(Append(pending, m)) <= PendingMax
      BY <2>3, <1>0
    <3> QED
      BY <2>3, <2>4, <3>1, <3>2, <1>0
  <2>6. UNCHANGED <<child, direct, turn, open, stop, sent, mute, lost>>
    BY <1>6 DEF Route
  <2> QED
    BY <1>2, <2>2, <2>5, <2>6 DEF TypeOK, Below
<1>7. CASE StopBegin
  <2>1. line' \in Seq(Items) /\ pending' \in Seq(Items) /\ Len(pending') <= PendingMax
    BY <1>7, <1>0, <1>3, <1>4 DEF StopBegin
  <2>2. lost' \subseteq Items
    BY <1>7, <1>5 DEF StopBegin, TypeOK
  <2>3. /\ turn' \in Turns
        /\ turn' = NoTurn \/ (turn'.step = turn.step /\ turn'.cycles = turn.cycles)
    <3>1. turn' = NoTurn \/ turn' = turn \/ turn' = [turn EXCEPT !.stopped = TRUE]
      BY <1>7 DEF StopBegin
    <3> QED
      BY <3>1, <1>0 DEF Turns
  <2>4. inbound # <<>> /\ inbound' = Tail(inbound) /\ stop' = "turns"
    BY <1>7 DEF StopBegin
  <2>5. UNCHANGED <<child, direct, open, sent, told, mute>>
    BY <1>7 DEF StopBegin
  <2>6. turn' \in Turns /\ Below'
    BY <2>3, <1>0 DEF Below
  <2> QED
    BY <1>2, <2>1, <2>2, <2>4, <2>5, <2>6 DEF TypeOK, Turns
<1>8. CASE StopTurnsTimeout
  <2>1. pending' \in Seq(Items) /\ Len(pending') <= PendingMax
    BY <1>8, <1>3, <1>4 DEF StopTurnsTimeout
  <2>2. lost' \subseteq Items
    BY <1>8, <1>5 DEF StopTurnsTimeout, TypeOK
  <2>3. turn' = NoTurn /\ UNCHANGED <<child, direct, inbound, open, line, stop, sent, told, mute>>
    BY <1>8 DEF StopTurnsTimeout
  <2> QED
    BY <1>0, <2>1, <2>2, <2>3 DEF TypeOK, Below, Turns
<1>9. CASE StopChildren
  <2>1. child' \in [Children -> ChildStates]
    BY <1>9 DEF StopChildren, TypeOK, ChildStates, Alive
  <2> QED
    BY <1>9, <2>1 DEF StopChildren, TypeOK, Below
<1>10. CASE StopEnds
  BY <1>10 DEF StopEnds, TypeOK, Below
<1> QED
  BY <1>1, <1>6, <1>7, <1>8, <1>9, <1>10 DEF LoopStep

\* The bounded queues, the states of the children and the turn keep their types.
LEMMA TypesNext ==
    ASSUME TypeOK, Below, [Next]_vars
    PROVE  TypeOK' /\ Below'
<1>1. CASE UNCHANGED vars
  BY <1>1 DEF vars, TypeOK, Below
<1> QED
  BY <1>1, ChildTypes, TurnTypes, LoopTypes DEF Next

\* The types hold in every run.
THEOREM TypeCorrect == Spec => []TypeOK
<1>1. Init => TypeOK /\ Below
  BY TypeInit
<1>2. TypeOK /\ Below /\ [Next]_vars => (TypeOK /\ Below)'
  BY TypesNext
<1> QED
  BY <1>1, <1>2, PTL DEF Spec

-----------------------------------------------------------------------------
(***************************************************************************)
(* Permits.                                                                *)
(***************************************************************************)
\* No more children are listed than the semaphore has permits.
Fit == IsFiniteSet(Listed) /\ Cardinality(Listed) <= Limit

\* A step that lists no child anew leaves no more of them.
LEMMA FewerFit ==
    ASSUME Fit, Listed' \subseteq Listed
    PROVE  Fit'
<1>1. IsFiniteSet(Listed')
  BY FS_Subset DEF Fit
<1>2. Cardinality(Listed') <= Cardinality(Listed)
  BY FS_Subset DEF Fit
<1>3. Cardinality(Listed') \in Nat /\ Cardinality(Listed) \in Nat /\ Limit \in Nat
  BY <1>1, FS_CardinalityType, SubagentsAssumption DEF Fit, SubagentsAssumption
<1> QED
  BY <1>1, <1>2, <1>3 DEF Fit

\* As many permits are out as there are children at work, and the tool counts
\* those and the ones that wait, so a child that waits finds a permit.
LEMMA PermitLeft ==
    ASSUME TypeOK, Fit
    PROVE  SpawnNeverWaits
<1> SUFFICES ASSUME NEW c \in Children, child[c] = "queued"
             PROVE  Cardinality(Holding) < Limit
  BY DEF SpawnNeverWaits
<1>1. c \in Listed /\ Holding \subseteq Listed \ {c} /\ IsFiniteSet(Listed)
  BY DEF Listed, Holding, Alive, Fit
<1>2. IsFiniteSet(Listed \ {c}) /\ Cardinality(Listed \ {c}) = Cardinality(Listed) - 1
  BY <1>1, FS_RemoveElement
<1>3. Cardinality(Holding) <= Cardinality(Listed \ {c}) /\ IsFiniteSet(Holding)
  BY <1>1, <1>2, FS_Subset
<1>4. Cardinality(Holding) \in Nat /\ Cardinality(Listed) \in Nat /\ Limit \in Nat
  BY <1>1, <1>3, FS_CardinalityType, SubagentsAssumption DEF SubagentsAssumption
<1> QED
  BY <1>2, <1>3, <1>4 DEF Fit

LEMMA FitNext ==
    ASSUME TypeOK, Fit, [Next]_vars
    PROVE  Fit'
<1>1. CASE child' = child
  BY <1>1, FewerFit DEF Listed
<1>2. ASSUME NEW c \in Children, Spawn(c) PROVE Fit'
  <2>1. c \notin Listed /\ Listed' = Listed \cup {c}
    BY <1>2 DEF Spawn, Listed, Alive, TypeOK
  <2>2. IsFiniteSet(Listed') /\ Cardinality(Listed') = Cardinality(Listed) + 1
    BY <2>1, FS_AddElement DEF Fit
  <2>3. Cardinality(Listed) \in Nat /\ Limit \in Nat
    BY FS_CardinalityType, SubagentsAssumption DEF Fit, SubagentsAssumption
  <2> QED
    BY <1>2, <2>2, <2>3 DEF Fit, Spawn, MaySpawn
<1>3. ASSUME NEW c \in Children,
             Begin(c) \/ RunEnds(c) \/ Announce(c) \/ AnnounceFails(c) \/ Cancelled(c) \/ Reap(c)
      PROVE  Fit'
  <2>1. PICK s : child' = [child EXCEPT ![c] = s] /\ child[c] \in Alive \cup {"ended"}
    BY <1>3 DEF Begin, RunEnds, Announce, AnnounceFails, Cancelled, Reap, Alive
  <2>2. Listed' \subseteq Listed
    BY <2>1 DEF Listed, TypeOK
  <2> QED
    BY <2>2, FewerFit
<1>4. CASE StopChildren
  <2>1. Listed' \subseteq Listed
    BY <1>4 DEF StopChildren, Listed, Own, Alive
  <2> QED
    BY <2>1, FewerFit
<1>5. child' = child \/ ChildStep \/ StopChildren
  BY DEF Next, TurnStep, LoopStep, vars, Start, Delegate, DirectEnds, Answer, Drain, Wake,
         WaitTimeout, Abort, Close, Return, UserSends, Route, StopBegin, StopTurnsTimeout, StopEnds
<1> QED
  BY <1>1, <1>2, <1>3, <1>4, <1>5 DEF ChildStep

LEMMA FitInit == Init => Fit
<1> SUFFICES ASSUME Init PROVE Fit
  OBVIOUS
<1>1. Listed = {}
  BY DEF Init, Listed, Alive
<1>2. IsFiniteSet(Listed) /\ Cardinality(Listed) = 0
  BY <1>1, FS_EmptySet
<1> QED
  BY <1>2, SubagentsAssumption DEF Fit, SubagentsAssumption

-----------------------------------------------------------------------------
(***************************************************************************)
(* The phases of the turn and of /stop.                                    *)
(***************************************************************************)
Within == {"work", "delegate", "drain", "wait", "close"}

\* A turn between its start and its end routes to its queue, only one that
\* delegates has delegates, and what /stop has done holds until it answers.
Phases ==
    /\ turn.step \in Within => open
    /\ turn.step = "idle" => turn = NoTurn
    /\ direct # {} => turn.step = "delegate"
    /\ stop # "no" => line = <<>>
    /\ stop = "children" => turn = NoTurn /\ \A c \in Own : child[c] = "cancelling"

LEMMA PhasesInit == Init => Phases
  BY NoTurnType DEF Init, Phases, Within, NoTurn

\* A turn at work is not the one /stop has ended.
LEMMA AtWork ==
    ASSUME Phases, turn.step # "idle"
    PROVE  stop # "children"
  BY NoTurnType DEF Phases

LEMMA ChildPhases ==
    ASSUME TypeOK, Phases, ChildStep
    PROVE  Phases'
<1> PICK c \in Children :
      Spawn(c) \/ Begin(c) \/ RunEnds(c) \/ Announce(c) \/ AnnounceFails(c)
      \/ Cancelled(c) \/ Reap(c)
  BY DEF ChildStep
<1>1. CASE Spawn(c)
  <2>1. UNCHANGED <<direct, open, line, stop>> /\ child' = [child EXCEPT ![c] = "queued"]
    BY <1>1 DEF Spawn
  <2>2. CASE c \in Foreign
    <3>1. Own' = Own /\ turn' = turn /\ \A d \in Own : child'[d] = child[d]
      BY <2>1, <2>2, <1>1 DEF Spawn, Own, TypeOK
    <3> QED
      BY <2>1, <3>1 DEF Phases
  <2>3. CASE c \notin Foreign
    <3>1. turn.step = "work" /\ turn' = [turn EXCEPT !.step = "drain", !.then = "work"]
      BY <2>3, <1>1 DEF Spawn, Working
    <3>2. turn'.step = "drain"
      BY <3>1 DEF TypeOK
    <3>3. stop # "children" /\ open /\ direct = {}
      BY <3>1, AtWork DEF Phases, Within
    <3> QED
      BY <2>1, <3>2, <3>3 DEF Phases
  <2> QED
    BY <2>2, <2>3
<1>2. CASE ~Spawn(c)
  <2>1. UNCHANGED <<direct, turn, open, line, stop>>
    BY <1>2 DEF Begin, RunEnds, Announce, AnnounceFails, Cancelled, Reap
  <2>2. ASSUME \A d \in Own : child[d] = "cancelling"
        PROVE  \A d \in Own' : child'[d] = "cancelling"
    <3>1. PICK s : child' = [child EXCEPT ![c] = s]
      BY <1>2 DEF Begin, RunEnds, Announce, AnnounceFails, Cancelled, Reap
    <3>2. CASE s \in {"ended", "reaped"}
      BY <2>2, <3>1, <3>2 DEF Own, Alive, TypeOK
    <3>3. CASE s \notin {"ended", "reaped"}
      <4>1. child[c] \in {"queued", "running"}
        BY <1>2, <3>1, <3>3 DEF Begin, RunEnds, Announce, AnnounceFails, Cancelled, Reap, TypeOK
      <4>2. c \in Foreign
        BY <2>2, <4>1 DEF Own, Alive
      <4> QED
        BY <2>2, <3>1, <4>2 DEF Own, TypeOK
    <3> QED
      BY <3>2, <3>3
  <2> QED
    BY <2>1, <2>2 DEF Phases
<1> QED
  BY <1>1, <1>2

LEMMA TurnPhases ==
    ASSUME TypeOK, Phases, TurnStep
    PROVE  Phases'
<1>0. turn \in Turns /\ child' = child /\ stop' = stop /\ Own' = Own
  BY DEF TypeOK, Turns, TurnStep, Start, Delegate, DirectEnds, Answer, Drain, Wake,
         WaitTimeout, Abort, Close, Return, Own
<1>1. CASE Start
  <2>1. turn'.step = "work" /\ open' = TRUE /\ direct' = direct /\ stop' = "no"
    BY <1>1, NoTurnType DEF Start, Phases, NoTurn
  <2>2. direct = {}
    BY <1>1 DEF Start, Phases
  <2> QED
    BY <2>1, <2>2 DEF Phases
<1>2. ASSUME turn.step \in Within, turn'.step \in Within \ {"delegate"},
             direct' = {}, UNCHANGED <<open, line>>
      PROVE  Phases'
  <2>1. turn.step # "idle"
    BY <1>2 DEF Within
  <2>2. stop # "children"
    BY <2>1, AtWork
  <2>3. turn'.step # "idle" /\ open
    BY <1>2 DEF Within, Phases
  <2> QED
    BY <1>0, <1>2, <2>2, <2>3 DEF Phases
<1>3. CASE Answer
  <2>1. turn.step = "work" /\ turn'.step = "drain" /\ direct = {}
    BY <1>3, <1>0 DEF Answer, Working, Turns, Phases
  <2> QED
    BY <1>2, <1>3, <2>1 DEF Answer, Within
<1>4. CASE Drain \/ Wake \/ WaitTimeout
  <2>1. turn.step \in {"drain", "wait"} /\ UNCHANGED <<direct, open, line>>
    BY <1>4 DEF Drain, Wake, WaitTimeout
  <2>2. turn'.step \in {"work", "close", "wait"}
    <3>1. ASSUME NEW n, Took(n) PROVE turn'.step \in {"work", "close"}
      BY <3>1, <1>0 DEF Took, Turns
    <3>2. turn' = [turn EXCEPT !.step = "wait"] \/ \E n : Took(n)
      BY <1>4 DEF Drain, Wake, WaitTimeout
    <3> QED
      BY <3>1, <3>2, <1>0 DEF Turns
  <2>3. direct = {}
    BY <2>1 DEF Phases
  <2> QED
    BY <1>2, <2>1, <2>2, <2>3 DEF Within
<1>5. CASE Abort
  <2>1. turn'.step = "close" /\ direct' = {} /\ UNCHANGED <<open, line>>
    BY <1>5, <1>0 DEF Abort, Turns
  <2>2. turn.step \in Within
    BY <1>5 DEF Abort, Within
  <2> QED
    BY <1>2, <2>1, <2>2 DEF Within
<1>6. CASE Close \/ Return
  <2>1. /\ pending \in Seq(Items) /\ inbound \in Seq(Items \cup Stops)
        /\ Len(pending) <= PendingMax /\ Len(inbound) <= InboundMax
        /\ GiveBack(pending) /\ turn.step \in {"close", "return"} /\ UNCHANGED <<direct, line>>
    BY <1>6 DEF Close, Return, TypeOK
  <2>2. turn'.step \in {"idle", "return"} /\ (turn'.step = "idle" => turn' = NoTurn)
    BY <2>1, <1>0, GiveBackTypes
  <2>3. direct = {} /\ stop # "children"
    BY <2>1, AtWork DEF Phases
  <2> QED
    BY <1>0, <2>1, <2>2, <2>3 DEF Phases, Within
<1>7. ASSUME NEW D \in SUBSET Delegates, Delegate(D) PROVE Phases'
  <2>1. turn'.step = "delegate" /\ turn.step = "work" /\ UNCHANGED <<open, line>>
    BY <1>7, <1>0 DEF Delegate, Working, Turns
  <2>2. open /\ stop # "children"
    BY <2>1, AtWork DEF Phases, Within
  <2> QED
    BY <1>0, <2>1, <2>2 DEF Phases
<1>8. ASSUME NEW d \in Delegates, DirectEnds(d) PROVE Phases'
  <2>1. turn.step = "delegate" /\ UNCHANGED <<open, line>>
    BY <1>8 DEF DirectEnds
  <2>2. CASE direct' = {}
    <3>1. turn'.step = "drain"
      BY <2>2, <1>8, <1>0 DEF DirectEnds, Turns
    <3> QED
      BY <1>2, <2>1, <2>2, <3>1 DEF Within
  <2>3. CASE direct' # {}
    <3>1. turn' = turn
      BY <2>3, <1>8 DEF DirectEnds
    <3> QED
      BY <1>0, <2>1, <3>1 DEF Phases
  <2> QED
    BY <2>2, <2>3
<1> QED
  BY <1>1, <1>3, <1>4, <1>5, <1>6, <1>7, <1>8 DEF TurnStep

LEMMA LoopPhases ==
    ASSUME TypeOK, Phases, LoopStep \/ \E m \in Chats \cup Stops : UserSends(m)
    PROVE  Phases'
<1>1. ASSUME NEW m \in Chats \cup Stops, UserSends(m) PROVE Phases'
  BY <1>1 DEF UserSends, Phases, Own
<1>2. CASE Route
  <2>1. stop = "no" /\ UNCHANGED <<child, direct, turn, open, stop>>
    BY <1>2 DEF Route
  <2> QED
    BY <2>1 DEF Phases
<1>3. CASE StopBegin
  <2>1. /\ stop' = "turns" /\ line' = <<>> /\ UNCHANGED <<child, direct, open>>
        /\ turn' = IF turn.step = "return" THEN NoTurn
                   ELSE IF turn = NoTurn THEN turn ELSE [turn EXCEPT !.stopped = TRUE]
    BY <1>3 DEF StopBegin
  <2>2. CASE turn.step = "return"
    <3>1. direct = {} /\ turn' = NoTurn /\ turn'.step = "idle"
      BY <2>1, <2>2, NoTurnType DEF Phases
    <3> QED
      BY <2>1, <3>1 DEF Phases, Within
  <2>3. CASE turn.step # "return"
    <3>1. turn'.step = turn.step /\ (turn = NoTurn => turn' = NoTurn)
      BY <2>1, <2>3 DEF TypeOK
    <3> QED
      BY <2>1, <3>1 DEF Phases
  <2> QED
    BY <2>2, <2>3
<1>4. CASE StopTurnsTimeout
  <2>1. /\ stop = "turns" /\ turn.step = "return" /\ turn' = NoTurn
        /\ UNCHANGED <<direct, open, line, stop>>
    BY <1>4 DEF StopTurnsTimeout
  <2>2. turn'.step = "idle" /\ direct = {}
    BY <2>1, NoTurnType DEF Phases
  <2> QED
    BY <2>1, <2>2 DEF Phases, Within
<1>5. CASE StopChildren
  <2>1. /\ stop = "turns" /\ turn = NoTurn /\ stop' = "children"
        /\ UNCHANGED <<direct, turn, open, line>>
    BY <1>5 DEF StopChildren
  <2>2. \A c \in Own' : child'[c] = "cancelling"
    BY <1>5 DEF StopChildren, Own, Alive
  <2> QED
    BY <2>1, <2>2 DEF Phases
<1>6. CASE StopEnds
  BY <1>6 DEF StopEnds, Phases, Own
<1> QED
  BY <1>1, <1>2, <1>3, <1>4, <1>5, <1>6 DEF LoopStep

LEMMA PhasesNext ==
    ASSUME TypeOK, Phases, [Next]_vars
    PROVE  Phases'
<1>1. CASE UNCHANGED vars
  BY <1>1 DEF vars, Phases, Own
<1> QED
  BY <1>1, ChildPhases, TurnPhases, LoopPhases DEF Next

\* When /stop has answered, nothing of the session goes on.
THEOREM StopSilencesHolds == Spec => StopSilences
<1> DEFINE I == TypeOK /\ Below /\ Phases
           Answers == stop = "children" /\ stop' = "no"
           NoneLeft == turn = NoTurn /\ direct = {} /\ \A c \in Own : child[c] = "cancelling"
<1>1. Init => I
  BY TypeInit, PhasesInit
<1>2. I /\ [Next]_vars => I'
  BY TypesNext, PhasesNext
<1>3. I /\ [Next]_vars => [Answers => NoneLeft]_vars
  <2>1. ASSUME I, Answers PROVE NoneLeft
    BY <2>1, NoTurnType DEF Phases
  <2> QED
    BY <2>1
<1> QED
  BY <1>1, <1>2, <1>3, PTL DEF Spec, StopSilences

-----------------------------------------------------------------------------
(***************************************************************************)
(* A turn that waits.                                                      *)
(***************************************************************************)
\* A message more, or one less, and what can be among the rest.
LEMMA SetAppend ==
    ASSUME NEW S, NEW s \in Seq(S), NEW e \in S
    PROVE  ToSet(Append(s, e)) = ToSet(s) \cup {e}
<1> PICK t : t = Append(s, e)
  OBVIOUS
<1>1. /\ t \in Seq(S) /\ Len(t) = Len(s) + 1 /\ Len(s) \in Nat
      /\ \A k \in 1 .. Len(s) : t[k] = s[k]
      /\ t[Len(s) + 1] = e
  OBVIOUS
<1>2. DOMAIN t = (1 .. Len(s)) \cup {Len(s) + 1} /\ DOMAIN s = 1 .. Len(s)
  BY <1>1
<1> QED
  BY <1>1, <1>2 DEF ToSet

LEMMA SetTail ==
    ASSUME NEW S, NEW s \in Seq(S), s # <<>>, NEW x \in ToSet(s), x # Head(s)
    PROVE  x \in ToSet(Tail(s))
<1> PICK t : t = Tail(s)
  OBVIOUS
<1>1. /\ t \in Seq(S) /\ Len(t) = Len(s) - 1 /\ Len(s) \in Nat
      /\ \A k \in 1 .. Len(t) : t[k] = s[k + 1]
      /\ s[1] = Head(s)
  OBVIOUS
<1>2. PICK k \in 1 .. Len(s) : s[k] = x
  BY DEF ToSet
<1>3. k - 1 \in 1 .. Len(t) /\ t[k - 1] = x
  BY <1>1, <1>2
<1>4. DOMAIN t = 1 .. Len(t)
  BY <1>1
<1> QED
  BY <1>3, <1>4 DEF ToSet

\* A turn begins to wait in Drain only; whatever then takes a child or a
\* message away puts something else in its place, or has been heard of.
LEMMA WaitNext ==
    ASSUME TypeOK, Phases, NoLonelyWait, [Next]_vars
    PROVE  NoLonelyWait'
<1> SUFFICES ASSUME turn'.step = "wait"
             PROVE  \/ Own' # {} \/ pending' # <<>> \/ turn'.stopped
                    \/ ToSet(inbound') \ Foreign # {} \/ mute' \ Foreign # {}
  BY DEF NoLonelyWait
<1>0. /\ turn \in Turns /\ pending \in Seq(Items) /\ inbound \in Seq(Items \cup Stops)
      /\ Len(pending) <= PendingMax /\ Len(inbound) <= InboundMax /\ told \subseteq Items
  BY DEF TypeOK, Turns
<1>1. CASE UNCHANGED vars
  BY <1>1 DEF vars, NoLonelyWait, Own
<1>2. CASE ChildStep
  <2> PICK c \in Children :
        Spawn(c) \/ Begin(c) \/ RunEnds(c) \/ Announce(c) \/ AnnounceFails(c)
        \/ Cancelled(c) \/ Reap(c)
    BY <1>2 DEF ChildStep
  <2>1. turn' = turn /\ pending' = pending
    <3>1. CASE Spawn(c)
      <4>1. ASSUME turn' = [turn EXCEPT !.step = "drain", !.then = "work"] PROVE FALSE
        BY <4>1, <1>0 DEF Turns
      <4> QED
        BY <3>1, <4>1 DEF Spawn
    <3>2. CASE ~Spawn(c)
      BY <3>2 DEF Begin, RunEnds, Announce, AnnounceFails, Cancelled, Reap
    <3> QED
      BY <3>1, <3>2
  <2>2. CASE Spawn(c) \/ Begin(c) \/ RunEnds(c) \/ Reap(c)
    <3>1. PICK s : child' = [child EXCEPT ![c] = s] /\ (s \in Alive \/ child[c] = "ended")
      BY <2>2 DEF Spawn, Begin, RunEnds, Reap, Alive
    <3>2. Own \subseteq Own'
      BY <3>1 DEF Own, Alive, TypeOK
    <3>3. inbound' = inbound /\ mute' = mute
      BY <2>2 DEF Spawn, Begin, RunEnds, Reap
    <3> QED
      BY <2>1, <3>2, <3>3 DEF NoLonelyWait
  <2>3. CASE Announce(c) \/ AnnounceFails(c) \/ Cancelled(c)
    <3>1. child' = [child EXCEPT ![c] = "ended"]
      BY <2>3 DEF Announce, AnnounceFails, Cancelled
    <3>2. Own \ {c} \subseteq Own'
      BY <3>1 DEF Own, TypeOK
    <3>3. CASE Announce(c)
      <4>1. inbound' = Append(inbound, c) /\ mute' = mute /\ c \in Items \cup Stops
        BY <3>3 DEF Announce, Items
      <4>2. ToSet(inbound') = ToSet(inbound) \cup {c}
        BY <4>1, <1>0, SetAppend
      <4>3. c \in Foreign => c \notin Own
        BY DEF Own
      <4> QED
        BY <2>1, <3>2, <4>1, <4>2, <4>3 DEF NoLonelyWait
    <3>4. CASE AnnounceFails(c) \/ Cancelled(c)
      <4>1. inbound' = inbound /\ mute' = mute \cup {c}
        BY <3>4 DEF AnnounceFails, Cancelled
      <4>2. c \in Foreign => c \notin Own
        BY DEF Own
      <4> QED
        BY <2>1, <3>2, <4>1, <4>2 DEF NoLonelyWait
    <3> QED
      BY <2>3, <3>3, <3>4
  <2> QED
    BY <2>2, <2>3
<1>3. CASE TurnStep
  <2>1. ASSUME NEW n, Took(n) PROVE FALSE
    <3>1. turn'.step \in {"work", "close"}
      BY <2>1, <1>0 DEF Took, Turns
    <3> QED
      BY <3>1
  <2>2. ASSUME Close \/ Return PROVE FALSE
    <3>1. GiveBack(pending)
      BY <2>2 DEF Close, Return
    <3>2. turn'.step \in {"idle", "return"}
      BY <3>1, <1>0, GiveBackTypes
    <3> QED
      BY <3>2
  <2>3. ASSUME Start \/ Answer \/ Abort PROVE FALSE
    BY <2>3, <1>0, NoTurnType DEF Start, Answer, Abort, Turns, NoTurn
  <2>4. ASSUME NEW D \in SUBSET Delegates, Delegate(D) PROVE FALSE
    BY <2>4, <1>0 DEF Delegate, Turns
  <2>5. ASSUME NEW d \in Delegates, DirectEnds(d) PROVE FALSE
    <3>1. turn.step = "delegate"
      BY <2>5 DEF DirectEnds
    <3>2. turn' = turn \/ turn' = [turn EXCEPT !.step = "drain", !.then = "work"]
      BY <2>5 DEF DirectEnds
    <3> QED
      BY <3>1, <3>2, <1>0 DEF Turns
  <2>6. Drain \/ Wake \/ WaitTimeout
    BY <1>3, <2>2, <2>3, <2>4, <2>5 DEF TurnStep
  <2>7. Drain
    BY <2>1, <2>6 DEF Wake, WaitTimeout
  <2>8. Own # {} /\ child' = child
    BY <2>1, <2>7 DEF Drain
  <2> QED
    BY <2>8 DEF Own
<1>4. ASSUME NEW m \in Chats \cup Stops, UserSends(m)
      PROVE  \/ Own' # {} \/ pending' # <<>> \/ turn'.stopped
             \/ ToSet(inbound') \ Foreign # {} \/ mute' \ Foreign # {}
  <2>1. /\ inbound' = Append(inbound, m) /\ m \in Items \cup Stops
        /\ UNCHANGED <<child, turn, pending, mute>>
    BY <1>4 DEF UserSends, Items
  <2>2. ToSet(inbound') = ToSet(inbound) \cup {m}
    BY <2>1, <1>0, SetAppend
  <2>3. Own' = Own
    BY <2>1 DEF Own
  <2> QED
    BY <2>1, <2>2, <2>3 DEF NoLonelyWait
<1>5. CASE LoopStep
  <2>1. turn.step = "wait" /\ turn # NoTurn
    <3>1. \/ turn' = NoTurn \/ turn' = turn \/ turn' = [turn EXCEPT !.stopped = TRUE]
      BY <1>5 DEF LoopStep, Route, StopBegin, StopTurnsTimeout, StopChildren, StopEnds
    <3>2. turn'.step = turn.step \/ turn'.step = "idle"
      BY <3>1, <1>0, NoTurnType DEF Turns
    <3> QED
      BY <3>2, NoTurnType
  <2>2. CASE Route
    <3>1. PICK m : m = Head(inbound)
      OBVIOUS
    <3>2. /\ inbound # <<>> /\ inbound' = Tail(inbound)
          /\ UNCHANGED <<child, turn, mute, open>>
      BY <2>2 DEF Route
    <3>3. \/ m \in Foreign /\ pending' = pending
          \/ pending' = Append(pending, m)
          \/ m \notin Foreign /\ ~(open /\ Len(pending) < PendingMax) /\ pending' = pending
      BY <2>2, <3>1 DEF Route
    <3>4. CASE pending' = Append(pending, m)
      <4>1. m \in Items
        BY <2>2, <3>1, <3>2, <1>0 DEF Route
      <4>2. Len(pending') = Len(pending) + 1 /\ Len(pending) \in Nat
        BY <3>4, <4>1, <1>0
      <4>3. pending' # <<>>
        BY <4>2
      <4> QED
        BY <4>3
    <3>5. CASE m \in Foreign /\ pending' = pending
      <4>1. ASSUME NEW x \in ToSet(inbound) \ Foreign PROVE x \in ToSet(inbound')
        BY <3>1, <3>2, <3>5, <1>0, SetTail
      <4>2. Own' = Own
        BY <3>2 DEF Own
      <4> QED
        BY <2>1, <3>2, <3>5, <4>1, <4>2 DEF NoLonelyWait
    <3>6. CASE ~(open /\ Len(pending) < PendingMax) /\ pending' = pending
      <4>1. open
        BY <2>1 DEF Phases, Within
      <4>2. ~(Len(pending) < PendingMax) /\ PendingMax \in Nat \ {0}
        BY <3>6, <4>1, SubagentsAssumption DEF SubagentsAssumption
      <4>3. pending # <<>>
        BY <4>2
      <4> QED
        BY <3>6, <4>3
    <3> QED
      BY <3>3, <3>4, <3>5, <3>6
  <2>3. CASE StopBegin
    <3>1. turn' = [turn EXCEPT !.stopped = TRUE]
      BY <2>1, <2>3 DEF StopBegin
    <3> QED
      BY <3>1, <1>0 DEF Turns
  <2>4. CASE StopEnds
    BY <2>1, <2>4 DEF StopEnds, NoLonelyWait, Own
  <2>5. ~StopTurnsTimeout /\ ~StopChildren
    BY <2>1 DEF StopTurnsTimeout, StopChildren
  <2> QED
    BY <1>5, <2>2, <2>3, <2>4, <2>5 DEF LoopStep
<1> QED
  BY <1>1, <1>2, <1>3, <1>4, <1>5 DEF Next

\* A turn that waits for a sub-agent has something to wait for.
THEOREM NoLonelyWaitHolds == Spec => []NoLonelyWait
<1> DEFINE I == TypeOK /\ Below /\ Phases /\ NoLonelyWait
<1>1. Init => I
  BY TypeInit, PhasesInit, NoTurnType DEF Init, NoLonelyWait
<1>2. I /\ [Next]_vars => I'
  BY TypesNext, PhasesNext, WaitNext
<1> QED
  BY <1>1, <1>2, PTL DEF Spec

-----------------------------------------------------------------------------
(***************************************************************************)
(* Every message in one place.                                             *)
(***************************************************************************)
\* Five places that share nothing and hold what is in P.
Apart(A, B, C, D, E, P) ==
    /\ A \cap B = {} /\ A \cap C = {} /\ A \cap D = {} /\ A \cap E = {}
    /\ B \cap C = {} /\ B \cap D = {} /\ B \cap E = {}
    /\ C \cap D = {} /\ C \cap E = {} /\ D \cap E = {}
    /\ P = A \cup B \cup C \cup D \cup E

\* A child without a result has ended.
MuteEnded == \A c \in mute : child[c] \in {"ended", "reaped"}

Spots ==
    /\ Once(inbound) /\ Once(pending) /\ Once(line)
    /\ Apart(In(inbound), In(pending), In(line), told, lost, Published)
    /\ MuteEnded

\* One after another the three queues hold no message twice.
LEMMA SpotsPlaces ==
    ASSUME TypeOK, Spots
    PROVE  OnePlace
<1>1. /\ inbound \in Seq(Items \cup Stops) /\ pending \in Seq(Items \cup Stops)
      /\ line \in Seq(Items \cup Stops)
  BY DEF TypeOK
<1>2. PICK v : Joined(v, inbound, pending)
  BY DEF Joined
<1>3. PICK w : Joined(w, v, line)
  BY DEF Joined
<1>0. /\ v \in Seq(Items \cup Stops) /\ In(v) = In(inbound) \cup In(pending) /\ Once(v)
  BY <1>1, <1>2, InConcat DEF Spots, Apart
<1>4. /\ w \in Seq(Items \cup Stops) /\ In(w) = In(inbound) \cup In(pending) \cup In(line)
  BY <1>1, <1>0, <1>3, InConcat
<1>5. Once(w)
  <2>1. In(v) \cap In(line) = {} /\ Once(line)
    BY <1>0 DEF Spots, Apart
  <2>2. v \in Seq(Items \cup Stops) /\ Once(v)
    BY <1>0
  <2> QED
    BY <1>1, <1>3, <2>1, <2>2, InConcat
<1>6. DOMAIN w = 1 .. Len(w)
  BY <1>4
<1>7. \A k, l \in DOMAIN w : w[k] = w[l] /\ w[k] \in Items => k = l
  BY <1>5, <1>6 DEF Once
<1>8. /\ In(w) \cap (told \cup lost) = {} /\ told \cap lost = {}
      /\ Published = In(w) \cup told \cup lost
  BY <1>4 DEF Spots, Apart
<1> QED
  BY <1>2, <1>3, <1>7, <1>8 DEF OnePlace, In, Joined

\* The lists that a step of a child or of the turn leaves as they are.
LEMMA SpotsSame ==
    ASSUME Spots, UNCHANGED <<inbound, pending, line, told, lost>>, MuteEnded',
           Published' = Published
    PROVE  Spots'
  BY DEF Spots, Apart

\* A child that ends is published, unless nobody hears of it.
LEMMA PublishedEnd ==
    ASSUME TypeOK, MuteEnded, NEW c \in Children, child[c] \in Alive,
           child' = [child EXCEPT ![c] = "ended"], sent' = sent
    PROVE  /\ c \notin mute /\ c \notin Published
           /\ mute' = mute => Published' = Published \cup {c} /\ MuteEnded'
           /\ mute' = mute \cup {c} => Published' = Published /\ MuteEnded'
<1>1. c \notin mute /\ c \notin Chats
  BY SubagentsAssumption DEF MuteEnded, Alive, SubagentsAssumption
<1>2. c \notin Published
  BY <1>1 DEF Published, Alive
<1> DEFINE E == {d \in Children : child[d] \in {"ended", "reaped"}}
           F == {d \in Children : child'[d] \in {"ended", "reaped"}}
<1>3. F = E \cup {c}
  BY DEF TypeOK
<1>4. Published = (sent \cap Chats) \cup (E \ mute)
      /\ Published' = (sent \cap Chats) \cup (F \ mute')
  BY DEF Published
<1>5. mute \subseteq E /\ (mute' \subseteq F => MuteEnded')
  BY DEF MuteEnded, TypeOK
<1> HIDE DEF E, F
<1> QED
  BY <1>1, <1>2, <1>3, <1>4, <1>5

LEMMA ChildSpots ==
    ASSUME TypeOK, Spots, ChildStep
    PROVE  Spots'
<1> PICK c \in Children :
      Spawn(c) \/ Begin(c) \/ RunEnds(c) \/ Announce(c) \/ AnnounceFails(c)
      \/ Cancelled(c) \/ Reap(c)
  BY DEF ChildStep
<1>0. inbound \in Seq(Items \cup Stops) /\ MuteEnded
  BY DEF TypeOK, Spots
<1>1. CASE Spawn(c) \/ Begin(c) \/ RunEnds(c) \/ Reap(c)
  <2>1. UNCHANGED <<inbound, pending, line, told, lost, sent, mute>>
    BY <1>1 DEF Spawn, Begin, RunEnds, Reap
  <2>2. PICK s : /\ child' = [child EXCEPT ![c] = s]
                 /\ child[c] \in {"ended", "reaped"} <=> s \in {"ended", "reaped"}
    BY <1>1 DEF Spawn, Begin, RunEnds, Reap
  <2>3. \A d \in Children : child[d] \in {"ended", "reaped"} <=> child'[d] \in {"ended", "reaped"}
    BY <2>2 DEF TypeOK
  <2>4. Published' = Published
    BY <2>1, <2>3 DEF Published
  <2>5. MuteEnded'
    BY <1>0, <2>1, <2>3 DEF MuteEnded, TypeOK
  <2> QED
    BY <2>1, <2>4, <2>5, SpotsSame
<1>2. CASE Announce(c)
  <2>1. /\ child[c] \in Alive /\ child' = [child EXCEPT ![c] = "ended"]
        /\ inbound' = Append(inbound, c) /\ c \in Items /\ c \in Items \cup Stops
        /\ UNCHANGED <<pending, line, told, lost, sent, mute>>
    BY <1>2 DEF Announce, Alive, Items
  <2>2. c \notin Published /\ Published' = Published \cup {c} /\ MuteEnded'
    BY <1>0, <2>1, PublishedEnd
  <2>3. c \notin In(inbound)
    BY <2>2 DEF Spots, Apart
  <2>4. In(inbound') = In(inbound) \cup {c} /\ Once(inbound')
    <3>1. In(inbound') = In(inbound) \cup ({c} \cap Items)
      BY <1>0, <2>1, InAppend
    <3>2. Once(inbound')
      BY <1>0, <2>1, <2>3, InAppend DEF Spots
    <3> QED
      BY <2>1, <3>1, <3>2
  <2> QED
    BY <2>1, <2>2, <2>4 DEF Spots, Apart
<1>3. CASE AnnounceFails(c) \/ Cancelled(c)
  <2>1. /\ child[c] \in Alive /\ child' = [child EXCEPT ![c] = "ended"] /\ mute' = mute \cup {c}
        /\ UNCHANGED <<inbound, pending, line, told, lost, sent>>
    BY <1>3 DEF AnnounceFails, Cancelled, Alive
  <2>2. Published' = Published /\ MuteEnded'
    BY <1>0, <2>1, PublishedEnd
  <2> QED
    BY <2>1, <2>2, SpotsSame
<1> QED
  BY <1>1, <1>2, <1>3

\* The turn takes the front of its queue.
LEMMA TookSpots ==
    ASSUME TypeOK, Spots, NEW n \in 0 .. Len(pending), Took(n),
           UNCHANGED <<child, inbound, line, sent, mute, lost>>
    PROVE  Spots'
<1> PICK a : a = SubSeq(pending, 1, n)
  OBVIOUS
<1>1. pending \in Seq(Items) /\ Once(pending)
  BY DEF TypeOK, Spots
<1>2. pending' = SubSeq(pending, n + 1, Len(pending))
  BY DEF Took
<1>3. /\ a \in Seq(Items) /\ Len(a) = n
      /\ In(pending) = In(a) \cup In(pending') /\ In(a) \cap In(pending') = {}
      /\ Once(pending')
  BY <1>1, <1>2, InCut
<1>4. told' = told \cup In(a)
  <2>1. In(a) = {a[i] : i \in 1 .. n}
    <3>1. DOMAIN a = 1 .. n /\ \A i \in 1 .. n : a[i] \in Items
      BY <1>3
    <3> QED
      BY <3>1 DEF In, ToSet
  <2>2. \A i \in 1 .. n : a[i] = pending[i]
    BY <1>1
  <2>3. told' = told \cup {pending[i] : i \in 1 .. n}
    BY DEF Took
  <2> QED
    BY <2>1, <2>2, <2>3
<1>5. Published' = Published /\ MuteEnded'
  BY DEF Published, MuteEnded, Spots
<1> QED
  BY <1>3, <1>4, <1>5 DEF Spots, Apart

\* What goes back to the bus leaves the queue.
LEMMA GiveBackSpots ==
    ASSUME TypeOK, Spots, GiveBack(pending),
           UNCHANGED <<child, line, sent, told, mute, lost>>
    PROVE  Spots'
<1>0. /\ InboundMax \in Nat /\ pending \in Seq(Items) /\ inbound \in Seq(Items \cup Stops)
      /\ Len(inbound) <= InboundMax /\ Once(pending) /\ Once(inbound)
  BY SubagentsAssumption DEF SubagentsAssumption, TypeOK, Spots
<1>1. Room \in Nat
  BY <1>0 DEF Room
<1> DEFINE n == Min({Room, Len(pending)})
<1>2. n \in 0 .. Len(pending)
  BY <1>0, <1>1, MinOfTwo
<1> HIDE DEF n
<1>a. PICK g : g = SubSeq(pending, 1, n)
  OBVIOUS
<1>3. inbound' = inbound \o g /\ pending' = SubSeq(pending, n + 1, Len(pending))
  BY <1>a DEF GiveBack, n
<1>4. /\ g \in Seq(Items) /\ In(pending) = In(g) \cup In(pending')
      /\ In(g) \cap In(pending') = {} /\ Once(g) /\ Once(pending')
  BY <1>a, <1>0, <1>2, <1>3, InCut
<1>5. g \in Seq(Items \cup Stops)
  BY <1>4
<1>6. In(inbound) \cap In(g) = {} /\ Once(g)
  BY <1>4 DEF Spots, Apart
<1>7. In(inbound') = In(inbound) \cup In(g) /\ Once(inbound')
  <2>1. PICK w, i : w = inbound' /\ i = inbound
    OBVIOUS
  <2>2. /\ Joined(w, i, g) /\ i \in Seq(Items \cup Stops) /\ g \in Seq(Items \cup Stops)
        /\ Once(i) /\ Once(g) /\ In(i) \cap In(g) = {}
    BY <2>1, <1>0, <1>3, <1>5, <1>6 DEF Joined
  <2>3. In(w) = In(i) \cup In(g) /\ Once(w)
    BY <2>2, InConcat
  <2> QED
    BY <2>1, <2>3
<1>8. Published' = Published /\ MuteEnded'
  BY DEF Published, MuteEnded, Spots
<1> QED
  BY <1>4, <1>7, <1>8 DEF Spots, Apart

LEMMA TurnSpots ==
    ASSUME TypeOK, Spots, TurnStep
    PROVE  Spots'
<1>0. pending \in Seq(Items) /\ line \in Seq(Items)
  BY DEF TypeOK
<1>1. CASE Start
  <2>1. /\ line # <<>> /\ line' = Tail(line) /\ told' = told \cup {Head(line)}
        /\ UNCHANGED <<child, inbound, pending, sent, mute, lost>>
    BY <1>1 DEF Start
  <2>2. /\ In(line) = In(line') \cup ({Head(line)} \cap Items) /\ Head(line) \in Items
        /\ Once(line') /\ Head(line) \notin In(line')
    BY <1>0, <2>1, InTail DEF Spots
  <2>3. Published' = Published /\ MuteEnded'
    BY <2>1 DEF Published, MuteEnded, Spots
  <2>4. In(line) = In(line') \cup {Head(line)}
    BY <2>2
  <2> QED
    BY <2>1, <2>2, <2>3, <2>4 DEF Spots, Apart
<1>2. CASE Drain \/ Wake \/ WaitTimeout
  <2>1. UNCHANGED <<child, inbound, line, sent, mute, lost>>
    BY <1>2 DEF Drain, Wake, WaitTimeout
  <2>2. 0 \in 0 .. Len(pending) /\ Min({Len(pending), DrainMax}) \in 0 .. Len(pending)
    BY <1>0, TakesSome
  <2>3. \/ UNCHANGED <<told, pending>>
        \/ Took(0) \/ Took(Min({Len(pending), DrainMax}))
    BY <1>2 DEF Drain, Wake, WaitTimeout
  <2>4. Took(0) => Spots'
    BY <2>1, <2>2, TookSpots
  <2>5. Took(Min({Len(pending), DrainMax})) => Spots'
    BY <2>1, <2>2, TookSpots
  <2>6. UNCHANGED <<told, pending>> => Spots'
    BY <2>1 DEF Spots, MuteEnded, Published
  <2> QED
    BY <2>3, <2>4, <2>5, <2>6
<1>3. CASE Close \/ Return
  BY <1>3, GiveBackSpots DEF Close, Return
<1>4. CASE ~(Start \/ Drain \/ Wake \/ WaitTimeout \/ Close \/ Return)
  <2>1. UNCHANGED <<child, inbound, pending, line, sent, told, mute, lost>>
    BY <1>4 DEF TurnStep, Answer, Abort, Delegate, DirectEnds
  <2> QED
    BY <2>1 DEF Spots, MuteEnded, Published
<1> QED
  BY <1>1, <1>2, <1>3, <1>4

\* The message at the head of the bus is new to every other place.
LEMMA HeadSpots ==
    ASSUME TypeOK, Spots, inbound # <<>>, inbound' = Tail(inbound)
    PROVE  /\ In(inbound) = In(inbound') \cup ({Head(inbound)} \cap Items)
           /\ Once(inbound') /\ Head(inbound) \notin In(inbound')
           /\ Head(inbound) \in Items \cup Stops
  BY InTail DEF TypeOK, Spots

LEMMA LoopSpots ==
    ASSUME TypeOK, Phases, Spots, LoopStep \/ \E m \in Chats \cup Stops : UserSends(m)
    PROVE  Spots'
<1>0. /\ pending \in Seq(Items) /\ line \in Seq(Items) /\ inbound \in Seq(Items \cup Stops)
      /\ Items \cap Stops = {}
  BY SubagentsAssumption DEF TypeOK, SubagentsAssumption, Items
<1>1. ASSUME NEW m \in Chats \cup Stops, UserSends(m) PROVE Spots'
  <2>1. /\ m \notin sent /\ sent' = sent \cup {m} /\ inbound' = Append(inbound, m)
        /\ m \in Items \cup Stops
        /\ UNCHANGED <<child, pending, line, told, mute, lost>>
    BY <1>1 DEF UserSends, Items
  <2>2. Published' = Published \cup ({m} \cap Items) /\ MuteEnded'
    <3>1. m \in Chats <=> m \in Items
      BY SubagentsAssumption DEF SubagentsAssumption, Items
    <3>2. MuteEnded'
      BY <2>1 DEF MuteEnded, Spots
    <3> QED
      BY <2>1, <3>1, <3>2 DEF Published
  <2>3. m \notin Published
    BY <2>1, SubagentsAssumption DEF SubagentsAssumption, Published
  <2>4. m \notin In(inbound)
    BY <2>3 DEF Spots, Apart
  <2>5. In(inbound') = In(inbound) \cup ({m} \cap Items) /\ Once(inbound')
    BY <1>0, <2>1, <2>4, InAppend DEF Spots
  <2> QED
    BY <2>1, <2>2, <2>3, <2>5 DEF Spots, Apart
<1>2. CASE Route
  <2>1. PICK m : m = Head(inbound)
    OBVIOUS
  <2>2. /\ inbound # <<>> /\ inbound' = Tail(inbound) /\ m \notin Stops
        /\ UNCHANGED <<child, sent, mute, lost>>
    BY <1>2, <2>1 DEF Route
  <2>3. /\ m \in Items /\ In(inbound) = In(inbound') \cup {m} /\ Once(inbound')
        /\ m \notin In(inbound')
    BY <2>1, <2>2, HeadSpots
  <2>4. Published' = Published /\ MuteEnded'
    BY <2>2 DEF Published, MuteEnded, Spots
  <2>5. \/ told' = told \cup {m} /\ pending' = pending /\ line' = line
        \/ pending' = Append(pending, m) /\ told' = told /\ line' = line
        \/ line' = Append(line, m) /\ told' = told /\ pending' = pending
    BY <1>2, <2>1 DEF Route
  <2>6. m \notin In(pending) /\ m \notin In(line) /\ m \notin told /\ m \notin lost
    BY <2>3 DEF Spots, Apart
  <2>7. /\ In(Append(pending, m)) = In(pending) \cup {m} /\ Once(Append(pending, m))
        /\ In(Append(line, m)) = In(line) \cup {m} /\ Once(Append(line, m))
    <3>1. {m} \cap Items = {m} /\ Once(pending) /\ Once(line)
      BY <2>3 DEF Spots
    <3>2. In(Append(pending, m)) = In(pending) \cup {m} /\ Once(Append(pending, m))
      BY <1>0, <2>3, <2>6, <3>1, InAppend
    <3>3. In(Append(line, m)) = In(line) \cup {m} /\ Once(Append(line, m))
      BY <1>0, <2>3, <2>6, <3>1, InAppend
    <3> QED
      BY <3>2, <3>3
  <2>8. CASE told' = told \cup {m} /\ pending' = pending /\ line' = line
    BY <2>2, <2>3, <2>4, <2>6, <2>8 DEF Spots, Apart
  <2>9. CASE pending' = Append(pending, m) /\ told' = told /\ line' = line
    <3>1. In(pending') = In(pending) \cup {m} /\ Once(pending')
      BY <2>7, <2>9
    <3> QED
      BY <2>2, <2>3, <2>4, <2>6, <2>9, <3>1 DEF Spots, Apart
  <2>10. CASE line' = Append(line, m) /\ told' = told /\ pending' = pending
    <3>1. In(line') = In(line) \cup {m} /\ Once(line')
      BY <2>7, <2>10
    <3> QED
      BY <2>2, <2>3, <2>4, <2>6, <2>10, <3>1 DEF Spots, Apart
  <2> QED
    BY <2>5, <2>8, <2>9, <2>10
<1>3. In(line) = ToSet(line) /\ In(pending) = ToSet(pending)
  BY <1>0 DEF In, ToSet
<1>4. PICK e : e = <<>>
  OBVIOUS
<1>5. In(e) = {} /\ Once(e)
  BY <1>4, InEmpty
<1>6. CASE StopBegin
  <2>1. /\ inbound # <<>> /\ inbound' = Tail(inbound) /\ Head(inbound) \in Stops
        /\ UNCHANGED <<child, sent, told, mute>>
    BY <1>6 DEF StopBegin
  <2>2. In(inbound') = In(inbound) /\ Once(inbound')
    BY <2>1, <1>0, HeadSpots
  <2>3. Published' = Published /\ MuteEnded'
    BY <2>1 DEF Published, MuteEnded, Spots
  <2>4. line' = e
    BY <1>4, <1>6 DEF StopBegin
  <2>5. \/ pending' = e /\ lost' = lost \cup In(line) \cup In(pending)
        \/ pending' = pending /\ lost' = lost \cup In(line)
    BY <1>3, <1>4, <1>6 DEF StopBegin
  <2> QED
    BY <2>1, <2>2, <2>3, <2>4, <2>5, <1>5 DEF Spots, Apart
<1>7. CASE StopTurnsTimeout
  <2>1. /\ pending' = e /\ lost' = lost \cup In(pending)
        /\ UNCHANGED <<child, inbound, line, sent, told, mute>>
    BY <1>3, <1>4, <1>7 DEF StopTurnsTimeout
  <2>2. Published' = Published /\ MuteEnded'
    BY <2>1 DEF Published, MuteEnded, Spots
  <2> QED
    BY <2>1, <2>2, <1>5 DEF Spots, Apart
<1>8. CASE StopChildren
  <2>1. UNCHANGED <<inbound, pending, line, sent, told, mute, lost>>
    BY <1>8 DEF StopChildren
  <2>2. \A d \in Children : child[d] \in {"ended", "reaped"} <=> child'[d] \in {"ended", "reaped"}
    BY <1>8 DEF StopChildren, Own, Alive
  <2>3. Published' = Published
    BY <2>1, <2>2 DEF Published
  <2>4. MuteEnded'
    BY <2>1, <2>2 DEF MuteEnded, TypeOK, Spots
  <2> QED
    BY <2>1, <2>3, <2>4, SpotsSame
<1>9. CASE StopEnds
  BY <1>9 DEF StopEnds, Spots, MuteEnded, Published
<1> QED
  BY <1>1, <1>2, <1>6, <1>7, <1>8, <1>9 DEF LoopStep

LEMMA SpotsNext ==
    ASSUME TypeOK, Phases, Spots, [Next]_vars
    PROVE  Spots'
<1>1. CASE UNCHANGED vars
  BY <1>1 DEF vars, Spots, MuteEnded, Published
<1> QED
  BY <1>1, ChildSpots, TurnSpots, LoopSpots DEF Next

LEMMA SpotsInit == Init => Spots
<1> SUFFICES ASSUME Init PROVE Spots
  OBVIOUS
<1> PICK e : e = <<>>
  OBVIOUS
<1>1. inbound = e /\ pending = e /\ line = e /\ In(e) = {} /\ Once(e)
  BY InEmpty DEF Init
<1>2. told = {} /\ lost = {} /\ mute = {} /\ sent = {}
  BY DEF Init
<1>3. Published = {}
  BY <1>2 DEF Init, Published
<1> QED
  BY <1>1, <1>2, <1>3 DEF Spots, Apart, MuteEnded

\* The types hold, a spawned child finds a permit, and a result or a message
\* is in one place and once.
THEOREM AgentsConsistentHolds == Spec => []AgentsConsistent
<1> DEFINE I == TypeOK /\ Below /\ Phases /\ Fit /\ Spots
<1>1. Init => I
  BY TypeInit, PhasesInit, FitInit, SpotsInit
<1>2. I /\ [Next]_vars => I'
  BY TypesNext, PhasesNext, FitNext, SpotsNext
<1>3. I => AgentsConsistent
  BY PermitLeft, SpotsPlaces DEF AgentsConsistent
<1> QED
  BY <1>1, <1>2, <1>3, PTL DEF Spec

-----------------------------------------------------------------------------
(***************************************************************************)
(* THE CRON SERVICE.  For every set of jobs, every schedule and every      *)
(* mixture of requests, other processes, restarts, crashes and failing     *)
(* saves: runs neither overlap nor repeat, the saved time of a last run    *)
(* never goes back, and file and log together keep every change.           *)
(***************************************************************************)

-----------------------------------------------------------------------------
(***************************************************************************)
(* The action log.  A job's last line decides whether the job is there.    *)
(***************************************************************************)
LineType == [op : {"add", "del", "update"}, id : Jobs, job : Job]

NoLine(lines, j) == \A i \in 1 .. Len(lines) : lines[i].id # j

LastFor(lines, j, i) ==
    /\ i \in 1 .. Len(lines) /\ lines[i].id = j
    /\ \A k \in 1 .. Len(lines) : lines[k].id = j => k <= i

Gives(lines, j) == \E i \in 1 .. Len(lines) : LastFor(lines, j, i) /\ lines[i].op # "del"

\* Job j is there after the lines if D are the jobs before.
There(D, lines, j) == Gives(lines, j) \/ (NoLine(lines, j) /\ j \in D)

\* A set of numbers has a least one.
LEMMA LeastOf ==
    ASSUME NEW S, S \subseteq Nat, S # {}
    PROVE  \E x \in S : \A y \in S : x <= y
<1>1. PICK x \in S : \A y \in S : ~(<<y, x>> \in OpToRel(<, Nat))
  BY NatLessThanWellFounded, WFMin
<1>2. ASSUME NEW y \in S PROVE ~(y < x)
  <2>1. <<y, x>> \in Nat \X Nat
    OBVIOUS
  <2> QED
    BY <1>1, <2>1 DEF OpToRel
<1>3. \A y \in S : y \in Nat /\ x \in Nat
  OBVIOUS
<1> QED
  BY <1>2, <1>3

LEMMA LastLine ==
    ASSUME NEW z, NEW lines \in Seq(z), NEW j, ~NoLine(lines, j)
    PROVE  \E i : LastFor(lines, j, i)
<1> DEFINE S == {n \in Nat : \E i \in 1 .. Len(lines) : lines[i].id = j /\ n = Len(lines) - i}
<1>1. Len(lines) \in Nat
  OBVIOUS
<1>2. S # {}
  <2>1. PICK i \in 1 .. Len(lines) : lines[i].id = j
    BY DEF NoLine
  <2>2. Len(lines) - i \in Nat
    BY <1>1
  <2>3. Len(lines) - i \in S
    BY <2>1, <2>2
  <2> QED
    BY <2>3
<1>3. PICK n \in S : \A k \in S : n <= k
  <2>1. S \subseteq Nat
    OBVIOUS
  <2> QED
    BY <1>2, <2>1, LeastOf
<1>4. PICK i \in 1 .. Len(lines) : lines[i].id = j /\ n = Len(lines) - i
  BY <1>3
<1>5. ASSUME NEW k \in 1 .. Len(lines), lines[k].id = j PROVE k <= i
  <2>1. Len(lines) - k \in Nat
    BY <1>1
  <2>2. Len(lines) - k \in S
    BY <1>5, <2>1
  <2>3. n <= Len(lines) - k
    BY <1>3, <2>2
  <2> QED
    BY <1>1, <1>4, <2>3
<1> QED
  BY <1>4, <1>5 DEF LastFor

LEMMA MaxLine ==
    ASSUME NEW z, NEW lines \in Seq(z), NEW j, NEW i, LastFor(lines, j, i)
    PROVE  Max({k \in DOMAIN lines : lines[k].id = j}) = i
<1>1. PICK T : T = {k \in DOMAIN lines : lines[k].id = j}
  OBVIOUS
<1>2. DOMAIN lines = 1 .. Len(lines) /\ Len(lines) \in Nat
  OBVIOUS
<1>3. T \subseteq Nat /\ i \in T /\ \A k \in T : i >= k
  BY <1>1, <1>2 DEF LastFor
<1>4. Max(T) \in T /\ \A k \in T : Max(T) >= k
  BY <1>3 DEF Max
<1>5. Max(T) \in Nat /\ i \in Nat /\ Max(T) >= i /\ i >= Max(T)
  BY <1>3, <1>4
<1>6. Max(T) = i
  BY <1>5
<1> QED
  BY <1>1, <1>6

\* What the lines make of a table.
LEMMA ReplayedIs ==
    ASSUME NEW z, NEW lines \in Seq(z), NEW m
    PROVE  /\ \A j : j \in DOMAIN Replayed(m, lines) <=> There(DOMAIN m, lines, j)
           /\ \A j : NoLine(lines, j) /\ j \in DOMAIN m => Replayed(m, lines)[j] = m[j]
           /\ \A j, i : LastFor(lines, j, i) /\ lines[i].op # "del" =>
                            Replayed(m, lines)[j] = lines[i].job
           /\ Replayed(m, lines) = [j \in DOMAIN Replayed(m, lines) |-> Replayed(m, lines)[j]]
<1>1. PICK named : named = {lines[i].id : i \in DOMAIN lines}
  OBVIOUS
<1> DEFINE last(j) == lines[Max({i \in DOMAIN lines : lines[i].id = j})]
           D == {i \in DOMAIN m \cup named : i \in named => last(i).op # "del"}
<1>2. Replayed(m, lines) = [j \in D |-> IF j \in named THEN last(j).job ELSE m[j]]
  BY <1>1 DEF Replayed
<1>3. \A j : j \in named <=> ~NoLine(lines, j)
  <2>1. DOMAIN lines = 1 .. Len(lines)
    OBVIOUS
  <2> QED
    BY <1>1, <2>1 DEF NoLine
<1>4. \A j, i : LastFor(lines, j, i) => last(j) = lines[i] /\ j \in named
  <2> TAKE j, i
  <2> HAVE LastFor(lines, j, i)
  <2>1. last(j) = lines[i]
    BY MaxLine
  <2>2. ~NoLine(lines, j)
    BY DEF LastFor, NoLine
  <2> QED
    BY <1>3, <2>1, <2>2
<1>5. \A j : j \in named => \E i : LastFor(lines, j, i)
  BY <1>3, LastLine
<1>6. \A j : j \in D <=> There(DOMAIN m, lines, j)
  <2> TAKE j
  <2>1. CASE j \in named
    <3>1. PICK i : LastFor(lines, j, i)
      BY <1>5, <2>1
    <3>2. last(j) = lines[i] /\ i \in 1 .. Len(lines)
      BY <1>4, <3>1 DEF LastFor
    <3>3. j \in D <=> lines[i].op # "del"
      BY <2>1, <3>2
    <3>4. ASSUME NEW k, LastFor(lines, j, k) PROVE last(j) = lines[k]
      BY <1>4, <3>4
    <3>5. Gives(lines, j) <=> lines[i].op # "del"
      BY <3>1, <3>2, <3>4 DEF Gives
    <3> QED
      BY <1>3, <2>1, <3>3, <3>5 DEF There
  <2>2. CASE j \notin named
    <3>1. ~Gives(lines, j)
      BY <1>4, <2>2 DEF Gives
    <3>2. j \in D <=> j \in DOMAIN m
      BY <2>2
    <3> QED
      BY <1>3, <2>2, <3>1, <3>2 DEF There
  <2> QED
    BY <2>1, <2>2
<1> HIDE DEF last, D
<1>7. DOMAIN Replayed(m, lines) = D
  BY <1>2
<1>8. \A j : NoLine(lines, j) /\ j \in DOMAIN m => Replayed(m, lines)[j] = m[j]
  <2> TAKE j
  <2> HAVE NoLine(lines, j) /\ j \in DOMAIN m
  <2>1. j \in D /\ j \notin named
    BY <1>3, <1>6 DEF There
  <2> QED
    BY <1>2, <2>1
<1>9. \A j, i : LastFor(lines, j, i) /\ lines[i].op # "del" => Replayed(m, lines)[j] = lines[i].job
  <2> TAKE j, i
  <2> HAVE LastFor(lines, j, i) /\ lines[i].op # "del"
  <2>1. j \in D
    BY <1>6 DEF There, Gives, LastFor
  <2>2. last(j) = lines[i] /\ j \in named
    BY <1>4
  <2> QED
    BY <1>2, <2>1, <2>2
<1>10. Replayed(m, lines) = [j \in DOMAIN Replayed(m, lines) |-> Replayed(m, lines)[j]]
  BY <1>2
<1> QED
  BY <1>6, <1>7, <1>8, <1>9, <1>10

LEMMA ThereNone == \A D, j : There(D, <<>>, j) <=> j \in D
  BY DEF There, Gives, NoLine

\* Applying the lines once more changes nothing.
LEMMA ThereTwice ==
    ASSUME NEW D, NEW E, NEW lines, \A j : j \in E <=> There(D, lines, j)
    PROVE  \A j : There(E, lines, j) <=> There(D, lines, j)
  BY DEF There

\* More jobs before, more jobs after.
LEMMA ThereMore ==
    ASSUME NEW D, NEW E, NEW lines, NEW j, j \in D => j \in E, There(D, lines, j)
    PROVE  There(E, lines, j)
  BY DEF There

\* One more line.
LEMMA ThereAppend ==
    ASSUME NEW z, NEW lines \in Seq(z), NEW e \in z, NEW D, NEW j
    PROVE  /\ e.op = "del" =>
                (There(D, Append(lines, e), j) <=> There(D, lines, j) /\ j # e.id)
           /\ e.op # "del" =>
                (There(D, Append(lines, e), j) <=> There(D, lines, j) \/ j = e.id)
<1>1. PICK v, n : v = Append(lines, e) /\ n = Len(lines)
  OBVIOUS
<1>2. /\ Len(v) = n + 1 /\ n \in Nat /\ v[n + 1] = e
      /\ \A i \in 1 .. n : v[i] = lines[i]
  BY <1>1
<1>3. \A i \in 1 .. Len(v) : i \in 1 .. n \/ i = n + 1
  BY <1>2
<1>4. n + 1 \in 1 .. Len(v) /\ \A i \in 1 .. n : i \in 1 .. Len(v) /\ i <= n + 1
  BY <1>2
<1>5. CASE j = e.id
  <2>1. ~NoLine(v, j)
    BY <1>2, <1>4, <1>5 DEF NoLine
  <2>2. LastFor(v, j, n + 1)
    BY <1>2, <1>3, <1>4, <1>5 DEF LastFor
  <2>3. \A i : LastFor(v, j, i) => i = n + 1
    <3> TAKE i
    <3> HAVE LastFor(v, j, i)
    <3>1. i \in 1 .. Len(v) /\ n + 1 <= i
      BY <1>2, <1>4, <1>5 DEF LastFor
    <3> QED
      BY <1>2, <3>1
  <2>4. Gives(v, j) <=> e.op # "del"
    BY <1>2, <1>4, <2>2, <2>3 DEF Gives
  <2> QED
    BY <1>1, <1>5, <2>1, <2>4 DEF There
<1>6. CASE j # e.id
  <2>1. NoLine(v, j) <=> NoLine(lines, j)
    BY <1>1, <1>2, <1>3, <1>4, <1>6 DEF NoLine
  <2>2. \A i : LastFor(v, j, i) <=> LastFor(lines, j, i)
    <3> TAKE i
    <3>1. ASSUME LastFor(v, j, i) PROVE LastFor(lines, j, i)
      <4>1. i \in 1 .. n
        BY <1>2, <1>3, <1>6, <3>1 DEF LastFor
      <4> QED
        BY <1>1, <1>2, <1>4, <3>1, <4>1 DEF LastFor
    <3>2. ASSUME LastFor(lines, j, i) PROVE LastFor(v, j, i)
      <4>1. i \in 1 .. n
        BY <1>1, <3>2 DEF LastFor
      <4>2. \A k \in 1 .. Len(v) : v[k].id = j => k \in 1 .. n
        BY <1>2, <1>3, <1>6
      <4> QED
        BY <1>1, <1>2, <1>4, <3>2, <4>1, <4>2 DEF LastFor
    <3> QED
      BY <3>1, <3>2
  <2>3. Gives(v, j) <=> Gives(lines, j)
    <3>1. \A i : LastFor(lines, j, i) => i \in 1 .. n /\ i \in 1 .. Len(v) /\ v[i] = lines[i]
      BY <1>1, <1>2, <1>4 DEF LastFor
    <3> QED
      BY <1>1, <2>2, <3>1 DEF Gives
  <2> QED
    BY <1>1, <1>6, <2>1, <2>3 DEF There
<1> QED
  BY <1>5, <1>6

\* Lines that only remove.
Removals(lines) == \A i \in 1 .. Len(lines) : lines[i].op = "del"

LEMMA ThereRemovals ==
    ASSUME NEW lines, Removals(lines), NEW D, NEW j
    PROVE  There(D, lines, j) <=> NoLine(lines, j) /\ j \in D
  BY DEF There, Removals, Gives

-----------------------------------------------------------------------------
(***************************************************************************)
(* Jobs, tables and lines.  No time in them is after t.                    *)
(***************************************************************************)
TableOK(m, t) == IsTable(m) /\ \A j \in DOMAIN m : m[j].last <= t
LinesOK(lines, t) == lines \in Seq(LineType) /\ \A i \in 1 .. Len(lines) : lines[i].job.last <= t

LEMMA ReplayedTable ==
    ASSUME NEW t, NEW m, TableOK(m, t), NEW lines, LinesOK(lines, t)
    PROVE  TableOK(Replayed(m, lines), t)
<1>1. PICK r : r = Replayed(m, lines)
  OBVIOUS
<1>2. lines \in Seq(LineType)
  BY DEF LinesOK
<1>3. ASSUME NEW j \in DOMAIN r
      PROVE  j \in Jobs /\ r[j] \in Job /\ r[j].last <= t
  <2>1. There(DOMAIN m, lines, j)
    BY <1>1, <1>2, <1>3, ReplayedIs
  <2>2. CASE Gives(lines, j)
    <3>1. PICK i \in 1 .. Len(lines) : LastFor(lines, j, i) /\ lines[i].op # "del"
      BY <2>2 DEF Gives
    <3>2. r[j] = lines[i].job
      BY <1>1, <1>2, <3>1, ReplayedIs
    <3>3. lines[i] \in LineType /\ lines[i].job.last <= t
      BY <1>2 DEF LinesOK
    <3>4. lines[i].id = j
      BY <3>1 DEF LastFor
    <3> QED
      BY <3>2, <3>3, <3>4 DEF LineType
  <2>3. CASE ~Gives(lines, j)
    <3>1. NoLine(lines, j) /\ j \in DOMAIN m
      BY <2>1, <2>3 DEF There
    <3>2. r[j] = m[j]
      BY <1>1, <1>2, <3>1, ReplayedIs
    <3> QED
      BY <3>1, <3>2 DEF TableOK, IsTable
  <2> QED
    BY <2>2, <2>3
<1> QED
  BY <1>1, <1>3 DEF TableOK, IsTable

LEMMA LinesAppend ==
    ASSUME NEW t, NEW lines, LinesOK(lines, t), NEW e \in LineType, e.job.last <= t
    PROVE  LinesOK(Append(lines, e), t)
<1>1. PICK v, n : v = Append(lines, e) /\ n = Len(lines)
  OBVIOUS
<1>2. lines \in Seq(LineType)
  BY DEF LinesOK
<1>3. /\ v \in Seq(LineType) /\ Len(v) = n + 1 /\ n \in Nat /\ v[n + 1] = e
      /\ \A i \in 1 .. n : v[i] = lines[i]
  BY <1>1, <1>2
<1>4. ASSUME NEW i \in 1 .. Len(v) PROVE v[i].job.last <= t
  <2>1. i \in 1 .. n \/ i = n + 1
    BY <1>3
  <2> QED
    BY <1>1, <1>3, <2>1 DEF LinesOK
<1> QED
  BY <1>1, <1>3, <1>4 DEF LinesOK

LEMMA LinesNone == \A t : LinesOK(<<>>, t)
  BY DEF LinesOK

LEMMA ConcatOf ==
    ASSUME NEW z, NEW a \in Seq(z), NEW b \in Seq(z)
    PROVE  /\ a \o b \in Seq(z) /\ Len(a \o b) = Len(a) + Len(b)
           /\ \A k \in 1 .. Len(a) : (a \o b)[k] = a[k]
           /\ \A k \in 1 .. Len(b) : (a \o b)[Len(a) + k] = b[k]
  OBVIOUS

\* What another process is about to append is at most one line.
LEMMA OneLine ==
    ASSUME NEW z, NEW lines \in Seq(z), NEW ex \in Seq(z), Len(ex) <= 1, ex # <<>>
    PROVE  lines \o ex = Append(lines, ex[1]) /\ ex[1] \in z /\ 1 \in 1 .. Len(ex)
<1>0. ex = <<>> <=> Len(ex) = 0
  OBVIOUS
<1>1. Len(ex) = 1
  <2>1. Len(ex) \in Nat
    OBVIOUS
  <2>2. PICK k : k = Len(ex)
    OBVIOUS
  <2>3. k \in Nat /\ k # 0 /\ k <= 1
    BY <1>0, <2>1, <2>2
  <2>4. k = 1
    BY <2>3
  <2> QED
    BY <2>2, <2>4
<1>2. PICK a, b, n : a = lines \o ex /\ b = Append(lines, ex[1]) /\ n = Len(lines)
  OBVIOUS
<1>3. n \in Nat /\ ex[1] \in z
  BY <1>1, <1>2
<1>4. /\ a \in Seq(z) /\ Len(a) = n + 1 /\ \A i \in 1 .. n : a[i] = lines[i]
      /\ a[n + 1] = ex[1]
  <2>1. /\ a \in Seq(z) /\ Len(a) = Len(lines) + Len(ex)
        /\ \A i \in 1 .. Len(lines) : a[i] = lines[i]
        /\ \A i \in 1 .. Len(ex) : a[Len(lines) + i] = ex[i]
    BY <1>2, ConcatOf
  <2>2. 1 \in 1 .. Len(ex)
    BY <1>1
  <2> QED
    BY <1>1, <1>2, <1>3, <2>1, <2>2
<1>5. /\ b \in Seq(z) /\ Len(b) = n + 1 /\ \A i \in 1 .. n : b[i] = lines[i]
      /\ b[n + 1] = ex[1]
  BY <1>2, <1>3
<1>6. \A i \in 1 .. n + 1 : i \in 1 .. n \/ i = n + 1
  BY <1>3
<1>7. \A i \in 1 .. n + 1 : a[i] = b[i]
  BY <1>4, <1>5, <1>6
<1>8. a = b
  BY <1>4, <1>5, <1>7
<1> QED
  BY <1>1, <1>2, <1>3, <1>8

LEMMA CronConstants ==
    /\ System \subseteq Jobs /\ NoJob \notin Jobs /\ Schedule \in [Jobs -> {"every", "at", "once"}]
    /\ Interval \in Nat /\ Interval > 0 /\ MaxSleep \in Nat /\ MaxSleep > 0
    /\ Slots \in Nat /\ Slots > 0 /\ AtTime \in Nat /\ AtTime > 0 /\ Horizon \in Nat /\ Horizon > 0
    /\ MaxBoots \in Nat /\ MaxOps \in Nat /\ MaxJobs \in Nat
    /\ (\A j \in System : Schedule[j] = "every") /\ Environments \subseteq SUBSET Events
  BY CronAssumption DEF CronAssumption

\* A next run is after the present, or there is none.
LEMMA NextRunIs ==
    ASSUME now \in 1 .. Horizon, NEW j
    PROVE  /\ NextRun(j) \in Nat /\ (NextRun(j) = 0 \/ NextRun(j) > now)
           /\ NewJob(j) \in Job /\ NewJob(j).last = 0 /\ NewJob(j).next = NextRun(j)
<1>1. now \in Nat /\ now <= Horizon /\ now >= 1 /\ Horizon \in Nat
  BY CronConstants
<1>2. NextRun(j) \in Nat /\ (NextRun(j) = 0 \/ NextRun(j) > now)
  BY <1>1, CronConstants DEF NextRun
<1> QED
  BY <1>1, <1>2 DEF NewJob, Job

LEMMA NextWakeType ==
    ASSUME now \in 1 .. Horizon, NEW m, IsTable(m)
    PROVE  NextWake(m) \in 0 .. Horizon + MaxSleep
<1> DEFINE due == {m[j].next : j \in {i \in DOMAIN m : m[i].on /\ m[i].next # 0}}
<1>1. now \in Nat /\ now <= Horizon /\ now >= 1 /\ Horizon \in Nat /\ MaxSleep \in Nat
  BY CronConstants
<1>2. due \subseteq Nat
  BY DEF IsTable, Job
<1>3. CASE due = {}
  <2>1. NextWake(m) = now + MaxSleep
    BY <1>3 DEF NextWake
  <2> QED
    BY <1>1, <2>1
<1>4. CASE due # {}
  <2>1. PICK d : d = Min(due)
    OBVIOUS
  <2>2. d \in Nat
    <3>1. \E x \in due : \A y \in due : x <= y
      BY <1>2, <1>4, LeastOf
    <3>2. Min(due) \in due
      BY <3>1 DEF Min
    <3> QED
      BY <1>2, <2>1, <3>2
  <2>3. CASE d <= now
    BY <1>1, <1>4, <2>1, <2>3 DEF NextWake
  <2>4. CASE ~(d <= now)
    <3>1. PICK g : g = Min({d - now, MaxSleep})
      OBVIOUS
    <3>2. d - now \in Nat
      BY <1>1, <2>2, <2>4
    <3>3. g \in {d - now, MaxSleep} /\ \A y \in {d - now, MaxSleep} : g <= y
      <4>1. \E x \in {d - now, MaxSleep} : \A y \in {d - now, MaxSleep} : x <= y
        BY <1>1, <3>2, LeastOf
      <4> QED
        BY <3>1, <4>1 DEF Min
    <3>4. g \in Nat /\ g <= MaxSleep
      BY <1>1, <3>2, <3>3
    <3>5. NextWake(m) = now + g
      BY <1>4, <2>1, <2>4, <3>1 DEF NextWake
    <3> QED
      BY <1>1, <3>4, <3>5
  <2> QED
    BY <2>3, <2>4
<1> QED
  BY <1>3, <1>4

LEMMA PutIs ==
    ASSUME NEW m, NEW j, NEW job
    PROVE  /\ DOMAIN Put(m, j, job) = DOMAIN m \cup {j} /\ Put(m, j, job)[j] = job
           /\ \A i \in DOMAIN m : i # j => Put(m, j, job)[i] = m[i]
  BY DEF Put

LEMMA DropIs ==
    ASSUME NEW m, NEW S
    PROVE  DOMAIN Drop(m, S) = DOMAIN m \ S /\ \A i \in DOMAIN m \ S : Drop(m, S)[i] = m[i]
  BY DEF Drop

LEMMA PutTable ==
    ASSUME NEW t, NEW m, TableOK(m, t), NEW j \in Jobs, NEW job \in Job, job.last <= t
    PROVE  TableOK(Put(m, j, job), t)
<1>0. PICK p : p = Put(m, j, job)
  OBVIOUS
<1>1. /\ DOMAIN p = DOMAIN m \cup {j} /\ p[j] = job
      /\ \A i \in DOMAIN m : i # j => p[i] = m[i]
  BY <1>0 DEF Put
<1>2. \A i \in DOMAIN m : i \in Jobs /\ m[i] \in Job /\ m[i].last <= t
  BY DEF TableOK, IsTable
<1>3. \A i \in DOMAIN p : i \in Jobs /\ p[i] \in Job /\ p[i].last <= t
  BY <1>1, <1>2
<1> QED
  BY <1>0, <1>3 DEF TableOK, IsTable

LEMMA DropTable ==
    ASSUME NEW t, NEW m, TableOK(m, t), NEW S
    PROVE  TableOK(Drop(m, S), t)
<1>1. PICK p : p = Drop(m, S)
  OBVIOUS
<1>2. DOMAIN p = DOMAIN m \ S /\ \A i \in DOMAIN m \ S : p[i] = m[i]
  BY <1>1, DropIs
<1> QED
  BY <1>1, <1>2 DEF TableOK, IsTable

LEMMA NoTable == \A t : TableOK(<<>>, t)
  BY DEF TableOK, IsTable

LEMMA LaterTable ==
    ASSUME NEW t \in Nat, NEW m, TableOK(m, t)
    PROVE  TableOK(m, t + 1)
  BY CronConstants DEF TableOK, IsTable, Job

LEMMA LaterLines ==
    ASSUME NEW t \in Nat, NEW lines, LinesOK(lines, t)
    PROVE  LinesOK(lines, t + 1)
<1>1. lines \in Seq(LineType)
  BY DEF LinesOK
<1>2. ASSUME NEW i \in 1 .. Len(lines) PROVE lines[i].job.last <= t + 1
  <2>1. lines[i] \in LineType /\ lines[i].job.last <= t
    BY <1>1 DEF LinesOK
  <2>2. lines[i].job.last \in Nat
    BY <2>1, CronConstants DEF LineType, Job
  <2>3. \A a \in Nat : a <= t => a <= t + 1
    OBVIOUS
  <2> QED
    BY <2>1, <2>2, <2>3
<1> QED
  BY <1>1, <1>2 DEF LinesOK

-----------------------------------------------------------------------------
(***************************************************************************)
(* Types, and what goes with what: no task without the service, no timer   *)
(* at work without a task.                                                 *)
(***************************************************************************)
StoreOK ==
    /\ TableOK(mem, now) /\ TableOK(file, now) /\ bad \in BOOLEAN
    /\ LinesOK(log, now) /\ LinesOK(ext, now) /\ Len(ext) <= 1

RunOK(t, n) ==
    /\ t = [cur |-> t.cur, due |-> t.due, at |-> t.at, todo |-> t.todo, lost |-> t.lost]
    /\ t.cur \in Jobs /\ t.at \in 1 .. n
    /\ DOMAIN t.todo \subseteq Jobs \ {t.cur} /\ (\A k \in DOMAIN t.todo : t.todo[k] \in 1 .. n)
    /\ t.lost \subseteq Jobs

TasksOK(ts, n) ==
    /\ ts = [s \in 1 .. Slots |-> ts[s]]
    /\ \A s \in 1 .. Slots : ts[s] = Idle \/ RunOK(ts[s], n)

CountsOK ==
    /\ env \in Environments /\ now \in 1 .. Horizon
    /\ proc \in {"down", "running", "stopping"}
    /\ wake \in 0 .. Horizon + MaxSleep /\ active \in BOOLEAN
    /\ ops \in 0 .. MaxOps /\ boots \in 0 .. MaxBoots

HistoryOK ==
    /\ ran \in [Jobs -> Nat] /\ (\A j \in Jobs : ran[j] <= now)
    /\ acked \subseteq Jobs /\ removed \subseteq Jobs /\ raced \subseteq Jobs /\ torn \subseteq Jobs
    /\ twice \subseteq Jobs /\ met \in BOOLEAN

Shape ==
    /\ proc = "down" => Busy = {} /\ mem = <<>> /\ ~active
    /\ active => Busy # {}
    /\ "corrupt" \notin env => ~bad

CronTypes == StoreOK /\ TasksOK(tasks, now) /\ CountsOK /\ HistoryOK /\ Shape

\* What _load_store makes of table, file and log.
IsLoaded(l) ==
    \/ /\ active
       /\ l.mem = mem /\ l.file = file /\ l.log = log /\ l.bad = bad /\ l.fresh = FALSE
    \/ /\ ~active /\ bad
       /\ l.mem = mem /\ l.file = <<>> /\ l.log = log /\ l.bad = FALSE /\ l.fresh = FALSE
    \/ /\ ~active /\ ~bad
       /\ l.mem = Replayed(file, log) /\ l.bad = FALSE /\ l.fresh = TRUE
       /\ \/ proc = "running" /\ Merged.changed /\ l.file = Replayed(file, log) /\ l.log = <<>>
          \/ ~(proc = "running" /\ Merged.changed) /\ l.file = file /\ l.log = log

\* A second load of a file that was unreadable finds no file.
IsLoadedTwice(l) ==
    /\ proc = "running" /\ ~active /\ bad
    /\ l.mem = Replayed(<<>>, log) /\ l.bad = FALSE /\ l.fresh = TRUE
    /\ \/ l.file = Replayed(<<>>, log) /\ l.log = <<>>
       \/ l.file = <<>> /\ l.log = log

LEMMA LoadedIs == active \in BOOLEAN /\ bad \in BOOLEAN => IsLoaded(Loaded)
<1> SUFFICES ASSUME active \in BOOLEAN, bad \in BOOLEAN PROVE IsLoaded(Loaded)
  OBVIOUS
<1>1. PICK l : l = Loaded
  OBVIOUS
<1>2. Merge(Store).jobs = Replayed(file, log) /\ Merged.changed = Merge(Store).changed
  BY DEF Merged, Merge, Store
<1>3. CASE active
  <2>1. l = Store
    BY <1>1, <1>3 DEF Loaded, Load
  <2> QED
    BY <1>1, <1>3, <2>1 DEF IsLoaded, Store
<1>4. CASE ~active /\ bad
  <2>1. l = [Store EXCEPT !.file = <<>>, !.bad = FALSE]
    BY <1>1, <1>4 DEF Loaded, Load, Store
  <2>2. /\ l.mem = mem /\ l.file = <<>> /\ l.log = log /\ l.bad = FALSE /\ l.fresh = FALSE
    BY <2>1 DEF Store
  <2> QED
    BY <1>1, <1>4, <2>2 DEF IsLoaded
<1>5. CASE ~active /\ ~bad
  <2>1. PICK r, c : r = Replayed(file, log) /\ c = Merged.changed
    OBVIOUS
  <2>2. l = [mem |-> r, bad |-> FALSE, fresh |-> TRUE,
             file |-> IF proc = "running" /\ c THEN r ELSE file,
             log |-> IF proc = "running" /\ c THEN <<>> ELSE log]
    BY <1>1, <1>2, <1>5, <2>1 DEF Loaded, Load, Store
  <2>3. /\ l.mem = r /\ l.bad = FALSE /\ l.fresh = TRUE
        /\ l.file = IF proc = "running" /\ c THEN r ELSE file
        /\ l.log = IF proc = "running" /\ c THEN <<>> ELSE log
    BY <2>2
  <2> QED
    BY <1>1, <1>5, <2>1, <2>3 DEF IsLoaded
<1> QED
  BY <1>3, <1>4, <1>5

\* An empty log changes nothing.
LEMMA ReplayNone == \A m : Replayed(Replayed(m, log), <<>>) = Replayed(m, log)
<1> TAKE m
<1>1. PICK a : a = Replayed(m, log)
  OBVIOUS
<1>2. Replayed(a, <<>>) = [j \in DOMAIN a |-> a[j]]
  BY DEF Replayed
<1>3. a = [j \in DOMAIN a |-> a[j]]
  BY <1>1 DEF Replayed
<1> QED
  BY <1>1, <1>2, <1>3

\* add_job loads twice.
LEMMA LoadedTwice ==
    ASSUME active \in BOOLEAN, bad \in BOOLEAN, proc = "running",
           NEW l, l = [Load(Loaded) EXCEPT !.fresh = @ \/ Loaded.fresh]
    PROVE  IsLoaded(l) \/ IsLoadedTwice(l)
<1>1. PICK f, g, e, m : f = Loaded /\ g = Load(f) /\ m = Merge(f) /\ e = Replayed(file, log)
  OBVIOUS
<1>2. IsLoaded(f) /\ l = [g EXCEPT !.fresh = @ \/ f.fresh]
  BY <1>1, LoadedIs
<1>3. m.jobs = Replayed(f.file, f.log)
  BY <1>1 DEF Merge
<1>4. CASE active
  <2>1. g = f /\ f = Store
    BY <1>1, <1>4 DEF Load, Loaded
  <2>2. l.mem = mem /\ l.file = file /\ l.log = log /\ l.bad = bad /\ l.fresh = FALSE
    BY <1>2, <2>1 DEF Store
  <2> QED
    BY <1>4, <2>2 DEF IsLoaded
<1>5. CASE ~active
  <2>1. /\ f.bad = FALSE
        /\ g = [mem |-> m.jobs, bad |-> FALSE, fresh |-> TRUE,
                file |-> IF m.changed THEN m.jobs ELSE f.file,
                log |-> IF m.changed THEN <<>> ELSE f.log]
    <3>1. f.bad = FALSE
      BY <1>2, <1>5 DEF IsLoaded
    <3> QED
      BY <1>1, <1>5, <3>1 DEF Load
  <2>2. /\ l.mem = m.jobs /\ l.bad = FALSE /\ l.fresh = TRUE
        /\ l.file = IF m.changed THEN m.jobs ELSE f.file
        /\ l.log = IF m.changed THEN <<>> ELSE f.log
    BY <1>2, <2>1
  <2>3. CASE bad
    <3>1. f.file = <<>> /\ f.log = log
      BY <1>2, <1>5, <2>3 DEF IsLoaded
    <3> QED
      BY <1>3, <1>5, <2>2, <2>3, <3>1 DEF IsLoadedTwice
  <2>4. CASE ~bad
    <3>1. \/ Merged.changed /\ f.file = e /\ f.log = <<>>
          \/ ~Merged.changed /\ f.file = file /\ f.log = log
      BY <1>1, <1>2, <1>5, <2>4 DEF IsLoaded
    <3>2. CASE Merged.changed /\ f.file = e /\ f.log = <<>>
      <4>1. m.jobs = e
        BY <1>1, <1>3, <3>2, ReplayNone
      <4>2. l.file = e /\ l.log = <<>> /\ l.mem = e
        BY <2>2, <3>2, <4>1
      <4> QED
        BY <1>1, <1>5, <2>2, <2>4, <3>2, <4>2 DEF IsLoaded
    <3>3. CASE ~Merged.changed /\ f.file = file /\ f.log = log
      <4>1. m.jobs = e
        BY <1>1, <1>3, <3>3
      <4>2. m.changed = Merged.changed
        BY <1>1, <3>3 DEF Merged, Merge, Store
      <4> QED
        BY <1>1, <1>5, <2>2, <2>4, <3>3, <4>1, <4>2 DEF IsLoaded
    <3> QED
      BY <3>1, <3>2, <3>3
  <2> QED
    BY <2>3, <2>4
<1> QED
  BY <1>4, <1>5

LEMMA LoadTypes ==
    ASSUME StoreOK, Shape, active \in BOOLEAN, NEW l, IsLoaded(l) \/ IsLoadedTwice(l)
    PROVE  /\ TableOK(l.mem, now) /\ TableOK(l.file, now) /\ LinesOK(l.log, now)
           /\ l.bad \in BOOLEAN /\ l.fresh \in BOOLEAN
           /\ (l.fresh => ~active) /\ (l.bad => bad) /\ (l.bad => active)
<1>1. TableOK(Replayed(file, log), now) /\ TableOK(Replayed(<<>>, log), now)
  BY ReplayedTable, NoTable DEF StoreOK
<1>2. CASE IsLoaded(l)
  BY <1>1, <1>2, NoTable, LinesNone DEF IsLoaded, StoreOK
<1>3. CASE IsLoadedTwice(l)
  BY <1>1, <1>3, NoTable, LinesNone DEF IsLoadedTwice, StoreOK
<1> QED
  BY <1>2, <1>3

\* The slots with a task.
BusyIn(ts) == {s \in 1 .. Slots : ts[s].cur # NoJob}

LEMMA IdleIs ==
    /\ Idle.cur = NoJob /\ Idle.todo = <<>> /\ Idle.lost = {}
    /\ \A t, n : RunOK(t, n) => t.cur # NoJob /\ t # Idle
  BY CronConstants DEF Idle, RunOK

LEMMA BusyRuns ==
    ASSUME NEW ts, NEW n, TasksOK(ts, n), NEW s \in BusyIn(ts)
    PROVE  s \in 1 .. Slots /\ RunOK(ts[s], n)
  BY IdleIs DEF TasksOK, BusyIn

LEMMA DetachedIs ==
    ASSUME NEW n, TasksOK(tasks, n), NEW l
    PROVE  /\ TasksOK(Detached(l), n) /\ BusyIn(Detached(l)) = Busy
           /\ \A s \in Busy : /\ Detached(l)[s].cur = tasks[s].cur /\ Detached(l)[s].at = tasks[s].at
                              /\ Detached(l)[s].todo = tasks[s].todo
           /\ ~(l.fresh = TRUE /\ Busy # {}) => Detached(l) = tasks
<1>0. PICK d : d = Detached(l)
  OBVIOUS
<1>1. d = [s \in 1 .. Slots |-> IF l.fresh /\ s \in Busy THEN [tasks[s] EXCEPT !.lost = Jobs]
                                                           ELSE tasks[s]]
  BY <1>0 DEF Detached
<1>2. Busy = BusyIn(tasks)
  BY DEF Busy, BusyIn
<1>3. ASSUME NEW s \in Busy
      PROVE  /\ RunOK(d[s], n) /\ d[s].cur = tasks[s].cur /\ d[s].at = tasks[s].at
             /\ d[s].todo = tasks[s].todo
  <2>1. s \in 1 .. Slots /\ RunOK(tasks[s], n)
    BY <1>2, <1>3, BusyRuns
  <2>2. PICK t : t = tasks[s]
    OBVIOUS
  <2>3. d[s] = t \/ d[s] = [t EXCEPT !.lost = Jobs]
    BY <1>1, <2>1, <2>2
  <2>4. t = [cur |-> t.cur, due |-> t.due, at |-> t.at, todo |-> t.todo, lost |-> t.lost]
    BY <2>1, <2>2 DEF RunOK
  <2>5. \/ d[s] = t
        \/ d[s] = [cur |-> t.cur, due |-> t.due, at |-> t.at, todo |-> t.todo, lost |-> Jobs]
    BY <2>3, <2>4
  <2> QED
    BY <2>1, <2>2, <2>5 DEF RunOK
<1>4. \A s \in 1 .. Slots : s \notin Busy => d[s] = tasks[s]
  BY <1>1
<1>5. d = [s \in 1 .. Slots |-> d[s]] /\ tasks = [s \in 1 .. Slots |-> tasks[s]]
  BY <1>1 DEF TasksOK
<1>6. TasksOK(d, n)
  BY <1>3, <1>4, <1>5 DEF TasksOK
<1>7. BusyIn(d) = Busy
  <2>1. \A s \in 1 .. Slots : d[s].cur # NoJob <=> s \in Busy
    BY <1>3, <1>4 DEF Busy
  <2> QED
    BY <2>1 DEF BusyIn, Busy
<1>8. ASSUME ~(l.fresh = TRUE /\ Busy # {}) PROVE d = tasks
  <2>1. \A s \in 1 .. Slots : d[s] = tasks[s]
    BY <1>1, <1>8
  <2>2. PICK e : e = tasks
    OBVIOUS
  <2> QED
    BY <1>5, <2>1, <2>2
<1> QED
  BY <1>0, <1>3, <1>6, <1>7, <1>8

\* A slot gets another task.
LEMMA PutRun ==
    ASSUME NEW n, NEW ts, TasksOK(ts, n), NEW s \in 1 .. Slots, NEW t, RunOK(t, n),
           NEW us, us = [ts EXCEPT ![s] = t]
    PROVE  TasksOK(us, n) /\ BusyIn(us) = BusyIn(ts) \cup {s} /\ s \in BusyIn(us) /\ us[s] = t
<1>1. /\ us = [r \in 1 .. Slots |-> us[r]] /\ us[s] = t
      /\ \A r \in 1 .. Slots : r # s => us[r] = ts[r]
  BY DEF TasksOK
<1>2. TasksOK(us, n)
  BY <1>1 DEF TasksOK
<1> QED
  BY <1>1, <1>2, IdleIs DEF BusyIn

LEMMA PutIdle ==
    ASSUME NEW n, NEW ts, TasksOK(ts, n), NEW s \in 1 .. Slots, NEW us, us = [ts EXCEPT ![s] = Idle]
    PROVE  TasksOK(us, n) /\ BusyIn(us) = BusyIn(ts) \ {s}
<1>1. /\ us = [r \in 1 .. Slots |-> us[r]] /\ us[s] = Idle
      /\ \A r \in 1 .. Slots : r # s => us[r] = ts[r]
  BY DEF TasksOK
<1>2. TasksOK(us, n)
  BY <1>1 DEF TasksOK
<1> QED
  BY <1>1, <1>2, IdleIs DEF BusyIn

-----------------------------------------------------------------------------
(***************************************************************************)
(* Starting the service.                                                   *)
(***************************************************************************)
AtBoot == IF System = {} THEN file ELSE AllRegistered(Replayed(file, log))

LEMMA RegisteredIs ==
    ASSUME now \in 1 .. Horizon, NEW m, NEW j
    PROVE  /\ Registered(m, j) = Put(m, j, Registered(m, j)[j])
           /\ Registered(m, j)[j] = [on |-> TRUE, next |-> NextRun(j),
                                     last |-> IF j \in DOMAIN m THEN m[j].last ELSE 0]
           /\ (j \in DOMAIN m => m[j] \in Job) => Registered(m, j)[j] \in Job
<1>1. PICK x : x = IF j \in DOMAIN m THEN m[j].last ELSE 0
  OBVIOUS
<1>2. PICK e : e = [NewJob(j) EXCEPT !.last = x]
  OBVIOUS
<1>3. e = [on |-> TRUE, next |-> NextRun(j), last |-> x]
  BY <1>2 DEF NewJob
<1>4. Registered(m, j) = Put(m, j, e)
  BY <1>1, <1>2 DEF Registered
<1>5. Registered(m, j)[j] = e
  BY <1>4 DEF Put
<1>6. (j \in DOMAIN m => m[j] \in Job) => e \in Job
  BY <1>1, <1>3, NextRunIs, CronConstants DEF Job
<1> QED
  BY <1>1, <1>3, <1>4, <1>5, <1>6

LEMMA AllRegisteredIs ==
    ASSUME now \in 1 .. Horizon, NEW m, TableOK(m, now)
    PROVE  /\ DOMAIN AllRegistered(m) = DOMAIN m \cup System
           /\ \A j \in System : /\ AllRegistered(m)[j].next = NextRun(j)
                                /\ AllRegistered(m)[j].last = IF j \in DOMAIN m THEN m[j].last ELSE 0
           /\ \A j \in DOMAIN m \ System : AllRegistered(m)[j] = m[j]
           /\ TableOK(AllRegistered(m), now)
<1>1. PICK r : r = AllRegistered(m)
  OBVIOUS
<1>2. DOMAIN r = DOMAIN m \cup System
  BY <1>1 DEF AllRegistered
<1>3. \A j \in System : r[j] = Registered(m, j)[j]
  BY <1>1 DEF AllRegistered
<1>4. \A j \in DOMAIN m \ System : r[j] = m[j]
  BY <1>1 DEF AllRegistered
<1>5. \A j \in DOMAIN m : j \in Jobs /\ m[j] \in Job /\ m[j].last <= now
  BY DEF TableOK, IsTable
<1>6. ASSUME NEW j \in System
      PROVE  /\ r[j] \in Job /\ r[j].next = NextRun(j)
             /\ r[j].last = IF j \in DOMAIN m THEN m[j].last ELSE 0
  <2>1. PICK e, x : e = Registered(m, j)[j] /\ x = IF j \in DOMAIN m THEN m[j].last ELSE 0
    OBVIOUS
  <2>2. e = [on |-> TRUE, next |-> NextRun(j), last |-> x] /\ e \in Job
    BY <1>5, <2>1, RegisteredIs
  <2>3. r[j] = e
    BY <1>3, <2>1
  <2>4. e.next = NextRun(j) /\ e.last = x
    BY <2>2
  <2> QED
    BY <2>1, <2>2, <2>3, <2>4
<1>7. ASSUME NEW j \in DOMAIN r PROVE j \in Jobs /\ r[j] \in Job /\ r[j].last <= now
  <2>1. 0 <= now
    OBVIOUS
  <2> QED
    BY <1>2, <1>4, <1>5, <1>6, <2>1, CronConstants
<1> QED
  BY <1>1, <1>2, <1>4, <1>6, <1>7 DEF TableOK, IsTable

LEMMA RestartedIs ==
    ASSUME now \in 1 .. Horizon, NEW m, TableOK(m, now)
    PROVE  /\ DOMAIN Restarted(m) = DOMAIN m /\ TableOK(Restarted(m), now)
           /\ \A j \in DOMAIN m :
                /\ Restarted(m)[j].last = m[j].last /\ Restarted(m)[j].on = m[j].on
                /\ m[j].on => \/ Restarted(m)[j].next = NextRun(j)
                              \/ /\ j \in System /\ Restarted(m)[j].next = now
                                 /\ m[j].last = 0 \/ m[j].last + Interval <= now
<1>1. PICK r : r = Restarted(m)
  OBVIOUS
<1>2. DOMAIN r = DOMAIN m
  BY <1>1 DEF Restarted
<1>3. ASSUME NEW j \in DOMAIN m
      PROVE  /\ j \in Jobs /\ r[j] \in Job /\ r[j].last = m[j].last /\ r[j].on = m[j].on
             /\ r[j].last <= now
             /\ m[j].on => \/ r[j].next = NextRun(j)
                           \/ /\ j \in System /\ r[j].next = now
                              /\ m[j].last = 0 \/ m[j].last + Interval <= now
  <2>1. j \in Jobs /\ m[j] \in Job /\ m[j].last <= now
    BY DEF TableOK, IsTable
  <2>2. PICK e : e = m[j]
    OBVIOUS
  <2>3. e = [on |-> e.on, next |-> e.next, last |-> e.last] /\ e.on \in BOOLEAN
        /\ e.last \in 0 .. Horizon
    BY <2>1, <2>2 DEF Job
  <2>4. CASE ~e.on
    <3>1. r[j] = e
      BY <1>1, <2>2, <2>4 DEF Restarted
    <3> QED
      BY <2>1, <2>2, <2>4, <3>1
  <2>5. CASE e.on
    <3>1. PICK x : x = IF j \in System /\ (e.last = 0 \/ e.last + Interval <= now)
                       THEN now ELSE NextRun(j)
      OBVIOUS
    <3>2. r[j] = [e EXCEPT !.next = x]
      BY <1>1, <2>2, <2>5, <3>1 DEF Restarted
    <3>3. r[j] = [on |-> e.on, next |-> x, last |-> e.last]
      BY <2>3, <3>2
    <3>4. x \in Nat
      BY <3>1, NextRunIs, CronConstants
    <3>5. r[j] \in Job
      BY <2>3, <3>3, <3>4 DEF Job
    <3> QED
      BY <2>1, <2>2, <3>1, <3>3, <3>5
  <2> QED
    BY <2>3, <2>4, <2>5
<1> QED
  BY <1>1, <1>2, <1>3 DEF TableOK, IsTable

LEMMA BootIs ==
    ASSUME CronTypes, Boot
    PROVE  /\ TableOK(AtBoot, now) /\ TableOK(Replayed(AtBoot, log), now)
           /\ mem' = Restarted(Replayed(AtBoot, log)) /\ file' = mem'
           /\ log' = <<>> \/ (log' = log /\ Removals(log))
<1>1. PICK a, c : c = Merge([file |-> AtBoot, log |-> log]) /\ a = Replayed(AtBoot, log)
  OBVIOUS
<1>2. Merged.jobs = Replayed(file, log)
  BY DEF Merged, Merge, Store
<1>3. c.jobs = a
  BY <1>1 DEF Merge
<1>4. /\ mem' = Restarted(c.jobs) /\ file' = mem' /\ log' = IF c.changed THEN <<>> ELSE log
  BY <1>1, <1>2 DEF Boot, AtBoot
<1>5. ~c.changed => Removals(log)
  <2>1. DOMAIN log = 1 .. Len(log)
    BY DEF CronTypes, StoreOK, LinesOK
  <2>2. c.changed = \E i \in DOMAIN log : log[i].op # "del" \/ log[i].id \in DOMAIN AtBoot
    BY <1>1 DEF Merge
  <2> QED
    BY <2>1, <2>2 DEF Removals
<1>6. TableOK(file, now) /\ LinesOK(log, now) /\ now \in 1 .. Horizon
  BY DEF CronTypes, StoreOK, CountsOK
<1>7. TableOK(AtBoot, now)
  <2>1. TableOK(AllRegistered(Replayed(file, log)), now)
    BY <1>6, ReplayedTable, AllRegisteredIs
  <2> QED
    BY <1>6, <2>1 DEF AtBoot
<1>8. TableOK(a, now)
  BY <1>1, <1>6, <1>7, ReplayedTable
<1> QED
  BY <1>1, <1>3, <1>4, <1>5, <1>7, <1>8

-----------------------------------------------------------------------------
(***************************************************************************)
(* The types are kept.                                                     *)
(***************************************************************************)
LEMMA BusyNext == Busy = BusyIn(tasks) /\ Busy' = BusyIn(tasks')
  BY DEF Busy, BusyIn

LEMMA AllIdle ==
    \A n : /\ TasksOK([s \in 1 .. Slots |-> Idle], n)
           /\ BusyIn([s \in 1 .. Slots |-> Idle]) = {}
<1> TAKE n
<1>1. PICK d : d = [s \in 1 .. Slots |-> Idle]
  OBVIOUS
<1>2. d = [s \in 1 .. Slots |-> d[s]] /\ \A s \in 1 .. Slots : d[s] = Idle
  BY <1>1
<1>3. TasksOK(d, n)
  BY <1>2 DEF TasksOK
<1>4. BusyIn(d) = {}
  BY <1>2, IdleIs DEF BusyIn
<1> QED
  BY <1>1, <1>3, <1>4

LEMMA Zeros ==
    0 \in 0 .. Horizon + MaxSleep /\ 0 \in 0 .. MaxOps /\ 0 \in 0 .. MaxBoots
  BY CronConstants

LEMMA TypesInit == CronInit => CronTypes
<1> SUFFICES ASSUME CronInit PROVE CronTypes
  OBVIOUS
<1>1. now \in 1 .. Horizon /\ now = 1
  BY CronConstants DEF CronInit
<1>2. PICK S \in SUBSET (Jobs \ System) : file = [j \in S |-> NewJob(j)] /\ acked = S
  BY DEF CronInit
<1>3. TableOK(file, now)
  <2>1. DOMAIN file = S /\ \A j \in S : file[j] = NewJob(j)
    BY <1>2
  <2>2. \A j \in S : NewJob(j) \in Job /\ NewJob(j).last = 0
    BY <1>1, NextRunIs
  <2> QED
    BY <1>1, <1>2, <2>1, <2>2 DEF TableOK, IsTable
<1>4. StoreOK
  <2>1. mem = <<>> /\ log = <<>> /\ ext = <<>> /\ bad = FALSE
    BY DEF CronInit
  <2>2. Len(ext) <= 1
    BY <2>1
  <2> QED
    BY <1>3, <2>1, <2>2, NoTable, LinesNone DEF StoreOK
<1>5. TasksOK(tasks, now) /\ Busy = {}
  BY AllIdle, BusyNext DEF CronInit
<1>6. CountsOK
  BY <1>1, Zeros DEF CronInit, CountsOK
<1>7. HistoryOK
  <2>1. ran = [j \in Jobs |-> 0] /\ \A j \in Jobs : ran[j] <= now
    BY <1>1 DEF CronInit
  <2>2. ran \in [Jobs -> Nat]
    BY <2>1
  <2> QED
    BY <1>2, <2>1, <2>2 DEF CronInit, HistoryOK
<1>8. Shape
  BY <1>5 DEF CronInit, Shape
<1> QED
  BY <1>4, <1>5, <1>6, <1>7, <1>8 DEF CronTypes

LEMMA TypesTick == CronTypes /\ Tick => CronTypes'
<1> SUFFICES ASSUME CronTypes, Tick PROVE CronTypes'
  OBVIOUS
<1>1. /\ now' = now + 1 /\ now' \in 1 .. Horizon /\ now \in Nat
      /\ UNCHANGED <<env, proc, mem, file, bad, log, wake, tasks, active, ext, ops, boots,
                     acked, removed, raced, torn, met, ran, twice>>
  BY CronConstants DEF Tick, CronTypes, CountsOK, disk, timer, history
<1>2. StoreOK'
  <2>1. /\ TableOK(mem, now + 1) /\ TableOK(file, now + 1)
        /\ LinesOK(log, now + 1) /\ LinesOK(ext, now + 1)
    BY <1>1, LaterTable, LaterLines DEF CronTypes, StoreOK
  <2>2. /\ TableOK(mem, now)' /\ TableOK(file, now)' /\ LinesOK(log, now)' /\ LinesOK(ext, now)'
    BY <1>1, <2>1 DEF TableOK, LinesOK, IsTable
  <2> QED
    BY <1>1, <2>2 DEF CronTypes, StoreOK
<1>3. TasksOK(tasks, now)'
  <2>1. \A s \in 1 .. Slots : RunOK(tasks[s], now) => RunOK(tasks[s], now + 1)
    BY <1>1 DEF RunOK
  <2>2. TasksOK(tasks, now + 1)
    BY <2>1 DEF CronTypes, TasksOK
  <2> QED
    BY <1>1, <2>2
<1>4. CountsOK' /\ HistoryOK'
  BY <1>1 DEF CronTypes, CountsOK, HistoryOK
<1>5. Shape'
  BY <1>1 DEF CronTypes, Shape, Busy
<1> QED
  BY <1>2, <1>3, <1>4, <1>5 DEF CronTypes

LEMMA TypesBoot == CronTypes /\ Boot => CronTypes'
<1> SUFFICES ASSUME CronTypes, Boot PROVE CronTypes'
  OBVIOUS
<1>1. /\ proc = "down" /\ proc' = "running" /\ boots' \in 0 .. MaxBoots /\ wake' = NextWake(mem')
      /\ UNCHANGED <<env, now, bad, tasks, active, ext, ops, acked, removed, raced, torn, met,
                     ran, twice>>
  BY CronConstants DEF Boot, CronTypes, CountsOK, history
<1>2. TableOK(mem', now) /\ file' = mem' /\ LinesOK(log', now) /\ now \in 1 .. Horizon
  <2>1. now \in 1 .. Horizon /\ LinesOK(log, now)
    BY DEF CronTypes, CountsOK, StoreOK
  <2> QED
    BY <2>1, BootIs, RestartedIs, LinesNone
<1>3. wake' \in 0 .. Horizon + MaxSleep
  BY <1>1, <1>2, NextWakeType DEF TableOK
<1>4. StoreOK'
  BY <1>1, <1>2 DEF CronTypes, StoreOK
<1>5. CountsOK' /\ HistoryOK' /\ TasksOK(tasks, now)'
  BY <1>1, <1>3 DEF CronTypes, CountsOK, HistoryOK
<1>6. Shape'
  BY <1>1 DEF CronTypes, Shape, Busy
<1> QED
  BY <1>4, <1>5, <1>6 DEF CronTypes

LEMMA TypesStop == CronTypes /\ Stop => CronTypes'
<1> SUFFICES ASSUME CronTypes, Stop PROVE CronTypes'
  OBVIOUS
<1>1. /\ proc' = "stopping" /\ wake' \in 0 .. Horizon + MaxSleep
      /\ UNCHANGED <<env, now, mem, file, bad, log, tasks, active, ext, ops, boots, acked,
                     removed, raced, torn, met, ran, twice>>
  BY CronConstants DEF Stop, disk, history
<1>2. StoreOK' /\ CountsOK' /\ HistoryOK' /\ TasksOK(tasks, now)'
  BY <1>1 DEF CronTypes, CountsOK, HistoryOK, StoreOK
<1>3. Shape'
  BY <1>1 DEF CronTypes, Shape, Busy
<1> QED
  BY <1>2, <1>3 DEF CronTypes

LEMMA TypesGone == CronTypes /\ (Exit \/ Crash \/ CrashInMerge) => CronTypes'
<1> SUFFICES ASSUME CronTypes, Exit \/ Crash \/ CrashInMerge PROVE CronTypes'
  OBVIOUS
<1>1. /\ proc' = "down" /\ mem' = <<>> /\ wake' = 0 /\ active' = FALSE
      /\ tasks' = [s \in 1 .. Slots |-> Idle]
      /\ UNCHANGED <<env, now, file, bad, ext, ops, boots, acked, removed, raced, met, ran, twice>>
      /\ \/ UNCHANGED <<log, torn>>
         \/ log' = <<>> /\ torn' = torn \cup {log[i].id : i \in DOMAIN log}
  BY DEF Exit, Crash, CrashInMerge, Gone, disk, history
<1>2. StoreOK'
  BY <1>1, LinesNone, NoTable DEF CronTypes, StoreOK
<1>3. CountsOK'
  BY <1>1, Zeros DEF CronTypes, CountsOK
<1>4. torn' \subseteq Jobs
  <2>1. \A i \in DOMAIN log : log[i].id \in Jobs
    <3>1. log \in Seq(LineType)
      BY DEF CronTypes, StoreOK, LinesOK
    <3>2. \A i \in DOMAIN log : log[i] \in LineType
      BY <3>1
    <3> QED
      BY <3>2 DEF LineType
  <2> QED
    BY <1>1, <2>1 DEF CronTypes, HistoryOK
<1>5. HistoryOK'
  BY <1>1, <1>4 DEF CronTypes, HistoryOK
<1>6. TasksOK(tasks, now)' /\ Busy' = {}
  BY <1>1, AllIdle, BusyNext
<1>7. Shape'
  BY <1>1, <1>6 DEF CronTypes, Shape
<1> QED
  BY <1>2, <1>3, <1>5, <1>6, <1>7 DEF CronTypes

LEMMA TypesCorrupt == CronTypes /\ Corrupt => CronTypes'
<1> SUFFICES ASSUME CronTypes, Corrupt PROVE CronTypes'
  OBVIOUS
<1>1. /\ bad' = TRUE /\ "corrupt" \in env
      /\ UNCHANGED <<env, now, proc, mem, file, log, wake, tasks, active, ext, ops, boots, acked,
                     removed, raced, torn, met, ran, twice>>
  BY DEF Corrupt, timer, history
<1>2. StoreOK' /\ CountsOK' /\ HistoryOK' /\ TasksOK(tasks, now)'
  BY <1>1 DEF CronTypes, CountsOK, HistoryOK, StoreOK
<1>3. Shape'
  BY <1>1 DEF CronTypes, Shape, Busy
<1> QED
  BY <1>2, <1>3 DEF CronTypes

-----------------------------------------------------------------------------
(***************************************************************************)
(* What the steps of the timer do.                                         *)
(***************************************************************************)
Loading(l) ==
    /\ IsLoaded(l) \/ IsLoadedTwice(l)
    /\ TableOK(l.mem, now) /\ TableOK(l.file, now) /\ LinesOK(l.log, now)
    /\ l.bad \in BOOLEAN /\ l.fresh \in BOOLEAN
    /\ (l.fresh => ~active) /\ (l.bad => bad) /\ (l.bad => active)

LEMMA LoadingIs ==
    ASSUME CronTypes, NEW l, IsLoaded(l) \/ IsLoadedTwice(l)
    PROVE  Loading(l)
  BY LoadTypes DEF CronTypes, CountsOK, Loading

LEMMA LoadedLoads == CronTypes => IsLoaded(Loaded) /\ Loading(Loaded)
  BY LoadedIs, LoadingIs DEF CronTypes, CountsOK, StoreOK

\* The table is saved, unless the disk fails.
Saves(m, l) ==
    /\ mem' = m /\ log' = l.log /\ active' = FALSE
    /\ \/ file' = m /\ bad' = FALSE
       \/ "disk" \in env /\ file' = l.file /\ bad' = l.bad

LEMMA EndOfTimerIs ==
    ASSUME NEW m, NEW l, NEW w, EndOfTimer(m, l, w)
    PROVE  Saves(m, l) /\ (wake' = NextWake(m) \/ wake' = w)
  BY DEF EndOfTimer, Saves

TimerIdle(l) ==
    /\ Saves(l.mem, l) /\ tasks' = Detached(l) /\ wake' \in 0 .. Horizon + MaxSleep
    /\ UNCHANGED <<ran, twice>>

RunOf(m, j) ==
    [cur |-> j, due |-> m[j].next, at |-> now,
     todo |-> [k \in Due(m) \ {j} |-> m[k].next], lost |-> {}]

TimerRuns(l, j, s) ==
    /\ s \in (1 .. Slots) \ Busy /\ j \in Due(l.mem)
    /\ tasks' = [Detached(l) EXCEPT ![s] = RunOf(l.mem, j)]
    /\ Begins(j, l.mem[j].next)
    /\ active' = TRUE /\ wake' = 0
    /\ mem' = l.mem /\ file' = l.file /\ bad' = l.bad /\ log' = l.log

LEMMA OnTimerIs ==
    ASSUME CronTypes, OnTimer
    PROVE  /\ proc = "running" /\ wake # 0
           /\ UNCHANGED <<env, now, proc, ext, ops, boots, acked, removed, raced, torn, met>>
           /\ \E l : /\ IsLoaded(l) /\ Loading(l)
                     /\ TimerIdle(l) \/ \E j, s : TimerRuns(l, j, s)
<1>1. PICK l : l = Loaded
  OBVIOUS
<1>2. IsLoaded(l) /\ Loading(l)
  BY <1>1, LoadedLoads
<1>3. \/ /\ EndOfTimer(l.mem, l, 0) /\ tasks' = Detached(l) /\ UNCHANGED <<ran, twice>>
      \/ \E j \in Due(l.mem) : BeginRun(l, j)
  BY <1>1 DEF OnTimer
<1>4. CASE /\ EndOfTimer(l.mem, l, 0) /\ tasks' = Detached(l) /\ UNCHANGED <<ran, twice>>
  <2>1. NextWake(l.mem) \in 0 .. Horizon + MaxSleep
    BY <1>2, NextWakeType DEF Loading, TableOK, CronTypes, CountsOK
  <2>2. TimerIdle(l)
    BY <1>4, <2>1, EndOfTimerIs, Zeros DEF TimerIdle
  <2> QED
    BY <1>2, <2>2 DEF OnTimer
<1>5. CASE \E j \in Due(l.mem) : BeginRun(l, j)
  <2>1. PICK j \in Due(l.mem) : BeginRun(l, j)
    BY <1>5
  <2>2. PICK s : s = Min((1 .. Slots) \ Busy)
    OBVIOUS
  <2>3. s \in (1 .. Slots) \ Busy
    <3>1. (1 .. Slots) \ Busy # {} /\ (1 .. Slots) \ Busy \subseteq Nat
      BY <2>1 DEF BeginRun, Busy
    <3>2. \E x \in (1 .. Slots) \ Busy : \A y \in (1 .. Slots) \ Busy : x <= y
      BY <3>1, LeastOf
    <3> QED
      BY <2>2, <3>2 DEF Min
  <2>4. TimerRuns(l, j, s)
    BY <2>1, <2>2, <2>3 DEF BeginRun, TimerRuns, RunOf
  <2> QED
    BY <1>2, <2>4 DEF OnTimer
<1> QED
  BY <1>3, <1>4, <1>5

LEMMA DueIs ==
    ASSUME now \in 1 .. Horizon, NEW m, TableOK(m, now), NEW j \in Due(m)
    PROVE  /\ j \in Jobs /\ j \in DOMAIN m /\ m[j].on /\ m[j].next # 0 /\ m[j].next \in 1 .. now
           /\ RunOK(RunOf(m, j), now) /\ m[j] \in Job
<1>1. \A k \in Due(m) : /\ k \in Jobs /\ k \in DOMAIN m /\ m[k] \in Job
                        /\ m[k].on /\ m[k].next # 0 /\ m[k].next <= now
  BY DEF Due, TableOK, IsTable
<1>2. \A k \in Due(m) : m[k].next \in 1 .. now
  BY <1>1 DEF Job
<1>3. RunOK(RunOf(m, j), now)
  BY <1>1, <1>2 DEF RunOf, RunOK
<1> QED
  BY <1>1, <1>2, <1>3

\* A task changes the job it ran.
Has(t) == t.cur \in DOMAIN mem /\ t.cur \notin t.lost

Rescheduled(t) ==
    IF Has(t) THEN [mem EXCEPT ![t.cur].next = NextRun(t.cur), ![t.cur].last = t.at] ELSE mem

\* m is the table when task t has run its job.
Ran(m, t) ==
    /\ TableOK(m, now) /\ DOMAIN m = DOMAIN mem
    /\ \A k \in DOMAIN mem : k # t.cur \/ ~Has(t) => m[k] = mem[k]
    /\ Has(t) => /\ m[t.cur].last = t.at
                 /\ ~m[t.cur].on \/ m[t.cur].next = NextRun(t.cur)

LEMMA RescheduledIs ==
    ASSUME CronTypes, NEW t, RunOK(t, now)
    PROVE  Ran(Rescheduled(t), t)
<1>1. PICK m, j, x, y : m = Rescheduled(t) /\ j = t.cur /\ x = NextRun(j) /\ y = t.at
  OBVIOUS
<1>2. /\ now \in 1 .. Horizon /\ TableOK(mem, now)
      /\ \A k \in DOMAIN mem : k \in Jobs /\ mem[k] \in Job /\ mem[k].last <= now
  BY DEF CronTypes, CountsOK, StoreOK, TableOK, IsTable
<1>3. x \in Nat /\ y \in 0 .. Horizon /\ y <= now
  BY <1>1, <1>2, NextRunIs, CronConstants DEF RunOK
<1>4. CASE ~Has(t)
  BY <1>1, <1>2, <1>4 DEF Rescheduled, Ran
<1>5. CASE Has(t)
  <2>1. m = [mem EXCEPT ![j].next = x, ![j].last = y] /\ j \in DOMAIN mem
    BY <1>1, <1>5 DEF Rescheduled, Has
  <2>2. PICK e : e = mem[j]
    OBVIOUS
  <2>3. e = [on |-> e.on, next |-> e.next, last |-> e.last] /\ e.on \in BOOLEAN
    BY <1>2, <2>1, <2>2 DEF Job
  <2>4. DOMAIN m = DOMAIN mem /\ \A k \in DOMAIN mem : k # j => m[k] = mem[k]
    BY <2>1
  <2>5. m[j] = [[e EXCEPT !.next = x] EXCEPT !.last = y]
    BY <2>1, <2>2
  <2>6. m[j] = [on |-> e.on, next |-> x, last |-> y]
    BY <2>3, <2>5
  <2>7. m[j] \in Job /\ m[j].last = y /\ m[j].next = x
    BY <1>3, <2>3, <2>6 DEF Job
  <2>8. TableOK(m, now)
    BY <1>2, <1>3, <2>4, <2>7 DEF TableOK, IsTable
  <2> QED
    BY <1>1, <1>5, <2>4, <2>7, <2>8 DEF Ran
<1> QED
  BY <1>4, <1>5

LEMMA FinishedIs ==
    ASSUME CronTypes, NEW t, RunOK(t, now)
    PROVE  /\ Schedule[t.cur] = "once" => Finished(t) = Drop(mem, {t.cur})
           /\ Schedule[t.cur] # "once" => Ran(Finished(t), t)
           /\ TableOK(Finished(t), now)
<1>1. PICK m, j, y, c : m = Finished(t) /\ j = t.cur /\ y = t.at /\ c = Schedule[j]
  OBVIOUS
<1>2. /\ now \in 1 .. Horizon /\ TableOK(mem, now)
      /\ \A k \in DOMAIN mem : k \in Jobs /\ mem[k] \in Job /\ mem[k].last <= now
  BY DEF CronTypes, CountsOK, StoreOK, TableOK, IsTable
<1>3. y \in 0 .. Horizon /\ y <= now /\ c \in {"every", "at", "once"}
  BY <1>1, <1>2, CronConstants DEF RunOK
<1>4. CASE c = "once"
  <2>1. m = Drop(mem, {j})
    BY <1>1, <1>4 DEF Finished
  <2> QED
    BY <1>1, <1>2, <1>4, <2>1, DropTable
<1>5. CASE c = "every" \/ (c = "at" /\ ~Has(t))
  <2>1. m = Rescheduled(t) \/ (~Has(t) /\ m = mem)
    BY <1>1, <1>5 DEF Finished, Rescheduled, Has
  <2>2. Ran(m, t)
    BY <1>1, <1>2, <2>1, RescheduledIs DEF Ran
  <2> QED
    BY <1>1, <1>5, <2>2 DEF Ran
<1>6. CASE c = "at" /\ Has(t)
  <2>1. m = [mem EXCEPT ![j] = [on |-> FALSE, next |-> 0, last |-> y]] /\ j \in DOMAIN mem
    BY <1>1, <1>6 DEF Finished, Has
  <2>2. /\ DOMAIN m = DOMAIN mem /\ \A k \in DOMAIN mem : k # j => m[k] = mem[k]
        /\ m[j] = [on |-> FALSE, next |-> 0, last |-> y]
    BY <2>1
  <2>3. m[j] \in Job /\ m[j].last = y /\ ~m[j].on
    BY <1>3, <2>2 DEF Job
  <2>4. TableOK(m, now)
    BY <1>2, <1>3, <2>2, <2>3 DEF TableOK, IsTable
  <2>5. Ran(m, t)
    BY <1>1, <1>6, <2>2, <2>3, <2>4 DEF Ran
  <2> QED
    BY <1>1, <1>6, <2>5 DEF Ran
<1> QED
  BY <1>3, <1>4, <1>5, <1>6

\* The task of slot s goes on to job k.
GoesOn(s, t, m, k) ==
    /\ k \in DOMAIN t.todo
    /\ tasks' = [tasks EXCEPT ![s] = [cur |-> k, due |-> t.todo[k], at |-> now,
                                      todo |-> Drop(t.todo, {k}), lost |-> t.lost]]
    /\ Begins(k, t.todo[k])
    /\ mem' = m
    /\ UNCHANGED <<file, bad, log, wake, active>>

IsOver(s, m) ==
    /\ tasks' = [tasks EXCEPT ![s] = Idle] /\ Saves(m, Store)
    /\ wake' \in 0 .. Horizon + MaxSleep
    /\ UNCHANGED <<ran, twice>>

LEMMA FinishIs ==
    ASSUME CronTypes, NEW s, FinishJob(s)
    PROVE  /\ proc = "running" /\ s \in Busy /\ RunOK(tasks[s], now)
           /\ UNCHANGED <<env, now, proc, ext, ops, boots, removed, raced, torn, met>>
           /\ acked' = IF Schedule[tasks[s].cur] = "once" THEN acked \ {tasks[s].cur} ELSE acked
           /\ \/ IsOver(s, Finished(tasks[s]))
              \/ \E k : GoesOn(s, tasks[s], Finished(tasks[s]), k)
<1>1. /\ proc = "running" /\ s \in Busy
      /\ UNCHANGED <<env, now, proc, ext, ops, boots, removed, raced, torn, met>>
  BY DEF FinishJob
<1>2. PICK t, m : t = tasks[s] /\ m = Finished(t)
  OBVIOUS
<1>3. RunOK(t, now)
  BY <1>1, <1>2, BusyRuns, BusyNext DEF CronTypes
<1>4. acked' = IF Schedule[tasks[s].cur] = "once" THEN acked \ {tasks[s].cur} ELSE acked
  BY DEF FinishJob
<1>5. \/ /\ tasks' = [tasks EXCEPT ![s] = Idle] /\ EndOfTimer(m, Store, wake)
         /\ UNCHANGED <<ran, twice>>
      \/ \E k \in DOMAIN t.todo :
            /\ tasks' = [tasks EXCEPT ![s] = GoneOn(t, k)]
            /\ Begins(k, t.todo[k])
            /\ mem' = m
            /\ UNCHANGED <<file, bad, log, wake, active>>
  BY <1>2 DEF FinishJob, disk
<1>6. CASE /\ tasks' = [tasks EXCEPT ![s] = Idle] /\ EndOfTimer(m, Store, wake)
           /\ UNCHANGED <<ran, twice>>
  <2>1. TableOK(m, now)
    BY <1>2, <1>3, FinishedIs
  <2>2. NextWake(m) \in 0 .. Horizon + MaxSleep /\ wake \in 0 .. Horizon + MaxSleep
    BY <2>1, NextWakeType DEF TableOK, CronTypes, CountsOK
  <2>3. IsOver(s, m)
    BY <1>6, <2>2, EndOfTimerIs DEF IsOver
  <2> QED
    BY <1>1, <1>2, <1>3, <1>4, <2>3
<1>7. CASE \E k \in DOMAIN t.todo :
            /\ tasks' = [tasks EXCEPT ![s] = GoneOn(t, k)]
            /\ Begins(k, t.todo[k])
            /\ mem' = m
            /\ UNCHANGED <<file, bad, log, wake, active>>
  <2>1. PICK k \in DOMAIN t.todo :
            /\ tasks' = [tasks EXCEPT ![s] = GoneOn(t, k)]
            /\ Begins(k, t.todo[k])
            /\ mem' = m
            /\ UNCHANGED <<file, bad, log, wake, active>>
    BY <1>7
  <2>2. PICK x, y : x = t.todo[k] /\ y = Drop(t.todo, {k})
    OBVIOUS
  <2>3. GoneOn(t, k) = [cur |-> k, due |-> x, at |-> now, todo |-> y, lost |-> t.lost]
    <3>1. t = [cur |-> t.cur, due |-> t.due, at |-> t.at, todo |-> t.todo, lost |-> t.lost]
      BY <1>3 DEF RunOK
    <3>2. GoneOn(t, k) = [t EXCEPT !.cur = k, !.due = x, !.at = now, !.todo = y]
      BY <2>2 DEF GoneOn
    <3> QED
      BY <3>1, <3>2
  <2>4. GoesOn(s, t, m, k)
    BY <2>1, <2>2, <2>3 DEF GoesOn
  <2> QED
    BY <1>1, <1>2, <1>3, <1>4, <2>4
<1> QED
  BY <1>5, <1>6, <1>7

LEMMA CancelIs ==
    ASSUME CronTypes, NEW s, CancelJob(s)
    PROVE  /\ proc = "stopping" /\ s \in Busy /\ RunOK(tasks[s], now)
           /\ Ran(mem', tasks[s]) /\ file' = mem' /\ bad' = FALSE /\ active' = FALSE
           /\ tasks' = [tasks EXCEPT ![s] = Idle]
           /\ UNCHANGED <<env, now, proc, log, wake, ext, ops, boots, acked, removed, raced, torn,
                          met, ran, twice>>
<1>1. /\ proc = "stopping" /\ s \in Busy /\ bad' = FALSE /\ active' = FALSE
      /\ tasks' = [tasks EXCEPT ![s] = Idle]
      /\ UNCHANGED <<env, now, proc, log, wake, ext, ops, boots, acked, removed, raced, torn,
                     met, ran, twice>>
  BY DEF CancelJob, history
<1>2. mem' = Rescheduled(tasks[s]) /\ file' = mem'
  BY DEF CancelJob, Rescheduled, Has
<1>3. RunOK(tasks[s], now)
  BY <1>1, BusyRuns, BusyNext DEF CronTypes
<1> QED
  BY <1>1, <1>2, <1>3, RescheduledIs

\* The history when job j begins.
LEMMA BeginsTypes ==
    ASSUME CronTypes, NEW j \in Jobs, NEW x \in 1 .. now, Begins(j, x)
    PROVE  /\ ran' \in [Jobs -> Nat] /\ ran'[j] = x
           /\ (\A k \in Jobs : k # j => ran'[k] = ran[k]) /\ (\A k \in Jobs : ran'[k] <= now)
           /\ twice' \subseteq Jobs
           /\ \A k \in twice' : k \in twice \/ (k = j /\ x <= ran[j])
<1>1. ran \in [Jobs -> Nat] /\ now \in Nat /\ (\A k \in Jobs : ran[k] <= now) /\ twice \subseteq Jobs
  BY CronConstants DEF CronTypes, HistoryOK, CountsOK
<1>2. ran' = [ran EXCEPT ![j] = x] /\ twice' = IF x <= ran[j] THEN twice \cup {j} ELSE twice
  BY DEF Begins
<1>3. x \in Nat /\ x <= now
  BY <1>1
<1>4. ran' \in [Jobs -> Nat] /\ ran'[j] = x /\ \A k \in Jobs : k # j => ran'[k] = ran[k]
  BY <1>1, <1>2, <1>3
<1> QED
  BY <1>1, <1>2, <1>3, <1>4

LEMMA SavesTypes ==
    ASSUME CronTypes, NEW m, TableOK(m, now), NEW l, Saves(m, l),
           TableOK(l.file, now), LinesOK(l.log, now), l.bad \in BOOLEAN, l.bad => bad
    PROVE  /\ TableOK(mem', now) /\ TableOK(file', now) /\ LinesOK(log', now) /\ bad' \in BOOLEAN
           /\ bad' => bad
  BY DEF Saves

LEMMA TypesTimer == CronTypes /\ OnTimer => CronTypes'
<1> SUFFICES ASSUME CronTypes, OnTimer PROVE CronTypes'
  OBVIOUS
<1>1. /\ proc = "running"
      /\ UNCHANGED <<env, now, proc, ext, ops, boots, acked, removed, raced, torn, met>>
  BY OnTimerIs
<1>2. PICK l : IsLoaded(l) /\ Loading(l) /\ (TimerIdle(l) \/ \E j, s : TimerRuns(l, j, s))
  BY OnTimerIs
<1>3. /\ now \in 1 .. Horizon /\ TasksOK(Detached(l), now) /\ BusyIn(Detached(l)) = Busy
      /\ TableOK(l.mem, now) /\ TableOK(l.file, now) /\ LinesOK(l.log, now)
      /\ l.bad \in BOOLEAN /\ (l.bad => bad)
  BY <1>2, DetachedIs DEF CronTypes, CountsOK, Loading
<1>4. CASE TimerIdle(l)
  <2>1. /\ TableOK(mem', now) /\ TableOK(file', now) /\ LinesOK(log', now) /\ bad' \in BOOLEAN
        /\ (bad' => bad) /\ active' = FALSE
    BY <1>3, <1>4, SavesTypes DEF TimerIdle, Saves
  <2>2. StoreOK' /\ TasksOK(tasks, now)'
    BY <1>1, <1>3, <1>4, <2>1 DEF StoreOK, CronTypes, TimerIdle
  <2>3. CountsOK' /\ HistoryOK'
    BY <1>1, <1>4, <2>1 DEF CountsOK, HistoryOK, CronTypes, TimerIdle
  <2>4. Shape'
    BY <1>1, <2>1 DEF Shape, CronTypes
  <2> QED
    BY <2>2, <2>3, <2>4 DEF CronTypes
<1>5. CASE \E j, s : TimerRuns(l, j, s)
  <2>1. PICK j, s : TimerRuns(l, j, s)
    BY <1>5
  <2>2. /\ s \in 1 .. Slots /\ j \in Due(l.mem)
        /\ tasks' = [Detached(l) EXCEPT ![s] = RunOf(l.mem, j)]
        /\ Begins(j, l.mem[j].next)
        /\ active' = TRUE /\ wake' = 0
        /\ mem' = l.mem /\ file' = l.file /\ bad' = l.bad /\ log' = l.log
    BY <2>1 DEF TimerRuns
  <2>3. /\ j \in Jobs /\ l.mem[j].next \in 1 .. now /\ RunOK(RunOf(l.mem, j), now)
    BY <1>3, <2>2, DueIs
  <2>4. TasksOK(tasks', now) /\ s \in Busy'
    <3>1. PICK d, r, u : d = Detached(l) /\ r = RunOf(l.mem, j) /\ u = tasks'
      OBVIOUS
    <3>2. u = [d EXCEPT ![s] = r] /\ TasksOK(d, now) /\ RunOK(r, now) /\ s \in 1 .. Slots
      BY <1>3, <2>2, <2>3, <3>1
    <3>3. TasksOK(u, now) /\ s \in BusyIn(u)
      BY <3>2, PutRun
    <3> QED
      BY <3>1, <3>3, BusyNext
  <2>5. HistoryOK'
    <3>1. ran' \in [Jobs -> Nat] /\ (\A k \in Jobs : ran'[k] <= now) /\ twice' \subseteq Jobs
      BY <2>2, <2>3, BeginsTypes
    <3> QED
      BY <1>1, <3>1 DEF HistoryOK, CronTypes
  <2>6. StoreOK'
    BY <1>1, <1>3, <2>2 DEF StoreOK, CronTypes
  <2>7. CountsOK'
    BY <1>1, <2>2, Zeros DEF CountsOK, CronTypes
  <2>8. Shape'
    BY <1>1, <1>3, <2>2, <2>4 DEF Shape, CronTypes
  <2> QED
    BY <1>1, <2>4, <2>5, <2>6, <2>7, <2>8 DEF CronTypes
<1> QED
  BY <1>2, <1>4, <1>5

LEMMA StoreIs ==
    Store.mem = mem /\ Store.file = file /\ Store.bad = bad /\ Store.log = log /\ Store.fresh = FALSE
  BY DEF Store

LEMMA TypesFinish == \A s : CronTypes /\ FinishJob(s) => CronTypes'
<1> SUFFICES ASSUME NEW s, CronTypes, FinishJob(s) PROVE CronTypes'
  OBVIOUS
<1>1. PICK t, m : t = tasks[s] /\ m = Finished(t)
  OBVIOUS
<1>2. /\ proc = "running" /\ s \in Busy /\ s \in 1 .. Slots /\ RunOK(t, now)
      /\ UNCHANGED <<env, now, proc, ext, ops, boots, removed, raced, torn, met>>
      /\ acked' = IF Schedule[t.cur] = "once" THEN acked \ {t.cur} ELSE acked
      /\ IsOver(s, m) \/ \E k : GoesOn(s, t, m, k)
  BY <1>1, FinishIs DEF Busy
<1>3. TableOK(m, now) /\ TasksOK(tasks, now) /\ acked' \subseteq Jobs
  BY <1>1, <1>2, FinishedIs DEF CronTypes, HistoryOK
<1>4. CASE IsOver(s, m)
  <2>1. /\ TableOK(mem', now) /\ TableOK(file', now) /\ LinesOK(log', now) /\ bad' \in BOOLEAN
        /\ (bad' => bad) /\ active' = FALSE
    BY <1>3, <1>4, SavesTypes, StoreIs DEF IsOver, Saves, CronTypes, StoreOK
  <2>2. TasksOK(tasks', now)
    BY <1>2, <1>3, <1>4, PutIdle DEF IsOver
  <2>3. StoreOK'
    BY <1>2, <2>1 DEF StoreOK, CronTypes
  <2>4. CountsOK' /\ HistoryOK'
    BY <1>2, <1>3, <1>4, <2>1 DEF CountsOK, HistoryOK, CronTypes, IsOver
  <2>5. Shape'
    BY <1>2, <2>1 DEF Shape, CronTypes
  <2> QED
    BY <1>2, <2>2, <2>3, <2>4, <2>5 DEF CronTypes
<1>5. CASE \E k : GoesOn(s, t, m, k)
  <2>1. PICK k : GoesOn(s, t, m, k)
    BY <1>5
  <2>2. PICK u : u = [cur |-> k, due |-> t.todo[k], at |-> now,
                      todo |-> Drop(t.todo, {k}), lost |-> t.lost]
    OBVIOUS
  <2>3. /\ k \in DOMAIN t.todo /\ tasks' = [tasks EXCEPT ![s] = u]
        /\ Begins(k, t.todo[k]) /\ mem' = m
        /\ UNCHANGED <<file, bad, log, wake, active>>
    BY <2>1, <2>2 DEF GoesOn
  <2>4. k \in Jobs /\ t.todo[k] \in 1 .. now /\ now \in 1 .. now
    BY <1>2, <2>3, CronConstants DEF RunOK, CronTypes, CountsOK
  <2>5. RunOK(u, now)
    <3>1. PICK d : d = Drop(t.todo, {k})
      OBVIOUS
    <3>2. DOMAIN d = DOMAIN t.todo \ {k} /\ \A i \in DOMAIN d : d[i] = t.todo[i]
      BY <3>1 DEF Drop
    <3> QED
      BY <1>2, <2>2, <2>4, <3>1, <3>2 DEF RunOK
  <2>6. TasksOK(tasks', now) /\ s \in Busy'
    <3>1. TasksOK(tasks', now) /\ s \in BusyIn(tasks')
      BY <1>2, <1>3, <2>3, <2>5, PutRun
    <3> QED
      BY <3>1, BusyNext
  <2>7. HistoryOK'
    <3>1. ran' \in [Jobs -> Nat] /\ (\A i \in Jobs : ran'[i] <= now) /\ twice' \subseteq Jobs
      BY <2>3, <2>4, BeginsTypes
    <3> QED
      BY <1>2, <1>3, <3>1 DEF HistoryOK, CronTypes
  <2>8. StoreOK' /\ CountsOK'
    BY <1>2, <1>3, <2>3 DEF StoreOK, CronTypes, CountsOK
  <2>9. Shape'
    BY <1>2, <2>3, <2>6 DEF Shape, CronTypes
  <2> QED
    BY <1>2, <2>6, <2>7, <2>8, <2>9 DEF CronTypes
<1> QED
  BY <1>2, <1>4, <1>5

LEMMA TypesCancel == \A s : CronTypes /\ CancelJob(s) => CronTypes'
<1> SUFFICES ASSUME NEW s, CronTypes, CancelJob(s) PROVE CronTypes'
  OBVIOUS
<1>1. /\ proc = "stopping" /\ s \in Busy /\ s \in 1 .. Slots /\ RunOK(tasks[s], now)
      /\ Ran(mem', tasks[s]) /\ file' = mem' /\ bad' = FALSE /\ active' = FALSE
      /\ tasks' = [tasks EXCEPT ![s] = Idle]
      /\ UNCHANGED <<env, now, proc, log, wake, ext, ops, boots, acked, removed, raced, torn,
                     met, ran, twice>>
  BY CancelIs DEF Busy
<1>2. TasksOK(tasks', now)
  BY <1>1, PutIdle DEF CronTypes
<1>3. StoreOK' /\ CountsOK' /\ HistoryOK'
  BY <1>1 DEF StoreOK, CountsOK, HistoryOK, CronTypes, Ran
<1>4. Shape'
  BY <1>1 DEF Shape, CronTypes
<1> QED
  BY <1>1, <1>2, <1>3, <1>4 DEF CronTypes

-----------------------------------------------------------------------------
(***************************************************************************)
(* What the requests do.                                                   *)
(***************************************************************************)
\* m is saved by a service that runs, line e written by one that stops.
Answered(l, m, kept, e) ==
    /\ \/ /\ proc = "running"
          /\ mem' = m /\ file' = m /\ bad' = FALSE /\ log' = l.log /\ wake' = NextWake(m)
       \/ /\ proc = "stopping"
          /\ mem' = kept /\ file' = l.file /\ bad' = l.bad /\ log' = Append(l.log, e)
          /\ wake' = wake
    /\ TasksOK(tasks', now) /\ Busy' = Busy /\ (\A s \in Busy : tasks'[s].cur = tasks[s].cur)
    /\ met' = (met \/ Busy # {}) /\ ops' \in 0 .. MaxOps
    /\ UNCHANGED <<env, now, proc, active, ext, boots, torn, ran, twice>>
    /\ TableOK(m, now) /\ TableOK(kept, now) /\ e \in LineType /\ e.job.last <= now

Adds(l, j, m, kept, e) ==
    /\ Unused(j) /\ m = Put(l.mem, j, NewJob(j)) /\ kept = l.mem /\ e = Line("add", j, NewJob(j))
    /\ acked' = acked \cup {j} /\ UNCHANGED <<removed, raced>>

Removes(l, j, m, kept, e) ==
    /\ IsLoaded(l) /\ j \in DOMAIN l.mem \ System
    /\ m = Drop(l.mem, {j}) /\ kept = m /\ e = Line("del", j, l.mem[j])
    /\ acked' = acked \ {j} /\ removed' = removed \cup {j}
    /\ raced' = IF ext # <<>> \/ \E i \in DOMAIN l.log : l.log[i].id = j THEN raced \cup {j}
                ELSE raced

\* The job as it is after the request.
Renewed(l, j, job) ==
    /\ job \in Job
    /\ job.on /\ job.next # 0 => job.next = NextRun(j)
    /\ job.last = IF j \in DOMAIN l.mem THEN l.mem[j].last ELSE 0

Changes(l, j, m, kept, e, job) ==
    /\ IsLoaded(l) /\ j \in DOMAIN l.mem /\ Renewed(l, j, job)
    /\ m = Put(l.mem, j, job) /\ kept = m /\ e = Line("update", j, job)
    /\ Overtakes(j) /\ UNCHANGED <<acked, removed>>

Registers(l, j, m, job) ==
    /\ IsLoaded(l) /\ j \in System /\ proc = "running" /\ Renewed(l, j, job)
    /\ m = Put(l.mem, j, job) /\ UNCHANGED <<acked, removed, raced>>

LEMMA LineIs ==
    ASSUME NEW op \in {"add", "del", "update"}, NEW j \in Jobs, NEW job \in Job, job.last <= now
    PROVE  /\ Line(op, j, job) \in LineType /\ Line(op, j, job).job.last <= now
           /\ Line(op, j, job).op = op /\ Line(op, j, job).id = j /\ Line(op, j, job).job = job
  BY DEF Line, LineType

LEMMA CommitIs ==
    ASSUME CronTypes, Asks, NEW l, Loading(l), NEW m, NEW kept, NEW e, Commit(l, m, kept, e),
           TableOK(m, now), TableOK(kept, now), e \in LineType, e.job.last <= now
    PROVE  Answered(l, m, kept, e)
<1>1. (proc = "running" \/ proc = "stopping") /\ ops' \in 0 .. MaxOps
  BY CronConstants DEF Asks, CronTypes, CountsOK
<1>2. tasks' = Detached(l) /\ TasksOK(tasks, now)
  BY DEF CronTypes, Commit
<1>3. /\ TasksOK(Detached(l), now) /\ BusyIn(Detached(l)) = Busy
      /\ \A s \in Busy : Detached(l)[s].cur = tasks[s].cur
  BY <1>2, DetachedIs
<1>4. TasksOK(tasks', now) /\ Busy' = Busy /\ \A s \in Busy : tasks'[s].cur = tasks[s].cur
  BY <1>2, <1>3, BusyNext
<1> QED
  BY <1>1, <1>4 DEF Commit, Answered

LEMMA AddIs ==
    ASSUME CronTypes, NEW j \in Jobs, AddJob(j)
    PROVE  \E l, m, kept, e : Loading(l) /\ Answered(l, m, kept, e) /\ Adds(l, j, m, kept, e)
<1>1. PICK first, l : /\ first = Loaded
                      /\ l = IF proc = "running" THEN [Load(first) EXCEPT !.fresh = @ \/ first.fresh]
                             ELSE first
  OBVIOUS
<1>2. PICK m, e : m = Put(l.mem, j, NewJob(j)) /\ e = Line("add", j, NewJob(j))
  OBVIOUS
<1>3. /\ Asks /\ Unused(j) /\ Commit(l, m, l.mem, e)
      /\ acked' = acked \cup {j} /\ UNCHANGED <<removed, raced>>
  BY <1>1, <1>2 DEF AddJob
<1>4. Loading(l)
  <2>1. active \in BOOLEAN /\ bad \in BOOLEAN
    BY DEF CronTypes, CountsOK, StoreOK
  <2>2. proc = "running" => IsLoaded(l) \/ IsLoadedTwice(l)
    BY <1>1, <2>1, LoadedTwice
  <2>3. proc # "running" => IsLoaded(l)
    BY <1>1, <2>1, LoadedIs
  <2> QED
    BY <2>2, <2>3, LoadingIs
<1>5. now \in 1 .. Horizon /\ 0 <= now /\ NewJob(j) \in Job /\ NewJob(j).last = 0
  BY NextRunIs, CronConstants DEF CronTypes, CountsOK
<1>6. TableOK(m, now) /\ TableOK(l.mem, now) /\ e \in LineType /\ e.job.last <= now
  BY <1>2, <1>4, <1>5, PutTable, LineIs DEF Loading
<1>7. Answered(l, m, l.mem, e)
  BY <1>3, <1>4, <1>6, CommitIs
<1> QED
  BY <1>2, <1>3, <1>4, <1>7 DEF Adds

LEMMA InTable ==
    ASSUME NEW t, NEW m, TableOK(m, t), NEW j \in DOMAIN m
    PROVE  j \in Jobs /\ m[j] \in Job /\ m[j].last <= t
  BY DEF TableOK, IsTable

LEMMA RemoveIs ==
    ASSUME CronTypes, NEW j \in Jobs, RemoveJob(j)
    PROVE  \E l, m, kept, e : Loading(l) /\ Answered(l, m, kept, e) /\ Removes(l, j, m, kept, e)
<1>1. PICK l, m, e : l = Loaded /\ m = Drop(l.mem, {j}) /\ e = Line("del", j, l.mem[j])
  OBVIOUS
<1>2. /\ Asks /\ j \in DOMAIN l.mem \ System /\ Commit(l, m, m, e)
      /\ raced' = IF ext # <<>> \/ \E i \in DOMAIN l.log : l.log[i].id = j THEN raced \cup {j}
                  ELSE raced
      /\ acked' = acked \ {j} /\ removed' = removed \cup {j}
  BY <1>1 DEF RemoveJob
<1>3. IsLoaded(l) /\ Loading(l)
  BY <1>1, LoadedLoads
<1>4. TableOK(m, now) /\ e \in LineType /\ e.job.last <= now
  BY <1>1, <1>2, <1>3, DropTable, InTable, LineIs DEF Loading
<1>5. Answered(l, m, m, e)
  BY <1>2, <1>3, <1>4, CommitIs
<1> QED
  BY <1>1, <1>2, <1>3, <1>5 DEF Removes

LEMMA UpdatedIs ==
    ASSUME NEW job \in Job, NEW j
    PROVE  Updated(job, j) = [on |-> job.on, next |-> IF job.on THEN NextRun(j) ELSE job.next,
                              last |-> job.last]
<1>1. PICK n, u : n = NextRun(j) /\ u = Updated(job, j)
  OBVIOUS
<1>2. job = [on |-> job.on, next |-> job.next, last |-> job.last]
  BY DEF Job
<1>3. u = [job EXCEPT !.next = IF job.on THEN n ELSE @]
  BY <1>1 DEF Updated
<1> QED
  BY <1>1, <1>2, <1>3

LEMMA SwitchedIs ==
    ASSUME NEW job \in Job, NEW j, NEW on
    PROVE  Switched(job, j, on) = [on |-> on, next |-> IF on THEN NextRun(j) ELSE 0,
                                   last |-> job.last]
<1>1. PICK n, u : n = NextRun(j) /\ u = Switched(job, j, on)
  OBVIOUS
<1>2. job = [on |-> job.on, next |-> job.next, last |-> job.last]
  BY DEF Job
<1>3. u = [job EXCEPT !.on = on, !.next = IF on THEN n ELSE 0]
  BY <1>1 DEF Switched
<1> QED
  BY <1>1, <1>2, <1>3

LEMMA ChangeIs ==
    ASSUME CronTypes, NEW j \in Jobs, UpdateJob(j) \/ \E on \in BOOLEAN : EnableJob(j, on)
    PROVE  \E l, m, kept, e, job : /\ Loading(l) /\ Answered(l, m, kept, e)
                                   /\ Changes(l, j, m, kept, e, job)
<1>1. PICK l : l = Loaded
  OBVIOUS
<1>2. IsLoaded(l) /\ Loading(l) /\ now \in 1 .. Horizon
  BY <1>1, LoadedLoads DEF CronTypes, CountsOK
<1>3. PICK old : old = l.mem[j]
  OBVIOUS
<1>4. PICK job : /\ Asks /\ j \in DOMAIN l.mem
                 /\ job = Updated(old, j) \/ \E on \in BOOLEAN : job = Switched(old, j, on)
                 /\ Commit(l, Put(l.mem, j, job), Put(l.mem, j, job), Line("update", j, job))
                 /\ Overtakes(j) /\ UNCHANGED <<acked, removed>>
  <2>1. CASE UpdateJob(j)
    BY <1>1, <1>3, <2>1 DEF UpdateJob
  <2>2. CASE \E on \in BOOLEAN : EnableJob(j, on)
    BY <1>1, <1>3, <2>2 DEF EnableJob
  <2> QED
    BY <2>1, <2>2
<1>6. old \in Job /\ old.last <= now
  BY <1>2, <1>3, <1>4, InTable DEF Loading
<1>7. PICK o, x, y : o = old.on /\ x = old.next /\ y = old.last
  OBVIOUS
<1>8. old = [on |-> o, next |-> x, last |-> y] /\ o \in BOOLEAN /\ x \in Nat /\ y \in 0 .. Horizon
  BY <1>6, <1>7 DEF Job
<1>9. PICK n : n = NextRun(j)
  OBVIOUS
<1>10. \/ job = [on |-> o, next |-> IF o THEN n ELSE x, last |-> y]
       \/ \E on \in BOOLEAN : job = [on |-> on, next |-> IF on THEN n ELSE 0, last |-> y]
  <2>1. CASE job = Updated(old, j)
    <3>1. job = [on |-> old.on, next |-> IF old.on THEN NextRun(j) ELSE old.next, last |-> old.last]
      BY <1>6, <2>1, UpdatedIs
    <3> QED
      BY <1>7, <1>8, <1>9, <3>1
  <2>2. CASE \E on \in BOOLEAN : job = Switched(old, j, on)
    <3>1. PICK on \in BOOLEAN : job = Switched(old, j, on)
      BY <2>2
    <3>2. job = [on |-> on, next |-> IF on THEN NextRun(j) ELSE 0, last |-> old.last]
      BY <1>6, <3>1, SwitchedIs
    <3> QED
      BY <1>7, <1>9, <3>2
  <2> QED
    BY <1>4, <2>1, <2>2
<1>11. n \in Nat
  BY <1>2, <1>9, NextRunIs
<1>12. job \in Job /\ job.last = y /\ (job.on => job.next = n)
  BY <1>8, <1>10, <1>11 DEF Job
<1>13. Renewed(l, j, job)
  BY <1>3, <1>4, <1>7, <1>9, <1>12 DEF Renewed
<1>14. PICK m, e : m = Put(l.mem, j, job) /\ e = Line("update", j, job)
  OBVIOUS
<1>15. TableOK(m, now) /\ e \in LineType /\ e.job.last <= now
  BY <1>2, <1>6, <1>7, <1>12, <1>14, PutTable, LineIs DEF Loading
<1>16. Answered(l, m, m, e)
  BY <1>2, <1>4, <1>14, <1>15, CommitIs
<1> QED
  BY <1>2, <1>4, <1>13, <1>14, <1>16 DEF Changes

LEMMA ReregisterIs ==
    ASSUME CronTypes, NEW j \in Jobs, Reregister(j)
    PROVE  \E l, m, kept, e, job : /\ Loading(l) /\ Answered(l, m, kept, e)
                                   /\ Registers(l, j, m, job)
<1>1. PICK l, m, d : l = Loaded /\ m = Registered(l.mem, j) /\ d = Detached(l)
  OBVIOUS
<1>2. /\ Asks /\ proc = "running" /\ j \in System
      /\ mem' = m /\ file' = m /\ bad' = FALSE /\ log' = l.log
      /\ wake' = NextWake(m)
      /\ tasks' = [s \in 1 .. Slots |-> [d[s] EXCEPT !.lost = IF s \in Busy THEN @ \cup {j} ELSE @]]
      /\ met' = (met \/ Busy # {})
      /\ UNCHANGED <<env, now, proc, active, ext, boots, acked, removed, raced, torn, ran, twice>>
  BY <1>1 DEF Reregister
<1>3. IsLoaded(l) /\ Loading(l) /\ now \in 1 .. Horizon /\ 0 <= now
  BY <1>1, LoadedLoads DEF CronTypes, CountsOK
<1>4. PICK job : job = m[j]
  OBVIOUS
<1>5. TableOK(l.mem, now) /\ (j \in DOMAIN l.mem => l.mem[j] \in Job /\ l.mem[j].last <= now)
  BY <1>3, InTable DEF Loading
<1>6. /\ m = Put(l.mem, j, job) /\ job \in Job
      /\ job = [on |-> TRUE, next |-> NextRun(j),
                last |-> IF j \in DOMAIN l.mem THEN l.mem[j].last ELSE 0]
  BY <1>1, <1>3, <1>4, <1>5, RegisteredIs
<1>7. Renewed(l, j, job) /\ job.last <= now
  BY <1>3, <1>5, <1>6 DEF Renewed
<1>8. TableOK(m, now)
  BY <1>5, <1>6, <1>7, PutTable
<1>9. TasksOK(d, now) /\ BusyIn(d) = Busy /\ \A s \in Busy : d[s].cur = tasks[s].cur
  BY <1>1, DetachedIs DEF CronTypes
<1>10. PICK u : u = tasks'
  OBVIOUS
<1>11. ASSUME NEW s \in 1 .. Slots
       PROVE  /\ s \notin Busy => u[s] = d[s]
              /\ s \in Busy => RunOK(u[s], now) /\ u[s].cur = tasks[s].cur
  <2>1. PICK t : t = d[s]
    OBVIOUS
  <2>2. CASE s \notin Busy
    <3>1. t = Idle
      BY <1>9, <2>1, <2>2, IdleIs DEF TasksOK, BusyIn, RunOK
    <3>2. u[s] = [t EXCEPT !.lost = @]
      BY <1>2, <1>10, <2>1, <2>2
    <3> QED
      BY <2>1, <2>2, <3>1, <3>2 DEF Idle
  <2>3. CASE s \in Busy
    <3>1. RunOK(t, now)
      BY <1>9, <2>1, <2>3, BusyRuns
    <3>2. u[s] = [t EXCEPT !.lost = @ \cup {j}]
      BY <1>2, <1>10, <2>1, <2>3
    <3>3. t = [cur |-> t.cur, due |-> t.due, at |-> t.at, todo |-> t.todo, lost |-> t.lost]
      BY <3>1 DEF RunOK
    <3>4. u[s] = [cur |-> t.cur, due |-> t.due, at |-> t.at, todo |-> t.todo,
                  lost |-> t.lost \cup {j}]
      BY <3>2, <3>3
    <3>5. RunOK(u[s], now) /\ u[s].cur = t.cur
      BY <3>1, <3>4 DEF RunOK
    <3> QED
      BY <1>9, <2>1, <2>3, <3>5
  <2> QED
    BY <2>2, <2>3
<1>12. TasksOK(u, now)
  <2>1. u = [s \in 1 .. Slots |-> u[s]]
    BY <1>2, <1>10
  <2>2. \A s \in 1 .. Slots : u[s] = Idle \/ RunOK(u[s], now)
    BY <1>9, <1>11 DEF TasksOK
  <2> QED
    BY <2>1, <2>2 DEF TasksOK
<1>13. Busy' = Busy
  <2>1. \A s \in 1 .. Slots : u[s].cur # NoJob <=> s \in Busy
    BY <1>9, <1>11, IdleIs DEF BusyIn
  <2>2. BusyIn(u) = Busy
    BY <1>9, <2>1 DEF BusyIn
  <2> QED
    BY <1>10, <2>2, BusyNext
<1>14. PICK e : e = Line("update", j, job)
  OBVIOUS
<1>15. e \in LineType /\ e.job.last <= now
  BY <1>6, <1>7, <1>14, LineIs
<1>16. ops' \in 0 .. MaxOps
  BY <1>2, CronConstants DEF Asks, CronTypes, CountsOK
<1>17. \A s \in Busy : tasks'[s].cur = tasks[s].cur
  BY <1>10, <1>11 DEF Busy
<1>18. Answered(l, m, m, e)
  BY <1>2, <1>8, <1>10, <1>12, <1>13, <1>15, <1>16, <1>17 DEF Answered
<1> QED
  BY <1>2, <1>3, <1>6, <1>7, <1>18 DEF Registers

\* Every request, by what it does.
LEMMA RequestIs ==
    ASSUME CronTypes, Requests
    PROVE  \E j \in Jobs : \E l, m, kept, e :
               /\ Loading(l) /\ Answered(l, m, kept, e)
               /\ \/ Adds(l, j, m, kept, e) \/ Removes(l, j, m, kept, e)
                  \/ \E job : Changes(l, j, m, kept, e, job) \/ Registers(l, j, m, job)
<1>1. PICK j \in Jobs : \/ AddJob(j) \/ RemoveJob(j)
                        \/ UpdateJob(j) \/ (\E on \in BOOLEAN : EnableJob(j, on)) \/ Reregister(j)
  BY DEF Requests
<1>2. CASE AddJob(j)
  BY <1>2, AddIs
<1>3. CASE RemoveJob(j)
  BY <1>3, RemoveIs
<1>4. CASE UpdateJob(j) \/ \E on \in BOOLEAN : EnableJob(j, on)
  BY <1>4, ChangeIs
<1>5. CASE Reregister(j)
  BY <1>5, ReregisterIs
<1> QED
  BY <1>1, <1>2, <1>3, <1>4, <1>5

LEMMA TypesRequests == CronTypes /\ Requests => CronTypes'
<1> SUFFICES ASSUME CronTypes, Requests PROVE CronTypes'
  OBVIOUS
<1>0. PICK j \in Jobs : \E l, m, kept, e :
               /\ Loading(l) /\ Answered(l, m, kept, e)
               /\ \/ Adds(l, j, m, kept, e) \/ Removes(l, j, m, kept, e)
                  \/ \E job : Changes(l, j, m, kept, e, job) \/ Registers(l, j, m, job)
  BY RequestIs
<1>1. PICK l, m, kept, e :
               /\ Loading(l) /\ Answered(l, m, kept, e)
               /\ \/ Adds(l, j, m, kept, e) \/ Removes(l, j, m, kept, e)
                  \/ \E job : Changes(l, j, m, kept, e, job) \/ Registers(l, j, m, job)
  BY <1>0
<1>2. acked' \subseteq Jobs /\ removed' \subseteq Jobs /\ raced' \subseteq Jobs
  BY <1>1 DEF CronTypes, HistoryOK, Adds, Removes, Changes, Registers, Overtakes
<1>3. /\ UNCHANGED <<env, now, proc, active, ext, boots, torn, ran, twice>>
      /\ met' = (met \/ Busy # {}) /\ ops' \in 0 .. MaxOps
      /\ TasksOK(tasks', now) /\ Busy' = Busy /\ proc # "down"
  BY <1>1 DEF Answered
<1>4. HistoryOK' /\ TasksOK(tasks, now)'
  BY <1>2, <1>3 DEF CronTypes, HistoryOK
<1>5. /\ TableOK(mem', now) /\ TableOK(file', now) /\ bad' \in BOOLEAN /\ LinesOK(log', now)
      /\ wake' \in 0 .. Horizon + MaxSleep /\ (bad' => bad)
  <2>1. CASE proc = "running"
    <3>1. NextWake(m) \in 0 .. Horizon + MaxSleep
      BY <1>1, NextWakeType DEF Answered, TableOK, CronTypes, CountsOK
    <3> QED
      BY <1>1, <2>1, <3>1 DEF Answered, Loading
  <2>2. CASE proc = "stopping"
    <3>1. LinesOK(Append(l.log, e), now)
      BY <1>1, LinesAppend DEF Answered, Loading
    <3> QED
      BY <1>1, <2>2, <3>1 DEF Answered, Loading, CronTypes, CountsOK
  <2> QED
    BY <1>1, <2>1, <2>2 DEF Answered
<1>6. StoreOK' /\ CountsOK'
  BY <1>3, <1>5 DEF StoreOK, CountsOK, CronTypes
<1>7. Shape'
  BY <1>3, <1>5 DEF Shape, CronTypes
<1> QED
  BY <1>4, <1>6, <1>7 DEF CronTypes

LEMMA ReadIs ==
    ASSUME CronTypes, ReadJobs
    PROVE  /\ proc # "down"
           /\ UNCHANGED <<env, now, proc, wake, active, ext, ops, boots, acked, removed, raced, torn,
                          met, ran, twice>>
           /\ TasksOK(tasks', now) /\ Busy' = Busy
           /\ \E l : /\ IsLoaded(l) /\ Loading(l)
                     /\ mem' = l.mem /\ file' = l.file /\ bad' = l.bad /\ log' = l.log
                     /\ tasks' = Detached(l)
<1>1. PICK l : l = Loaded
  OBVIOUS
<1>2. IsLoaded(l) /\ Loading(l)
  BY <1>1, LoadedLoads
<1>3. /\ proc # "down"
      /\ UNCHANGED <<env, now, proc, wake, active, ext, ops, boots, acked, removed, raced, torn,
                     met, ran, twice>>
      /\ mem' = l.mem /\ file' = l.file /\ bad' = l.bad /\ log' = l.log
      /\ tasks' = Detached(l)
  BY <1>1 DEF ReadJobs, history
<1>4. TasksOK(tasks', now) /\ Busy' = Busy
  BY <1>3, DetachedIs, BusyNext DEF CronTypes
<1> QED
  BY <1>2, <1>3, <1>4

LEMMA TypesRead == CronTypes /\ ReadJobs => CronTypes'
<1> SUFFICES ASSUME CronTypes, ReadJobs PROVE CronTypes'
  OBVIOUS
<1>1. /\ proc # "down" /\ TasksOK(tasks', now) /\ Busy' = Busy
      /\ UNCHANGED <<env, now, proc, wake, active, ext, ops, boots, acked, removed, raced, torn,
                     met, ran, twice>>
  BY ReadIs
<1>2. PICK l : /\ Loading(l) /\ mem' = l.mem /\ file' = l.file /\ bad' = l.bad /\ log' = l.log
  BY ReadIs
<1>3. StoreOK' /\ CountsOK' /\ HistoryOK' /\ TasksOK(tasks, now)'
  BY <1>1, <1>2 DEF StoreOK, CountsOK, HistoryOK, CronTypes, Loading
<1>4. Shape'
  BY <1>1, <1>2 DEF Shape, CronTypes, Loading
<1> QED
  BY <1>3, <1>4 DEF CronTypes

\* -- The other process
ExtAdds(j) ==
    /\ Unused(j) /\ log' = Append(log, Line("add", j, NewJob(j)))
    /\ acked' = acked \cup {j} /\ UNCHANGED <<ext, removed, raced>>

ExtReads(j, e) ==
    /\ j \notin System /\ j \in DOMAIN Replayed(file, log) /\ ext' = <<e>> /\ ext = <<>>
    /\ e.id = j /\ e.op # "add" /\ e.job.last = Replayed(file, log)[j].last
    /\ UNCHANGED <<log, acked, removed, raced>>

ExtWrites(e) ==
    /\ ext # <<>> /\ e = ext[1] /\ 1 \in 1 .. Len(ext)
    /\ log' = Append(log, e) /\ ext' = <<>>
    /\ IF e.op = "del"
       THEN acked' = acked \ {e.id} /\ removed' = removed \cup {e.id} /\ UNCHANGED raced
       ELSE /\ raced' = IF e.id \in removed THEN raced \cup {e.id} ELSE raced
            /\ UNCHANGED <<acked, removed>>

\* It leaves the gateway alone.
GatewayStays ==
    UNCHANGED <<env, now, proc, mem, file, bad, wake, tasks, active, boots, torn, met, ran, twice>>

LEMMA ExternalIs ==
    ASSUME CronTypes, External
    PROVE  /\ GatewayStays /\ ops' \in 0 .. MaxOps
           /\ \/ "external" \in env /\ \E j \in Jobs : ExtAdds(j)
              \/ "external" \in env /\ \E j, e : ExtReads(j, e) /\ e \in LineType /\ e.job.last <= now
              \/ \E e \in LineType : ExtWrites(e) /\ e.job.last <= now
<1>1. CASE ExtAppend
  <2>1. ext # <<>> /\ log' = log \o ext /\ ext' = <<>>
    BY <1>1 DEF ExtAppend
  <2>2. log \in Seq(LineType) /\ ext \in Seq(LineType) /\ Len(ext) <= 1
    BY DEF CronTypes, StoreOK, LinesOK
  <2>3. PICK e : e = ext[1]
    OBVIOUS
  <2>4. log \o ext = Append(log, e) /\ e \in LineType /\ 1 \in 1 .. Len(ext)
    BY <2>1, <2>2, <2>3, OneLine
  <2>5. e.job.last <= now
    BY <2>3, <2>4 DEF CronTypes, StoreOK, LinesOK
  <2>6. ExtWrites(e)
    BY <1>1, <2>1, <2>3, <2>4 DEF ExtAppend, ExtWrites
  <2>7. GatewayStays /\ ops' \in 0 .. MaxOps
    BY <1>1 DEF ExtAppend, GatewayStays, timer, CronTypes, CountsOK
  <2> QED
    BY <2>4, <2>5, <2>6, <2>7
<1>2. CASE \E j \in Jobs : ExtAdd(j)
  <2>1. PICK j \in Jobs : ExtAdd(j)
    BY <1>2
  <2>2. ExtAdds(j) /\ "external" \in env
    BY <2>1 DEF ExtAdd, ExtAdds
  <2>3. GatewayStays /\ ops' \in 0 .. MaxOps
    BY <2>1, CronConstants DEF ExtAdd, GatewayStays, timer, CronTypes, CountsOK
  <2> QED
    BY <2>2, <2>3
<1>3. CASE \E j \in Jobs : ExtLoad(j)
  <2>1. PICK j \in Jobs : ExtLoad(j)
    BY <1>3
  <2>2. PICK m : m = Merged.jobs
    OBVIOUS
  <2>3. m = Replayed(file, log)
    BY <2>2 DEF Merged, Merge, Store
  <2>4. PICK job : job = m[j]
    OBVIOUS
  <2>5. /\ "external" \in env /\ j \in DOMAIN m \ System /\ ext = <<>>
        /\ ext' \in {<<Line("del", j, job)>>,
                     <<Line("update", j, Switched(job, j, FALSE))>>,
                     <<Line("update", j, Switched(job, j, TRUE))>>}
        /\ UNCHANGED <<log, acked, removed, raced>>
    BY <2>1, <2>2, <2>4 DEF ExtLoad, disk, history
  <2>6. GatewayStays /\ ops' \in 0 .. MaxOps
    BY <2>1, CronConstants DEF ExtLoad, GatewayStays, disk, timer, history, CronTypes, CountsOK
  <2>7. TableOK(m, now) /\ now \in 1 .. Horizon
    BY <2>3, ReplayedTable DEF CronTypes, StoreOK, CountsOK
  <2>8. j \in Jobs /\ job \in Job /\ job.last <= now
    BY <2>4, <2>5, <2>7, InTable
  <2>9. ASSUME NEW on \in BOOLEAN
        PROVE  Switched(job, j, on) \in Job /\ Switched(job, j, on).last = job.last
    <3>1. PICK n : n = NextRun(j)
      OBVIOUS
    <3>2. Switched(job, j, on) = [on |-> on, next |-> IF on THEN n ELSE 0, last |-> job.last]
      BY <2>8, <3>1, SwitchedIs
    <3>3. n \in Nat
      BY <2>7, <3>1, NextRunIs
    <3> QED
      BY <2>8, <3>2, <3>3 DEF Job
  <2>10. PICK op, new : /\ op \in {"del", "update"} /\ ext' = <<Line(op, j, new)>>
                        /\ new \in Job /\ new.last = job.last
    BY <2>5, <2>8, <2>9
  <2>11. PICK e : e = Line(op, j, new)
    OBVIOUS
  <2>12. /\ e \in LineType /\ e.op \in {"del", "update"} /\ e.id = j
         /\ e.job.last = job.last /\ e.job.last <= now
    BY <2>8, <2>10, <2>11, LineIs
  <2>13. ExtReads(j, e)
    BY <2>3, <2>4, <2>5, <2>10, <2>11, <2>12 DEF ExtReads
  <2> QED
    BY <2>5, <2>6, <2>12, <2>13
<1> QED
  BY <1>1, <1>2, <1>3 DEF External

LEMMA SingleLine ==
    ASSUME NEW t, NEW e \in LineType, e.job.last <= t
    PROVE  LinesOK(<<e>>, t) /\ Len(<<e>>) = 1 /\ <<e>>[1] = e
  BY DEF LinesOK

LEMMA TypesExternal == CronTypes /\ External => CronTypes'
<1> SUFFICES ASSUME CronTypes, External PROVE CronTypes'
  OBVIOUS
<1>1. GatewayStays /\ ops' \in 0 .. MaxOps
  BY ExternalIs
<1>2. UNCHANGED <<env, now, proc, mem, file, bad, wake, tasks, active, boots, torn, met, ran, twice>>
  BY <1>1 DEF GatewayStays
<1>3. now \in 1 .. Horizon /\ 0 <= now /\ LinesOK(log, now) /\ LinesOK(ext, now) /\ Len(ext) <= 1
  BY CronConstants DEF CronTypes, StoreOK, CountsOK
<1>4. /\ LinesOK(log', now) /\ LinesOK(ext', now) /\ Len(ext') <= 1
      /\ acked' \subseteq Jobs /\ removed' \subseteq Jobs /\ raced' \subseteq Jobs
  <2>1. CASE \E j \in Jobs : ExtAdds(j)
    <3>1. PICK j \in Jobs : ExtAdds(j)
      BY <2>1
    <3>2. PICK e : e = Line("add", j, NewJob(j))
      OBVIOUS
    <3>3. NewJob(j) \in Job /\ NewJob(j).last <= now
      BY <1>3, NextRunIs
    <3>4. e \in LineType /\ e.job.last <= now
      BY <3>2, <3>3, LineIs
    <3>5. LinesOK(Append(log, e), now)
      BY <1>3, <3>4, LinesAppend
    <3> QED
      BY <1>3, <3>1, <3>2, <3>5 DEF ExtAdds, CronTypes, HistoryOK
  <2>2. CASE \E j, e : ExtReads(j, e) /\ e \in LineType /\ e.job.last <= now
    <3>1. PICK j, e : ExtReads(j, e) /\ e \in LineType /\ e.job.last <= now
      BY <2>2
    <3>2. ext' = <<e>> /\ UNCHANGED <<log, acked, removed, raced>>
      BY <3>1 DEF ExtReads
    <3> QED
      BY <1>3, <3>1, <3>2, SingleLine DEF CronTypes, HistoryOK
  <2>3. CASE \E e \in LineType : ExtWrites(e) /\ e.job.last <= now
    <3>1. PICK e \in LineType : ExtWrites(e) /\ e.job.last <= now
      BY <2>3
    <3>2. LinesOK(Append(log, e), now) /\ e.id \in Jobs
      BY <1>3, <3>1, LinesAppend DEF LineType
    <3>3. Len(<<>>) <= 1
      OBVIOUS
    <3> QED
      BY <3>1, <3>2, <3>3, LinesNone DEF ExtWrites, CronTypes, HistoryOK
  <2> QED
    BY <2>1, <2>2, <2>3, ExternalIs
<1>5. StoreOK' /\ CountsOK' /\ HistoryOK' /\ TasksOK(tasks, now)'
  BY <1>1, <1>2, <1>4 DEF StoreOK, CountsOK, HistoryOK, CronTypes
<1>6. Shape'
  BY <1>2 DEF Shape, CronTypes, Busy
<1> QED
  BY <1>5, <1>6 DEF CronTypes

LEMMA TypesStep == CronTypes /\ [CronNext]_cronVars => CronTypes'
<1> SUFFICES ASSUME CronTypes, [CronNext]_cronVars PROVE CronTypes'
  OBVIOUS
<1>1. CASE UNCHANGED cronVars
  BY <1>1 DEF cronVars, disk, timer, history, CronTypes, StoreOK, TasksOK, RunOK, CountsOK,
     HistoryOK, Shape, Busy
<1>2. CASE CronNext
  BY <1>2, TypesTick, TypesBoot, TypesStop, TypesGone, TypesCorrupt, TypesTimer, TypesFinish,
     TypesCancel, TypesRequests, TypesRead, TypesExternal DEF CronNext, Runs
<1> QED
  BY <1>1, <1>2

LEMMA TypesImply == CronTypes => CronTypeOK
<1> SUFFICES ASSUME CronTypes PROVE CronTypeOK
  OBVIOUS
<1>1. \A i \in DOMAIN log : /\ log[i].op \in {"add", "del", "update"}
                            /\ log[i].id \in Jobs /\ log[i].job \in Job
  <2>1. log \in Seq(LineType)
    BY DEF CronTypes, StoreOK, LinesOK
  <2>2. \A i \in DOMAIN log : log[i] \in LineType
    BY <2>1
  <2> QED
    BY <2>2 DEF LineType
<1>2. ASSUME NEW s \in 1 .. Slots
      PROVE  \/ tasks[s] = Idle
             \/ /\ tasks[s].cur \in Jobs /\ tasks[s].cur \notin DOMAIN tasks[s].todo
                /\ DOMAIN tasks[s].todo \subseteq Jobs /\ proc # "down"
  <2>1. CASE tasks[s] = Idle
    BY <2>1
  <2>2. CASE tasks[s] # Idle
    <3>1. RunOK(tasks[s], now)
      BY <2>2 DEF CronTypes, TasksOK
    <3>2. s \in Busy
      BY <3>1, IdleIs DEF Busy
    <3> QED
      BY <3>1, <3>2 DEF RunOK, CronTypes, Shape
  <2> QED
    BY <2>1, <2>2
<1> QED
  BY <1>1, <1>2 DEF CronTypes, StoreOK, TableOK, CountsOK, Shape, CronTypeOK

-----------------------------------------------------------------------------
(***************************************************************************)
(* One task at a time.  As long as no change of the configuration meets a  *)
(* running job, a task at work keeps the timer from sleeping and the table *)
(* from being read anew, so its jobs are those of the table.               *)
(***************************************************************************)
Settled(t) ==
    /\ t.lost = {} /\ t.cur \in DOMAIN mem /\ DOMAIN t.todo \subseteq DOMAIN mem
    /\ mem[t.cur].last <= t.at /\ ran[t.cur] <= t.at

OneTask ==
    ~met => /\ \A s, t \in Busy : s = t
            /\ Busy # {} => wake = 0 /\ active
            /\ \A s \in Busy : Settled(tasks[s])

LEMMA OneIfIdle == Busy' = {} => OneTask'
  BY DEF OneTask

LEMMA OneSame ==
    ASSUME OneTask, UNCHANGED <<tasks, mem, active, ran, met>>, wake' = wake \/ wake' = 0
    PROVE  OneTask'
  BY DEF OneTask, Busy, Settled

\* The table a task at work is settled in is not read anew.
LEMMA OneLoad ==
    ASSUME CronTypes, OneTask, ~met, Busy # {}, NEW l, Loading(l)
    PROVE  /\ active /\ wake = 0 /\ IsLoaded(l) /\ l.mem = mem /\ l.file = file /\ l.log = log
           /\ l.bad = bad /\ Detached(l) = tasks
<1>1. active /\ wake = 0
  BY DEF OneTask
<1>2. IsLoaded(l) /\ l.fresh # TRUE
  BY <1>1 DEF Loading, IsLoadedTwice
<1>3. Detached(l) = tasks
  BY <1>2, DetachedIs DEF CronTypes
<1> QED
  BY <1>1, <1>2, <1>3 DEF IsLoaded

\* No task is at work when the timer fires.
LEMMA OneTimer ==
    ASSUME CronTypes, OneTask, ~met, wake # 0
    PROVE  Busy = {} /\ ~active /\ \A l : Detached(l) = tasks
<1>1. Busy = {} /\ ~active
  BY DEF OneTask, CronTypes, Shape
<1> QED
  BY <1>1, DetachedIs DEF CronTypes

LEMMA OneRuns ==
    ASSUME CronTypes, OneTask, ~met, wake # 0, NEW l, Loading(l), NEW j, NEW s, TimerRuns(l, j, s)
    PROVE  /\ Busy' = {s} /\ s \in 1 .. Slots /\ tasks'[s] = RunOf(l.mem, j)
           /\ j \in Due(l.mem) /\ j \in Jobs /\ j \in DOMAIN l.mem /\ l.mem[j] \in Job
           /\ l.mem[j].on /\ l.mem[j].next # 0 /\ l.mem[j].next \in 1 .. now
<1>1. PICK r, u : r = RunOf(l.mem, j) /\ u = tasks'
  OBVIOUS
<1>2. Busy = {} /\ Detached(l) = tasks
  BY OneTimer
<1>3. s \in 1 .. Slots /\ j \in Due(l.mem) /\ u = [tasks EXCEPT ![s] = r]
  BY <1>1, <1>2 DEF TimerRuns
<1>4. /\ j \in Jobs /\ j \in DOMAIN l.mem /\ l.mem[j] \in Job
      /\ l.mem[j].on /\ l.mem[j].next # 0 /\ l.mem[j].next \in 1 .. now /\ RunOK(r, now)
  BY <1>1, <1>3, DueIs DEF Loading, CronTypes, CountsOK
<1>5. u[s] = r /\ \A x \in 1 .. Slots : x # s => u[x] = tasks[x]
  BY <1>3 DEF CronTypes, TasksOK
<1>6. BusyIn(u) = {s}
  <2>1. r.cur # NoJob
    BY <1>4, IdleIs
  <2>2. \A x \in 1 .. Slots : tasks[x].cur = NoJob
    BY <1>2 DEF Busy
  <2> QED
    BY <1>3, <1>5, <2>1, <2>2 DEF BusyIn
<1>7. Busy' = {s}
  BY <1>1, <1>6, BusyNext
<1> QED
  BY <1>1, <1>3, <1>4, <1>5, <1>7

LEMMA OneFinish ==
    ASSUME CronTypes, OneTask, ~met, NEW s \in Busy
    PROVE  Busy = {s} /\ wake = 0 /\ active /\ Settled(tasks[s]) /\ Has(tasks[s])
  BY DEF OneTask, Settled, Has

LEMMA OneGoesOn ==
    ASSUME CronTypes, OneTask, ~met, NEW s \in Busy, NEW t, t = tasks[s], RunOK(t, now),
           NEW m, NEW k, GoesOn(s, t, m, k)
    PROVE  /\ Busy' = {s} /\ k \in DOMAIN t.todo /\ k \in Jobs /\ k # t.cur
           /\ t.todo[k] \in 1 .. now
           /\ tasks'[s] = [cur |-> k, due |-> t.todo[k], at |-> now,
                           todo |-> Drop(t.todo, {k}), lost |-> t.lost]
<1>1. PICK u, r : /\ r = [cur |-> k, due |-> t.todo[k], at |-> now,
                          todo |-> Drop(t.todo, {k}), lost |-> t.lost]
                  /\ u = tasks'
  OBVIOUS
<1>2. k \in DOMAIN t.todo /\ u = [tasks EXCEPT ![s] = r]
  BY <1>1 DEF GoesOn
<1>3. k \in Jobs /\ k # t.cur /\ t.todo[k] \in 1 .. now /\ s \in 1 .. Slots
  BY <1>2 DEF RunOK, Busy
<1>4. u[s] = r /\ \A x \in 1 .. Slots : x # s => u[x] = tasks[x]
  BY <1>2, <1>3 DEF CronTypes, TasksOK
<1>5. Busy = {s} /\ BusyIn(tasks) = {s}
  BY OneFinish, BusyNext
<1>6. BusyIn(u) = {s}
  BY <1>1, <1>3, <1>4, <1>5, CronConstants DEF BusyIn
<1> QED
  BY <1>1, <1>2, <1>3, <1>4, <1>6, BusyNext

LEMMA OneIsOver ==
    ASSUME CronTypes, OneTask, ~met, NEW s \in Busy, tasks' = [tasks EXCEPT ![s] = Idle]
    PROVE  Busy' = {}
<1>1. Busy = {s} /\ s \in 1 .. Slots
  BY OneFinish DEF Busy
<1>2. PICK u : u = tasks'
  OBVIOUS
<1>3. BusyIn(u) = BusyIn(tasks) \ {s}
  BY <1>1, <1>2, PutIdle DEF CronTypes
<1> QED
  BY <1>1, <1>2, <1>3, BusyNext

LEMMA OneStepTimer == CronTypes /\ OneTask /\ OnTimer => OneTask'
<1> SUFFICES ASSUME CronTypes, OneTask, OnTimer, ~met' PROVE OneTask'
  BY DEF OneTask
<1>1. wake # 0 /\ UNCHANGED met /\ now \in Nat
  BY OnTimerIs, CronConstants DEF CronTypes, CountsOK
<1>2. PICK l : IsLoaded(l) /\ Loading(l) /\ (TimerIdle(l) \/ \E j, s : TimerRuns(l, j, s))
  BY OnTimerIs
<1>3. CASE TimerIdle(l)
  <2>1. Busy' = {}
    BY <1>1, <1>3, OneTimer, BusyNext DEF TimerIdle
  <2> QED
    BY <2>1, OneIfIdle
<1>4. CASE \E j, s : TimerRuns(l, j, s)
  <2>1. PICK j, s : TimerRuns(l, j, s)
    BY <1>4
  <2>2. /\ Busy' = {s} /\ tasks'[s] = RunOf(l.mem, j) /\ j \in Jobs /\ j \in DOMAIN l.mem
        /\ l.mem[j].next \in 1 .. now
    BY <1>1, <1>2, <2>1, OneRuns
  <2>3. mem' = l.mem /\ wake' = 0 /\ active' = TRUE /\ Begins(j, l.mem[j].next)
    BY <2>1 DEF TimerRuns
  <2>4. ran'[j] <= now
    BY <2>2, <2>3, BeginsTypes
  <2>5. l.mem[j].last <= now
    BY <1>2, <2>2, InTable DEF Loading
  <2>6. PICK r : r = tasks'[s]
    OBVIOUS
  <2>7. r.lost = {} /\ r.cur = j /\ r.at = now /\ DOMAIN r.todo \subseteq DOMAIN l.mem
    BY <2>2, <2>6 DEF RunOf, Due
  <2>8. Settled(tasks[s])'
    BY <2>2, <2>3, <2>4, <2>5, <2>6, <2>7 DEF Settled
  <2> QED
    BY <2>2, <2>3, <2>8 DEF OneTask
<1> QED
  BY <1>2, <1>3, <1>4

LEMMA OneStepFinish == \A s : CronTypes /\ OneTask /\ FinishJob(s) => OneTask'
<1> SUFFICES ASSUME NEW s, CronTypes, OneTask, FinishJob(s), ~met' PROVE OneTask'
  BY DEF OneTask
<1>1. PICK t, m : t = tasks[s] /\ m = Finished(t)
  OBVIOUS
<1>2. s \in Busy /\ RunOK(t, now) /\ UNCHANGED <<met, now>> /\ (IsOver(s, m) \/ \E k : GoesOn(s, t, m, k))
  BY <1>1, FinishIs
<1>3. CASE IsOver(s, m)
  <2>1. Busy' = {}
    BY <1>2, <1>3, OneIsOver DEF IsOver
  <2> QED
    BY <2>1, OneIfIdle
<1>4. CASE \E k : GoesOn(s, t, m, k)
  <2>1. PICK k : GoesOn(s, t, m, k)
    BY <1>4
  <2>2. /\ Busy' = {s} /\ k \in DOMAIN t.todo /\ k \in Jobs /\ k # t.cur /\ t.todo[k] \in 1 .. now
        /\ tasks'[s] = [cur |-> k, due |-> t.todo[k], at |-> now,
                        todo |-> Drop(t.todo, {k}), lost |-> t.lost]
    BY <1>1, <1>2, <2>1, OneGoesOn
  <2>3. mem' = m /\ UNCHANGED <<wake, active>> /\ Begins(k, t.todo[k])
    BY <2>1 DEF GoesOn
  <2>4. wake = 0 /\ active /\ t.lost = {} /\ DOMAIN t.todo \subseteq DOMAIN mem
    BY <1>1, <1>2, OneFinish DEF Settled
  <2>5. ran'[k] <= now
    BY <2>2, <2>3, BeginsTypes
  <2>6. DOMAIN t.todo \ {t.cur} \subseteq DOMAIN m /\ TableOK(m, now)
    <3>1. /\ m = Drop(mem, {t.cur}) \/ Ran(m, t)
          /\ TableOK(m, now)
      BY <1>1, <1>2, FinishedIs
    <3>2. DOMAIN mem \ {t.cur} \subseteq DOMAIN m
      BY <3>1 DEF Ran, Drop
    <3> QED
      BY <2>4, <3>1, <3>2
  <2>7. k \in DOMAIN m /\ m[k].last <= now
    BY <2>2, <2>6, InTable
  <2>8. PICK r, d : r = tasks'[s] /\ d = Drop(t.todo, {k})
    OBVIOUS
  <2>9. DOMAIN d = DOMAIN t.todo \ {k}
    BY <2>8 DEF Drop
  <2>10. DOMAIN d \subseteq DOMAIN m
    BY <1>2, <2>6, <2>9 DEF RunOK
  <2>11. r.lost = {} /\ r.cur = k /\ r.at = now /\ r.todo = d
    BY <2>2, <2>4, <2>8
  <2>12. Settled(tasks[s])'
    BY <1>2, <2>3, <2>5, <2>7, <2>8, <2>10, <2>11 DEF Settled
  <2> QED
    BY <2>2, <2>3, <2>4, <2>12 DEF OneTask
<1> QED
  BY <1>2, <1>3, <1>4

LEMMA OneStep == CronTypes /\ OneTask /\ [CronNext]_cronVars => OneTask'
<1> SUFFICES ASSUME CronTypes, OneTask, [CronNext]_cronVars PROVE OneTask'
  OBVIOUS
<1>1. CASE UNCHANGED cronVars \/ Tick \/ Corrupt \/ External \/ Stop
  <2>1. UNCHANGED <<tasks, mem, active, ran, met>> /\ (wake' = wake \/ wake' = 0)
    <3>1. CASE External
      BY <3>1, ExternalIs DEF GatewayStays
    <3> QED
      BY <1>1, <3>1 DEF cronVars, Tick, Corrupt, Stop, disk, timer, history
  <2> QED
    BY <2>1, OneSame
<1>2. CASE Boot
  <2>1. Busy' = {}
    BY <1>2 DEF Boot, CronTypes, Shape, Busy
  <2> QED
    BY <2>1, OneIfIdle
<1>3. CASE Exit \/ Crash \/ CrashInMerge
  <2>1. tasks' = [s \in 1 .. Slots |-> Idle]
    BY <1>3 DEF Exit, Crash, CrashInMerge, Gone
  <2> QED
    BY <2>1, AllIdle, BusyNext, OneIfIdle
<1>4. CASE \E s : CancelJob(s)
  <2>1. PICK s : CancelJob(s)
    BY <1>4
  <2>2. s \in Busy /\ tasks' = [tasks EXCEPT ![s] = Idle] /\ met' = met
    BY <2>1, CancelIs
  <2>3. CASE ~met
    BY <2>2, <2>3, OneIsOver, OneIfIdle
  <2>4. CASE met
    BY <2>2, <2>4 DEF OneTask
  <2> QED
    BY <2>3, <2>4
<1>5. CASE Requests
  <2>1. PICK l, m, kept, e : Answered(l, m, kept, e)
    BY <1>5, RequestIs
  <2>2. met' = (met \/ Busy # {}) /\ Busy' = Busy
    BY <2>1 DEF Answered
  <2> QED
    BY <2>2 DEF OneTask
<1>6. CASE ReadJobs
  <2>1. UNCHANGED <<wake, active, met, ran>> /\ Busy' = Busy
    BY <1>6, ReadIs
  <2>2. PICK l : /\ Loading(l) /\ mem' = l.mem /\ tasks' = Detached(l)
    BY <1>6, ReadIs
  <2>3. CASE ~met /\ Busy # {}
    <3>1. UNCHANGED <<tasks, mem, active, ran, met, wake>>
      BY <2>1, <2>2, <2>3, OneLoad
    <3> QED
      BY <3>1, OneSame
  <2>4. CASE met \/ Busy = {}
    BY <2>1, <2>4 DEF OneTask
  <2> QED
    BY <2>3, <2>4
<1> QED
  BY <1>1, <1>2, <1>3, <1>4, <1>5, <1>6, OneStepTimer, OneStepFinish DEF CronNext, Runs

-----------------------------------------------------------------------------
(***************************************************************************)
(* The log.  The gateway's own jobs are never removed; and without another *)
(* process a running service finds nothing in it but removals, since it    *)
(* writes no lines itself.                                                 *)
(***************************************************************************)
Dels(lines, R) == \A i \in 1 .. Len(lines) : lines[i].op = "del" => lines[i].id \in R

LogOK ==
    /\ Dels(log, removed) /\ removed \cap System = {}
    /\ \A i \in 1 .. Len(ext) : ext[i].op # "add" /\ ext[i].id \notin System
    /\ ext # <<>> => "external" \in env
    /\ "external" \notin env /\ (proc = "running" \/ (active /\ ~met)) => Removals(log)

LEMMA LoadedLog == \A l : Loading(l) => l.log = log \/ l.log = <<>>
  BY DEF Loading, IsLoaded, IsLoadedTwice

LEMMA NoLines ==
    Removals(<<>>) /\ (\A R : Dels(<<>>, R)) /\ \A j : NoLine(<<>>, j)
  BY DEF Removals, Dels, NoLine

LEMMA LogSame ==
    ASSUME LogOK, UNCHANGED <<env, ext>>, log' = log \/ log' = <<>>,
           removed \subseteq removed', removed' \cap System = {},
           proc' = "running" \/ (active' /\ ~met') =>
               proc = "running" \/ (active /\ ~met) \/ Removals(log')
    PROVE  LogOK'
<1>1. Dels(log', removed')
  BY NoLines DEF LogOK, Dels
<1>2. "external" \notin env' /\ (proc' = "running" \/ (active' /\ ~met')) => Removals(log')
  BY NoLines DEF LogOK
<1> QED
  BY <1>1, <1>2 DEF LogOK

LEMMA AppendedLine ==
    ASSUME NEW z, NEW lines \in Seq(z), NEW e \in z, NEW i \in 1 .. Len(Append(lines, e))
    PROVE  \/ i \in 1 .. Len(lines) /\ Append(lines, e)[i] = lines[i]
           \/ Append(lines, e)[i] = e
<1>1. PICK v, n : v = Append(lines, e) /\ n = Len(lines)
  OBVIOUS
<1>2. /\ Len(v) = n + 1 /\ n \in Nat /\ v[n + 1] = e /\ \A k \in 1 .. n : v[k] = lines[k]
  BY <1>1
<1>3. i \in 1 .. n \/ i = n + 1
  BY <1>1, <1>2
<1> QED
  BY <1>1, <1>2, <1>3

LEMMA DelsAppend ==
    ASSUME NEW z, NEW lines \in Seq(z), NEW e \in z, NEW R, NEW Q, R \subseteq Q, Dels(lines, R),
           e.op = "del" => e.id \in Q
    PROVE  Dels(Append(lines, e), Q)
<1> SUFFICES ASSUME NEW i \in 1 .. Len(Append(lines, e)), Append(lines, e)[i].op = "del"
             PROVE  Append(lines, e)[i].id \in Q
  BY DEF Dels
<1>1. PICK x : x = Append(lines, e)[i]
  OBVIOUS
<1>2. (i \in 1 .. Len(lines) /\ x = lines[i]) \/ x = e
  BY <1>1, AppendedLine
<1> QED
  BY <1>1, <1>2 DEF Dels

LEMMA LogRequests == CronTypes /\ LogOK /\ Requests => LogOK'
<1> SUFFICES ASSUME CronTypes, LogOK, Requests PROVE LogOK'
  OBVIOUS
<1>0. PICK j \in Jobs : \E l, m, kept, e :
               /\ Loading(l) /\ Answered(l, m, kept, e)
               /\ \/ Adds(l, j, m, kept, e) \/ Removes(l, j, m, kept, e)
                  \/ \E job : Changes(l, j, m, kept, e, job) \/ Registers(l, j, m, job)
  BY RequestIs
<1>1. PICK l, m, kept, e :
               /\ Loading(l) /\ Answered(l, m, kept, e)
               /\ \/ Adds(l, j, m, kept, e) \/ Removes(l, j, m, kept, e)
                  \/ \E job : Changes(l, j, m, kept, e, job) \/ Registers(l, j, m, job)
  BY <1>0
<1>2. UNCHANGED <<env, ext, proc, active>> /\ met' = (met \/ Busy # {})
  BY <1>1 DEF Answered
<1>3. removed \subseteq removed' /\ removed' \cap System = {}
  BY <1>1 DEF Adds, Removes, Changes, Registers, LogOK
<1>4. l.log = log \/ l.log = <<>>
  BY <1>1, LoadedLog
<1>5. CASE proc = "running"
  <2>1. log' = l.log
    BY <1>1, <1>5 DEF Answered
  <2> QED
    BY <1>2, <1>3, <1>4, <1>5, <2>1, LogSame
<1>6. CASE proc = "stopping"
  <2>1. log' = Append(l.log, e) /\ e \in LineType /\ l.log \in Seq(LineType)
    BY <1>1, <1>6 DEF Answered, Loading, LinesOK
  <2>2. e.op = "del" => e.id \in removed'
    BY <1>1, <1>6 DEF Adds, Removes, Changes, Registers, Line
  <2>3. Dels(l.log, removed)
    BY <1>4, NoLines DEF LogOK
  <2>4. Dels(log', removed')
    BY <1>3, <2>1, <2>2, <2>3, DelsAppend
  <2>5. ~(active' /\ ~met')
    BY <1>2 DEF CronTypes, Shape
  <2> QED
    BY <1>2, <1>3, <1>6, <2>4, <2>5 DEF LogOK
<1> QED
  BY <1>1, <1>5, <1>6 DEF Answered

LEMMA LogExternal == CronTypes /\ LogOK /\ External => LogOK'
<1> SUFFICES ASSUME CronTypes, LogOK, External PROVE LogOK'
  OBVIOUS
<1>1. UNCHANGED <<env, proc, active, met>> /\ log \in Seq(LineType)
  BY ExternalIs DEF GatewayStays, CronTypes, StoreOK, LinesOK
<1>2. CASE "external" \in env /\ \E j \in Jobs : ExtAdds(j)
  <2>1. PICK j \in Jobs : ExtAdds(j)
    BY <1>2
  <2>2. PICK e : e = Line("add", j, NewJob(j))
    OBVIOUS
  <2>3. e \in LineType /\ e.op = "add"
    <3>1. NewJob(j) \in Job /\ NewJob(j).last <= now
      BY NextRunIs, CronConstants DEF CronTypes, CountsOK
    <3> QED
      BY <2>2, <3>1, LineIs
  <2>4. Dels(log', removed')
    BY <1>1, <2>1, <2>2, <2>3, DelsAppend DEF LogOK, ExtAdds
  <2> QED
    BY <1>1, <1>2, <2>1, <2>4 DEF LogOK, ExtAdds
<1>3. CASE "external" \in env /\ \E j, e : ExtReads(j, e) /\ e \in LineType /\ e.job.last <= now
  <2>1. PICK j, e : ExtReads(j, e)
    BY <1>3
  <2>2. PICK x : x = ext'
    OBVIOUS
  <2>3. x = <<e>> /\ e.op # "add" /\ e.id \notin System /\ UNCHANGED <<log, removed>>
    BY <2>1, <2>2 DEF ExtReads
  <2>4. \A i \in 1 .. Len(x) : x[i].op # "add" /\ x[i].id \notin System
    BY <2>3
  <2> QED
    BY <1>1, <1>3, <2>2, <2>3, <2>4 DEF LogOK
<1>4. CASE \E e \in LineType : ExtWrites(e) /\ e.job.last <= now
  <2>1. PICK e \in LineType : ExtWrites(e)
    BY <1>4
  <2>2. /\ ext # <<>> /\ e = ext[1] /\ 1 \in 1 .. Len(ext) /\ log' = Append(log, e) /\ ext' = <<>>
    BY <2>1 DEF ExtWrites
  <2>3. "external" \in env /\ e.id \notin System
    BY <2>2 DEF LogOK
  <2>4. /\ removed \subseteq removed' /\ (e.op = "del" => e.id \in removed')
        /\ removed' \cap System = {}
    BY <2>1, <2>3 DEF ExtWrites, LogOK
  <2>5. Dels(log', removed')
    BY <1>1, <2>2, <2>4, DelsAppend DEF LogOK
  <2>6. \A i \in 1 .. Len(ext') : FALSE
    BY <2>2
  <2> QED
    BY <1>1, <2>2, <2>3, <2>4, <2>5, <2>6 DEF LogOK
<1> QED
  BY <1>2, <1>3, <1>4, ExternalIs

LEMMA LogStep == CronTypes /\ OneTask /\ LogOK /\ [CronNext]_cronVars => LogOK'
<1> SUFFICES ASSUME CronTypes, OneTask, LogOK, [CronNext]_cronVars PROVE LogOK'
  OBVIOUS
<1>0. removed \cap System = {}
  BY DEF LogOK
<1>1. CASE UNCHANGED cronVars \/ Tick \/ Corrupt \/ Exit \/ Crash \/ CrashInMerge
  <2>1. /\ UNCHANGED <<env, ext, removed, met>> /\ (log' = log \/ log' = <<>>)
        /\ UNCHANGED <<proc, active>> \/ (proc' = "down" /\ active' = FALSE)
    BY <1>1 DEF cronVars, Tick, Corrupt, Exit, Crash, CrashInMerge, Gone, disk, timer, history
  <2> QED
    BY <1>0, <2>1, LogSame
<1>2. CASE Boot
  <2>1. log' = <<>> \/ (log' = log /\ Removals(log))
    BY <1>2, BootIs
  <2>2. UNCHANGED <<env, ext, removed>>
    BY <1>2 DEF Boot, history
  <2> QED
    BY <1>0, <2>1, <2>2, LogSame, NoLines
<1>3. CASE Stop
  <2>1. UNCHANGED <<env, ext, removed, log, active, met>> /\ proc = "running"
    BY <1>3 DEF Stop, disk, history
  <2> QED
    BY <1>0, <2>1, LogSame
<1>4. CASE OnTimer
  <2>1. proc = "running" /\ UNCHANGED <<env, ext, removed>>
    BY <1>4, OnTimerIs
  <2>2. PICK l : Loading(l) /\ (TimerIdle(l) \/ \E j, s : TimerRuns(l, j, s))
    BY <1>4, OnTimerIs
  <2>3. log' = log \/ log' = <<>>
    BY <2>2, LoadedLog DEF TimerIdle, TimerRuns, Saves
  <2> QED
    BY <1>0, <2>1, <2>3, LogSame
<1>5. CASE \E s : FinishJob(s)
  <2>1. PICK s : FinishJob(s)
    BY <1>5
  <2>2. PICK t, m : t = tasks[s] /\ m = Finished(t)
    OBVIOUS
  <2>3. /\ proc = "running" /\ UNCHANGED <<env, ext, removed>>
        /\ IsOver(s, m) \/ \E k : GoesOn(s, t, m, k)
    BY <2>1, <2>2, FinishIs
  <2>4. log' = log
    BY <2>3, StoreIs DEF IsOver, GoesOn, Saves
  <2> QED
    BY <1>0, <2>3, <2>4, LogSame
<1>6. CASE \E s : CancelJob(s)
  <2>1. PICK s : CancelJob(s)
    BY <1>6
  <2>2. UNCHANGED <<env, ext, removed, log, proc>> /\ active' = FALSE /\ proc = "stopping"
    BY <2>1, CancelIs
  <2> QED
    BY <1>0, <2>2, LogSame
<1>7. CASE ReadJobs
  <2>1. UNCHANGED <<env, ext, removed, proc, active, met>>
    BY <1>7, ReadIs
  <2>2. log' = log \/ log' = <<>>
    BY <1>7, ReadIs, LoadedLog
  <2> QED
    BY <1>0, <2>1, <2>2, LogSame
<1> QED
  BY <1>1, <1>2, <1>3, <1>4, <1>5, <1>6, <1>7, LogRequests, LogExternal DEF CronNext, Runs

-----------------------------------------------------------------------------
(***************************************************************************)
(* A job's next run is after the last one it was run for, except for the   *)
(* jobs of the gateway when a crash or a spoilt file loses a run.          *)
(***************************************************************************)
RunJobs == {tasks[s].cur : s \in Busy}

Excused == IF env \cap {"crash", "corrupt"} # {} THEN System ELSE {}

Ahead(m, S, r, X) ==
    \A j \in DOMAIN m \ S : m[j].on /\ m[j].next # 0 => m[j].next > r[j] \/ j \in X

WaitsAhead(ts, r, X) ==
    \A s \in BusyIn(ts) : \A k \in DOMAIN ts[s].todo : ts[s].todo[k] > r[k] \/ k \in X

DueInv ==
    Quiet =>
        /\ twice \subseteq Excused
        /\ proc = "running" =>
              /\ Ahead(mem, RunJobs, ran, Excused) /\ WaitsAhead(tasks, ran, Excused)
              /\ ~active => Ahead(file, {}, ran, Excused)

\* Without those, the gateway's jobs have their last run on record.
Recorded(m, S, r) == \A j \in System \ S : IF j \in DOMAIN m THEN m[j].last >= r[j] ELSE r[j] = 0

LinesRecorded(lines, r) ==
    \A i \in 1 .. Len(lines) : lines[i].id \in System => lines[i].job.last >= r[lines[i].id]

RecordInv ==
    Quiet /\ env \cap {"crash", "corrupt"} = {} =>
        /\ proc # "down" => Recorded(mem, RunJobs, ran)
        /\ ~active => Recorded(file, {}, ran) /\ LinesRecorded(log, ran)

LEMMA WorkingNext == RunJobs' = {tasks'[s].cur : s \in Busy'}
  BY DEF RunJobs

LEMMA MetGrows == CronTypes /\ [CronNext]_cronVars => env' = env /\ (met => met')
<1> SUFFICES ASSUME CronTypes, [CronNext]_cronVars PROVE env' = env /\ (met => met')
  OBVIOUS
<1>1. CASE UNCHANGED cronVars \/ Tick \/ Boot \/ Stop \/ Exit \/ Crash \/ CrashInMerge \/ Corrupt
  BY <1>1 DEF cronVars, Tick, Boot, Stop, Exit, Crash, CrashInMerge, Corrupt, history
<1>2. CASE OnTimer
  BY <1>2, OnTimerIs
<1>3. CASE Runs
  BY <1>3, FinishIs, CancelIs DEF Runs
<1>4. CASE Requests
  <2>1. PICK l, m, kept, e : Answered(l, m, kept, e)
    BY <1>4, RequestIs
  <2> QED
    BY <2>1 DEF Answered
<1>5. CASE ReadJobs
  BY <1>5, ReadIs
<1>6. CASE External
  BY <1>6, ExternalIs DEF GatewayStays
<1> QED
  BY <1>1, <1>2, <1>3, <1>4, <1>5, <1>6 DEF CronNext

LEMMA ReplayRemovals ==
    ASSUME NEW z, NEW lines \in Seq(z), Removals(lines), NEW m
    PROVE  /\ DOMAIN Replayed(m, lines) \subseteq DOMAIN m
           /\ \A j \in DOMAIN Replayed(m, lines) : /\ NoLine(lines, j) /\ j \in DOMAIN m
                                                   /\ Replayed(m, lines)[j] = m[j]
<1>1. PICK r, D : r = Replayed(m, lines) /\ D = DOMAIN m
  OBVIOUS
<1>2. ASSUME NEW j \in DOMAIN r
      PROVE  NoLine(lines, j) /\ j \in DOMAIN m /\ r[j] = m[j]
  <2>1. There(D, lines, j)
    BY <1>1, <1>2, ReplayedIs
  <2>2. NoLine(lines, j) /\ j \in D
    BY <2>1, ThereRemovals
  <2> QED
    BY <1>1, <2>2, ReplayedIs
<1> QED
  BY <1>1, <1>2

LEMMA AheadLoad ==
    ASSUME CronTypes, ~active, Removals(log), NEW r, NEW X, Ahead(mem, {}, r, X), Ahead(file, {}, r, X),
           NEW l, Loading(l)
    PROVE  Ahead(l.mem, {}, r, X) /\ Ahead(l.file, {}, r, X)
<1>1. log \in Seq(LineType)
  BY DEF CronTypes, StoreOK, LinesOK
<1>2. Ahead(Replayed(file, log), {}, r, X)
  BY <1>1, ReplayRemovals DEF Ahead
<1>3. Ahead(<<>>, {}, r, X)
  BY DEF Ahead
<1>4. Ahead(Replayed(<<>>, log), {}, r, X)
  BY <1>1, <1>3, ReplayRemovals DEF Ahead
<1>5. CASE IsLoaded(l)
  BY <1>2, <1>3, <1>5 DEF IsLoaded
<1>6. CASE IsLoadedTwice(l)
  BY <1>3, <1>4, <1>6 DEF IsLoadedTwice
<1> QED
  BY <1>5, <1>6 DEF Loading

LEMMA ReplayRecorded ==
    ASSUME NEW z, NEW lines \in Seq(z), NEW R, Dels(lines, R), R \cap System = {},
           NEW r, NEW m, Recorded(m, {}, r), LinesRecorded(lines, r)
    PROVE  Recorded(Replayed(m, lines), {}, r)
<1>1. PICK a, D : a = Replayed(m, lines) /\ D = DOMAIN m
  OBVIOUS
<1>2. ASSUME NEW j \in System PROVE IF j \in DOMAIN a THEN a[j].last >= r[j] ELSE r[j] = 0
  <2>1. CASE NoLine(lines, j)
    <3>1. ~Gives(lines, j)
      BY <2>1 DEF Gives, NoLine, LastFor
    <3>2. j \in DOMAIN a <=> j \in D
      BY <1>1, <2>1, <3>1, ReplayedIs DEF There
    <3>3. j \in DOMAIN m => a[j] = m[j]
      BY <1>1, <2>1, ReplayedIs
    <3> QED
      BY <1>1, <3>2, <3>3 DEF Recorded
  <2>2. CASE ~NoLine(lines, j)
    <3>1. PICK i : LastFor(lines, j, i)
      BY <2>2, LastLine
    <3>2. i \in 1 .. Len(lines) /\ lines[i].id = j /\ lines[i].op # "del"
      BY <3>1 DEF LastFor, Dels
    <3>3. Gives(lines, j)
      BY <3>1, <3>2 DEF Gives
    <3>4. j \in DOMAIN a /\ a[j] = lines[i].job
      BY <1>1, <3>1, <3>2, <3>3, ReplayedIs DEF There
    <3>5. lines[i].job.last >= r[j]
      BY <3>2 DEF LinesRecorded
    <3> QED
      BY <3>4, <3>5
  <2> QED
    BY <2>1, <2>2
<1> QED
  BY <1>1, <1>2 DEF Recorded

LEMMA RecordLoad ==
    ASSUME CronTypes, LogOK, ~active, ~bad, NEW r, Recorded(file, {}, r), LinesRecorded(log, r),
           NEW l, Loading(l)
    PROVE  Recorded(l.mem, {}, r) /\ Recorded(l.file, {}, r) /\ LinesRecorded(l.log, r)
<1>1. log \in Seq(LineType)
  BY DEF CronTypes, StoreOK, LinesOK
<1>2. Recorded(Replayed(file, log), {}, r)
  BY <1>1, ReplayRecorded DEF LogOK
<1>3. LinesRecorded(<<>>, r)
  BY DEF LinesRecorded
<1>4. IsLoaded(l)
  BY DEF Loading, IsLoadedTwice
<1> QED
  BY <1>2, <1>3, <1>4 DEF IsLoaded

\* The gateway's jobs when it starts.
LEMMA BootRecorded ==
    ASSUME CronTypes, LogOK, NEW r, Recorded(file, {}, r), LinesRecorded(log, r)
    PROVE  Recorded(Replayed(AtBoot, log), {}, r)
<1>1. log \in Seq(LineType) /\ Dels(log, removed) /\ removed \cap System = {}
  BY DEF CronTypes, StoreOK, LinesOK, LogOK
<1>2. PICK m : m = Replayed(file, log)
  OBVIOUS
<1>3. Recorded(m, {}, r) /\ TableOK(m, now) /\ now \in 1 .. Horizon
  BY <1>1, <1>2, ReplayRecorded, ReplayedTable DEF CronTypes, StoreOK, CountsOK
<1>4. Recorded(AtBoot, {}, r)
  <2>1. CASE System = {}
    BY <2>1 DEF Recorded
  <2>2. CASE System # {}
    <3>1. AtBoot = AllRegistered(m)
      BY <1>2, <2>2 DEF AtBoot
    <3>2. ASSUME NEW j \in System
          PROVE  j \in DOMAIN AllRegistered(m) /\ AllRegistered(m)[j].last >= r[j]
      <4>1. /\ j \in DOMAIN AllRegistered(m)
            /\ AllRegistered(m)[j].last = IF j \in DOMAIN m THEN m[j].last ELSE 0
        BY <1>3, AllRegisteredIs
      <4>2. IF j \in DOMAIN m THEN m[j].last >= r[j] ELSE r[j] = 0
        BY <1>3 DEF Recorded
      <4>3. j \notin DOMAIN m => AllRegistered(m)[j].last = 0 /\ r[j] = 0
        BY <4>1, <4>2
      <4> QED
        BY <4>1, <4>2, <4>3
    <3> QED
      BY <3>1, <3>2 DEF Recorded
  <2> QED
    BY <2>1, <2>2
<1> QED
  BY <1>1, <1>4, ReplayRecorded

LEMMA RecordTimer ==
    ASSUME CronTypes, OneTask, LogOK, RecordInv, OnTimer, Quiet, env \cap {"crash", "corrupt"} = {}
    PROVE  Recorded(mem', RunJobs', ran') /\ (~active' => Recorded(file', {}, ran') /\ LinesRecorded(log', ran'))
<1>1. wake # 0 /\ ~met /\ "disk" \notin env /\ ~bad
  BY OnTimerIs DEF Quiet, CronTypes, Shape
<1>2. PICK l : IsLoaded(l) /\ Loading(l) /\ (TimerIdle(l) \/ \E j, s : TimerRuns(l, j, s))
  BY OnTimerIs
<1>3. Busy = {} /\ ~active /\ Detached(l) = tasks
  BY <1>1, OneTimer
<1>4. Recorded(l.mem, {}, ran) /\ Recorded(l.file, {}, ran) /\ LinesRecorded(l.log, ran)
  BY <1>1, <1>2, <1>3, RecordLoad DEF RecordInv
<1>5. CASE TimerIdle(l)
  <2>1. Busy' = {}
    BY <1>3, <1>5, BusyNext DEF TimerIdle
  <2>2. RunJobs' = {}
    BY <2>1, WorkingNext
  <2> QED
    BY <1>1, <1>4, <1>5, <2>2 DEF TimerIdle, Saves
<1>6. CASE \E j, s : TimerRuns(l, j, s)
  <2>1. PICK j, s : TimerRuns(l, j, s)
    BY <1>6
  <2>2. /\ Busy' = {s} /\ tasks'[s] = RunOf(l.mem, j) /\ j \in Jobs
        /\ l.mem[j].next \in 1 .. now
    BY <1>1, <1>2, <2>1, OneRuns
  <2>3. mem' = l.mem /\ active' = TRUE /\ Begins(j, l.mem[j].next)
    BY <2>1 DEF TimerRuns
  <2>4. RunJobs' = {j}
    BY <2>2, WorkingNext DEF RunOf
  <2>5. \A k \in Jobs : k # j => ran'[k] = ran[k]
    BY <2>2, <2>3, BeginsTypes
  <2>6. Recorded(mem', {j}, ran')
    BY <1>4, <2>3, <2>5, CronConstants DEF Recorded
  <2> QED
    BY <2>3, <2>4, <2>6
<1> QED
  BY <1>2, <1>5, <1>6

LEMMA RemovalsRecorded ==
    ASSUME Removals(log), LogOK, NEW r
    PROVE  LinesRecorded(log, r)
  BY DEF Removals, LogOK, Dels, LinesRecorded

\* A job that ended is on record.
LEMMA EndedRecorded ==
    ASSUME CronTypes, OneTask, Quiet, NEW s \in Busy, NEW t, t = tasks[s],
           Recorded(mem, RunJobs, ran), NEW m, Ran(m, t) \/ (t.cur \notin System /\ m = Drop(mem, {t.cur}))
    PROVE  Recorded(m, {}, ran)
<1>1. ~met /\ Busy = {s} /\ Settled(t) /\ Has(t)
  BY OneFinish DEF Quiet
<1>2. RunJobs = {t.cur}
  BY <1>1 DEF RunJobs
<1>3. \A j \in System : j # t.cur => IF j \in DOMAIN mem THEN mem[j].last >= ran[j] ELSE ran[j] = 0
  BY <1>2 DEF Recorded
<1>4. CASE Ran(m, t)
  <2>1. /\ DOMAIN m = DOMAIN mem /\ (\A k \in DOMAIN mem : k # t.cur => m[k] = mem[k])
        /\ m[t.cur].last = t.at /\ t.cur \in DOMAIN mem
    BY <1>1, <1>4 DEF Ran, Settled
  <2>2. RunOK(t, now) /\ ran \in [Jobs -> Nat] /\ now \in Nat
    BY BusyRuns, BusyNext, CronConstants DEF CronTypes, HistoryOK, CountsOK
  <2>3. m[t.cur].last >= ran[t.cur]
    BY <1>1, <2>1, <2>2 DEF Settled, RunOK
  <2> QED
    BY <1>3, <2>1, <2>3 DEF Recorded
<1>5. CASE t.cur \notin System /\ m = Drop(mem, {t.cur})
  <2>1. DOMAIN m = DOMAIN mem \ {t.cur} /\ \A k \in DOMAIN m : m[k] = mem[k]
    BY <1>5 DEF Drop
  <2> QED
    BY <1>3, <1>5, <2>1 DEF Recorded
<1> QED
  BY <1>4, <1>5

LEMMA FinishedEither ==
    ASSUME CronTypes, NEW t, RunOK(t, now)
    PROVE  \/ Ran(Finished(t), t) /\ Schedule[t.cur] # "once"
           \/ Schedule[t.cur] = "once" /\ t.cur \notin System /\ Finished(t) = Drop(mem, {t.cur})
  BY FinishedIs, CronConstants

LEMMA RecordFinish ==
    ASSUME CronTypes, OneTask, LogOK, RecordInv, NEW s, FinishJob(s), Quiet,
           env \cap {"crash", "corrupt"} = {}
    PROVE  Recorded(mem', RunJobs', ran') /\ (~active' => Recorded(file', {}, ran') /\ LinesRecorded(log', ran'))
<1>1. PICK t, m : t = tasks[s] /\ m = Finished(t)
  OBVIOUS
<1>2. /\ proc = "running" /\ s \in Busy /\ RunOK(t, now)
      /\ IsOver(s, m) \/ \E k : GoesOn(s, t, m, k)
  BY <1>1, FinishIs
<1>3. Recorded(m, {}, ran)
  <2>1. Recorded(mem, RunJobs, ran)
    BY <1>2 DEF RecordInv
  <2>2. Ran(m, t) \/ (t.cur \notin System /\ m = Drop(mem, {t.cur}))
    BY <1>1, <1>2, FinishedEither
  <2> QED
    BY <1>1, <1>2, <2>1, <2>2, EndedRecorded
<1>4. ~met /\ "disk" \notin env /\ "external" \notin env
  BY DEF Quiet
<1>5. CASE IsOver(s, m)
  <2>1. Busy' = {}
    BY <1>2, <1>4, <1>5, OneIsOver DEF IsOver
  <2>2. RunJobs' = {}
    BY <2>1, WorkingNext
  <2>3. LinesRecorded(log, ran)
    BY <1>2, <1>4, RemovalsRecorded DEF LogOK
  <2> QED
    BY <1>3, <1>4, <1>5, <2>2, <2>3, StoreIs DEF IsOver, Saves
<1>6. CASE \E k : GoesOn(s, t, m, k)
  <2>1. PICK k : GoesOn(s, t, m, k)
    BY <1>6
  <2>2. /\ Busy' = {s} /\ k \in Jobs /\ t.todo[k] \in 1 .. now
        /\ tasks'[s] = [cur |-> k, due |-> t.todo[k], at |-> now,
                        todo |-> Drop(t.todo, {k}), lost |-> t.lost]
    BY <1>1, <1>2, <1>4, <2>1, OneGoesOn
  <2>3. mem' = m /\ UNCHANGED active /\ Begins(k, t.todo[k]) /\ active
    BY <1>2, <1>4, <2>1, OneFinish DEF GoesOn
  <2>4. RunJobs' = {k}
    BY <2>2, WorkingNext
  <2>5. \A i \in Jobs : i # k => ran'[i] = ran[i]
    BY <2>2, <2>3, BeginsTypes
  <2>6. Recorded(mem', {k}, ran')
    BY <1>3, <2>3, <2>5, CronConstants DEF Recorded
  <2> QED
    BY <2>3, <2>4, <2>6
<1> QED
  BY <1>2, <1>5, <1>6

LEMMA RecordCancel ==
    ASSUME CronTypes, OneTask, LogOK, RecordInv, NEW s, CancelJob(s), Quiet,
           env \cap {"crash", "corrupt"} = {}
    PROVE  Recorded(mem', RunJobs', ran') /\ Recorded(file', {}, ran') /\ LinesRecorded(log', ran')
<1>1. PICK t, m : t = tasks[s] /\ m = mem'
  OBVIOUS
<1>2. /\ proc = "stopping" /\ s \in Busy /\ RunOK(t, now) /\ Ran(m, t) /\ file' = m
      /\ tasks' = [tasks EXCEPT ![s] = Idle] /\ UNCHANGED <<log, ran>>
  BY <1>1, CancelIs
<1>3. ~met /\ "external" \notin env /\ active
  BY <1>2, OneFinish DEF Quiet
<1>4. Recorded(mem, RunJobs, ran)
  BY <1>2 DEF RecordInv
<1>5. Recorded(m, {}, ran)
  BY <1>1, <1>2, <1>4, EndedRecorded
<1>6. Busy' = {}
  BY <1>2, <1>3, OneIsOver
<1>7. RunJobs' = {}
  BY <1>6, WorkingNext
<1>8. LinesRecorded(log, ran)
  BY <1>3, RemovalsRecorded DEF LogOK
<1> QED
  BY <1>1, <1>2, <1>5, <1>7, <1>8

LEMMA PutRecorded ==
    ASSUME NEW r, NEW m, Recorded(m, {}, r), NEW j, NEW job, j \in System => job.last >= r[j]
    PROVE  Recorded(Put(m, j, job), {}, r)
<1>1. PICK p : p = Put(m, j, job)
  OBVIOUS
<1>2. /\ DOMAIN p = DOMAIN m \cup {j} /\ p[j] = job
      /\ \A i \in DOMAIN m : i # j => p[i] = m[i]
  BY <1>1 DEF Put
<1> QED
  BY <1>1, <1>2 DEF Recorded

LEMMA DropRecorded ==
    ASSUME NEW r, NEW m, Recorded(m, {}, r), NEW j, j \notin System
    PROVE  Recorded(Drop(m, {j}), {}, r)
<1>1. PICK p : p = Drop(m, {j})
  OBVIOUS
<1>2. DOMAIN p = DOMAIN m \ {j} /\ \A i \in DOMAIN p : p[i] = m[i]
  BY <1>1 DEF Drop
<1> QED
  BY <1>1, <1>2 DEF Recorded

LEMMA RecordRequests ==
    ASSUME CronTypes, OneTask, LogOK, RecordInv, Requests, Quiet, ~met',
           env \cap {"crash", "corrupt"} = {}
    PROVE  Recorded(mem', RunJobs', ran') /\ Recorded(file', {}, ran') /\ LinesRecorded(log', ran')
<1>0. PICK j \in Jobs : \E l, m, kept, e :
               /\ Loading(l) /\ Answered(l, m, kept, e)
               /\ \/ Adds(l, j, m, kept, e) \/ Removes(l, j, m, kept, e)
                  \/ \E job : Changes(l, j, m, kept, e, job) \/ Registers(l, j, m, job)
  BY RequestIs
<1>1. PICK l, m, kept, e :
               /\ Loading(l) /\ Answered(l, m, kept, e)
               /\ \/ Adds(l, j, m, kept, e) \/ Removes(l, j, m, kept, e)
                  \/ \E job : Changes(l, j, m, kept, e, job) \/ Registers(l, j, m, job)
  BY <1>0
<1>2. Busy = {} /\ Busy' = {} /\ ~active /\ ~bad /\ UNCHANGED ran
  BY <1>1 DEF Answered, CronTypes, Shape
<1>3. RunJobs' = {}
  BY <1>2, WorkingNext
<1>4. Recorded(l.mem, {}, ran) /\ Recorded(l.file, {}, ran) /\ LinesRecorded(l.log, ran)
  BY <1>1, <1>2, RecordLoad DEF RecordInv
<1>5. Recorded(m, {}, ran)
  <2>1. CASE Adds(l, j, m, kept, e)
    BY <1>4, <2>1, PutRecorded DEF Adds, Unused
  <2>2. CASE Removes(l, j, m, kept, e)
    BY <1>4, <2>2, DropRecorded DEF Removes
  <2>3. CASE \E job : Changes(l, j, m, kept, e, job) \/ Registers(l, j, m, job)
    <3>1. PICK job : Changes(l, j, m, kept, e, job) \/ Registers(l, j, m, job)
      BY <2>3
    <3>2. m = Put(l.mem, j, job) /\ job.last = IF j \in DOMAIN l.mem THEN l.mem[j].last ELSE 0
      BY <3>1 DEF Changes, Registers, Renewed
    <3>3. j \in System => job.last >= ran[j]
      <4>1. j \in System => IF j \in DOMAIN l.mem THEN l.mem[j].last >= ran[j] ELSE ran[j] = 0
        BY <1>4 DEF Recorded
      <4>2. j \in System /\ j \notin DOMAIN l.mem => job.last = 0 /\ ran[j] = 0
        BY <3>2, <4>1
      <4> QED
        BY <3>2, <4>1, <4>2
    <3> QED
      BY <1>4, <3>2, <3>3, PutRecorded
  <2> QED
    BY <1>1, <2>1, <2>2, <2>3
<1>6. CASE proc = "running"
  BY <1>1, <1>2, <1>3, <1>4, <1>5, <1>6 DEF Answered
<1>7. CASE proc = "stopping"
  <2>1. mem' = kept /\ file' = l.file /\ log' = Append(l.log, e) /\ e \in LineType
        /\ l.log \in Seq(LineType)
    BY <1>1, <1>7 DEF Answered, Loading, LinesOK
  <2>2. kept = l.mem \/ kept = m
    BY <1>1, <1>7 DEF Adds, Removes, Changes, Registers
  <2>3. e.id \in System => e.job.last >= ran[e.id]
    <3>1. CASE Adds(l, j, m, kept, e)
      BY <3>1 DEF Adds, Unused, Line
    <3>2. CASE Removes(l, j, m, kept, e)
      BY <3>2 DEF Removes, Line
    <3>3. CASE \E job : Changes(l, j, m, kept, e, job)
      <4>1. PICK job : Changes(l, j, m, kept, e, job)
        BY <3>3
      <4>2. /\ e.id = j /\ e.job = job /\ job.last = l.mem[j].last /\ j \in DOMAIN l.mem
        BY <4>1 DEF Changes, Renewed, Line
      <4> QED
        BY <1>4, <4>2 DEF Recorded
    <3> QED
      BY <1>1, <1>7, <3>1, <3>2, <3>3 DEF Registers
  <2>4. LinesRecorded(log', ran)
    <3>1. PICK v : v = log'
      OBVIOUS
    <3>2. ASSUME NEW i \in 1 .. Len(v), v[i].id \in System PROVE v[i].job.last >= ran[v[i].id]
      <4>1. PICK x : x = v[i]
        OBVIOUS
      <4>2. (i \in 1 .. Len(l.log) /\ x = l.log[i]) \/ x = e
        BY <2>1, <3>1, <4>1, AppendedLine
      <4> QED
        BY <1>4, <2>3, <3>2, <4>1, <4>2 DEF LinesRecorded
    <3> QED
      BY <3>1, <3>2 DEF LinesRecorded
  <2> QED
    BY <1>2, <1>3, <1>4, <1>5, <2>1, <2>2, <2>4
<1> QED
  BY <1>1, <1>6, <1>7 DEF Answered

LEMMA RecordBoot ==
    ASSUME CronTypes, LogOK, RecordInv, Boot, Quiet, env \cap {"crash", "corrupt"} = {}
    PROVE  Recorded(mem', RunJobs', ran') /\ Recorded(file', {}, ran') /\ LinesRecorded(log', ran')
<1>1. Busy = {} /\ ~active /\ UNCHANGED <<tasks, ran>> /\ now \in 1 .. Horizon
  BY DEF Boot, history, CronTypes, Shape, CountsOK
<1>2. RunJobs' = {}
  BY <1>1, WorkingNext, BusyNext
<1>3. Recorded(file, {}, ran) /\ LinesRecorded(log, ran)
  BY <1>1 DEF RecordInv
<1>4. PICK m : m = Replayed(AtBoot, log)
  OBVIOUS
<1>5. Recorded(m, {}, ran) /\ TableOK(m, now) /\ mem' = Restarted(m) /\ file' = mem'
  BY <1>3, <1>4, BootRecorded, BootIs
<1>6. Recorded(Restarted(m), {}, ran)
  <2>1. DOMAIN Restarted(m) = DOMAIN m /\ \A j \in DOMAIN m : Restarted(m)[j].last = m[j].last
    BY <1>1, <1>5, RestartedIs
  <2> QED
    BY <1>5, <2>1 DEF Recorded
<1>7. log' = <<>> \/ log' = log
  BY BootIs
<1>8. LinesRecorded(log', ran)
  BY <1>3, <1>7 DEF LinesRecorded
<1> QED
  BY <1>1, <1>2, <1>5, <1>6, <1>8

LEMMA RecordRead ==
    ASSUME CronTypes, OneTask, LogOK, RecordInv, ReadJobs, Quiet, env \cap {"crash", "corrupt"} = {}
    PROVE  Recorded(mem', RunJobs', ran') /\ (~active' => Recorded(file', {}, ran') /\ LinesRecorded(log', ran'))
<1>1. /\ proc # "down" /\ Busy' = Busy /\ UNCHANGED <<active, ran>> /\ ~met /\ ~bad
  BY ReadIs DEF Quiet, CronTypes, Shape
<1>2. PICK l : /\ Loading(l) /\ mem' = l.mem /\ file' = l.file /\ log' = l.log /\ tasks' = Detached(l)
  BY ReadIs
<1>3. CASE Busy # {}
  <2>1. UNCHANGED <<mem, file, log, tasks>> /\ active
    BY <1>1, <1>2, <1>3, OneLoad
  <2> QED
    BY <1>1, <2>1 DEF RecordInv, RunJobs
<1>4. CASE Busy = {}
  <2>1. ~active /\ RunJobs' = {}
    BY <1>1, <1>4, WorkingNext DEF CronTypes, Shape
  <2>2. Recorded(l.mem, {}, ran) /\ Recorded(l.file, {}, ran) /\ LinesRecorded(l.log, ran)
    BY <1>1, <1>2, <2>1, RecordLoad DEF RecordInv
  <2> QED
    BY <1>1, <1>2, <2>1, <2>2
<1> QED
  BY <1>3, <1>4

LEMMA RecordStep ==
    CronTypes /\ OneTask /\ LogOK /\ RecordInv /\ [CronNext]_cronVars => RecordInv'
<1> SUFFICES ASSUME CronTypes, OneTask, LogOK, RecordInv, [CronNext]_cronVars, Quiet',
                    env' \cap {"crash", "corrupt"} = {}
             PROVE  /\ proc' # "down" => Recorded(mem', RunJobs', ran')
                    /\ ~active' => Recorded(file', {}, ran') /\ LinesRecorded(log', ran')
  BY DEF RecordInv
<1>1. Quiet /\ ~met' /\ env' = env /\ env \cap {"crash", "corrupt"} = {}
  BY MetGrows DEF Quiet
<1>2. CASE UNCHANGED cronVars \/ Tick \/ Stop
  <2>1. UNCHANGED <<mem, file, log, tasks, active, ran>> /\ (proc' # "down" => proc # "down")
    BY <1>2 DEF cronVars, Tick, Stop, disk, timer, history
  <2>2. RunJobs' = RunJobs
    BY <2>1 DEF RunJobs, Busy
  <2> QED
    BY <1>1, <2>1, <2>2 DEF RecordInv
<1>3. CASE Exit
  <2>1. UNCHANGED <<file, log, ran>> /\ ~active /\ proc' = "down"
    BY <1>3 DEF Exit, Gone, disk, history, CronTypes, Shape
  <2> QED
    BY <1>1, <2>1 DEF RecordInv
<1>4. CASE Crash \/ CrashInMerge \/ Corrupt \/ External
  <2>1. ~External
    BY <1>1, ExternalIs DEF Quiet, LogOK, ExtWrites
  <2> QED
    BY <1>1, <1>4, <2>1 DEF Crash, CrashInMerge, Corrupt
<1>5. CASE Boot
  BY <1>1, <1>5, RecordBoot
<1>6. CASE OnTimer
  BY <1>1, <1>6, RecordTimer
<1>7. CASE Runs
  BY <1>1, <1>7, RecordFinish, RecordCancel DEF Runs
<1>8. CASE Requests
  BY <1>1, <1>8, RecordRequests
<1>9. CASE ReadJobs
  BY <1>1, <1>9, RecordRead
<1> QED
  BY <1>2, <1>3, <1>4, <1>5, <1>6, <1>7, <1>8, <1>9 DEF CronNext

\* -- Due times
LEMMA DueBoot ==
    ASSUME CronTypes, LogOK, RecordInv, Boot, Quiet
    PROVE  Ahead(mem', {}, ran, Excused)
<1>1. ~active /\ now \in 1 .. Horizon /\ now \in Nat /\ now >= 1 /\ ran \in [Jobs -> Nat]
  BY CronConstants DEF Boot, CronTypes, Shape, CountsOK, HistoryOK
<1>2. PICK m, r : m = Replayed(AtBoot, log) /\ r = Restarted(m)
  OBVIOUS
<1>3. mem' = r /\ TableOK(m, now)
  BY <1>2, BootIs
<1>4. DOMAIN r = DOMAIN m
  BY <1>1, <1>2, <1>3, RestartedIs
<1>5. ASSUME NEW j \in DOMAIN m, r[j].on, r[j].next # 0, j \notin Excused PROVE r[j].next > ran[j]
  <2>1. /\ r[j].on = m[j].on
        /\ m[j].on => \/ r[j].next = NextRun(j)
                      \/ /\ j \in System /\ r[j].next = now
                         /\ m[j].last = 0 \/ m[j].last + Interval <= now
    BY <1>1, <1>2, <1>3, RestartedIs
  <2>2. j \in Jobs /\ m[j] \in Job /\ ran[j] \in Nat /\ ran[j] <= now
    BY <1>1, <1>3, InTable DEF CronTypes, HistoryOK
  <2>3. CASE r[j].next = NextRun(j)
    <3>1. NextRun(j) \in Nat /\ (NextRun(j) = 0 \/ NextRun(j) > now)
      BY <1>1, NextRunIs
    <3>2. PICK n : n = NextRun(j)
      OBVIOUS
    <3> QED
      BY <1>1, <1>5, <2>2, <2>3, <3>1, <3>2
  <2>4. CASE /\ j \in System /\ r[j].next = now
             /\ m[j].last = 0 \/ m[j].last + Interval <= now
    <3>1. env \cap {"crash", "corrupt"} = {}
      BY <1>5, <2>4 DEF Excused
    <3>2. Recorded(m, {}, ran)
      BY <1>1, <1>2, <3>1, BootRecorded DEF RecordInv
    <3>3. m[j].last >= ran[j]
      BY <1>5, <2>4, <3>2 DEF Recorded
    <3>4. m[j].last \in Nat /\ Interval \in Nat /\ Interval > 0
      BY <2>2, CronConstants DEF Job
    <3>5. PICK x, y : x = m[j].last /\ y = ran[j]
      OBVIOUS
    <3>6. now > y
      BY <1>1, <2>2, <2>4, <3>3, <3>4, <3>5
    <3> QED
      BY <2>4, <3>5, <3>6
  <2> QED
    BY <1>5, <2>1, <2>3, <2>4
<1> QED
  BY <1>3, <1>4, <1>5 DEF Ahead

\* A job that begins, at a time after its last run or excused.
LEMMA TwiceBegins ==
    ASSUME CronTypes, NEW X, twice \subseteq X, NEW j \in Jobs, NEW x \in 1 .. now, Begins(j, x),
           x > ran[j] \/ j \in X
    PROVE  twice' \subseteq X
<1>1. \A k \in twice' : k \in twice \/ (k = j /\ x <= ran[j])
  BY BeginsTypes
<1>2. x \in Nat /\ ran[j] \in Nat
  BY CronConstants DEF CronTypes, HistoryOK, CountsOK
<1> QED
  BY <1>1, <1>2

LEMMA DueTimer ==
    ASSUME CronTypes, OneTask, LogOK, DueInv, OnTimer, Quiet
    PROVE  /\ twice' \subseteq Excused
           /\ Ahead(mem', RunJobs', ran', Excused) /\ WaitsAhead(tasks', ran', Excused)
           /\ ~active' => Ahead(file', {}, ran', Excused)
<1>1. wake # 0 /\ ~met /\ "disk" \notin env /\ "external" \notin env /\ proc = "running"
  BY OnTimerIs DEF Quiet
<1>2. PICK l : IsLoaded(l) /\ Loading(l) /\ (TimerIdle(l) \/ \E j, s : TimerRuns(l, j, s))
  BY OnTimerIs
<1>3. Busy = {} /\ ~active /\ Detached(l) = tasks /\ Removals(log)
  BY <1>1, OneTimer DEF LogOK
<1>4. RunJobs = {}
  BY <1>3 DEF RunJobs
<1>5. Ahead(mem, {}, ran, Excused) /\ Ahead(file, {}, ran, Excused) /\ twice \subseteq Excused
  BY <1>1, <1>3, <1>4 DEF DueInv
<1>6. Ahead(l.mem, {}, ran, Excused) /\ Ahead(l.file, {}, ran, Excused)
  BY <1>2, <1>3, <1>5, AheadLoad
<1>7. CASE TimerIdle(l)
  <2>1. Busy' = {}
    BY <1>3, <1>7, BusyNext DEF TimerIdle
  <2>2. RunJobs' = {} /\ WaitsAhead(tasks', ran', Excused)
    BY <2>1, WorkingNext, BusyNext DEF WaitsAhead
  <2>3. mem' = l.mem /\ file' = l.mem /\ UNCHANGED <<ran, twice>>
    BY <1>1, <1>7 DEF TimerIdle, Saves
  <2> QED
    BY <1>5, <1>6, <2>2, <2>3
<1>8. CASE \E j, s : TimerRuns(l, j, s)
  <2>1. PICK j, s : TimerRuns(l, j, s)
    BY <1>8
  <2>2. /\ Busy' = {s} /\ tasks'[s] = RunOf(l.mem, j) /\ j \in Jobs /\ j \in DOMAIN l.mem
        /\ l.mem[j].on /\ l.mem[j].next # 0 /\ l.mem[j].next \in 1 .. now
    BY <1>1, <1>2, <2>1, OneRuns
  <2>3. mem' = l.mem /\ active' = TRUE /\ Begins(j, l.mem[j].next)
    BY <2>1 DEF TimerRuns
  <2>4. RunJobs' = {j}
    BY <2>2, WorkingNext DEF RunOf
  <2>5. l.mem[j].next > ran[j] \/ j \in Excused
    BY <1>6, <2>2 DEF Ahead
  <2>6. twice' \subseteq Excused
    BY <1>5, <2>2, <2>3, <2>5, TwiceBegins
  <2>7. \A k \in Jobs : k # j => ran'[k] = ran[k]
    BY <2>2, <2>3, BeginsTypes
  <2>8. DOMAIN l.mem \subseteq Jobs
    BY <1>2 DEF Loading, TableOK, IsTable
  <2>9. Ahead(l.mem, {j}, ran', Excused)
    BY <1>6, <2>7, <2>8 DEF Ahead
  <2>10. \A k \in Due(l.mem) \ {j} : l.mem[k].next > ran'[k] \/ k \in Excused
    BY <2>8, <2>9 DEF Ahead, Due
  <2>11. WaitsAhead(tasks', ran', Excused)
    <3>1. PICK r, u : r = tasks'[s] /\ u = tasks'
      OBVIOUS
    <3>2. r.todo = [k \in Due(l.mem) \ {j} |-> l.mem[k].next]
      BY <2>2, <3>1 DEF RunOf
    <3>3. \A k \in DOMAIN r.todo : r.todo[k] > ran'[k] \/ k \in Excused
      BY <2>10, <3>2
    <3>4. BusyIn(u) = {s}
      BY <2>2, <3>1, BusyNext
    <3>5. WaitsAhead(u, ran', Excused)
      BY <3>1, <3>3, <3>4 DEF WaitsAhead
    <3> QED
      BY <3>1, <3>5
  <2> QED
    BY <2>3, <2>4, <2>6, <2>9, <2>11
<1> QED
  BY <1>2, <1>7, <1>8

\* The next run of a job that ended is ahead.
LEMMA EndedAhead ==
    ASSUME CronTypes, OneTask, Quiet, NEW s \in Busy, NEW t, t = tasks[s], NEW X,
           Ahead(mem, RunJobs, ran, X), NEW m, Ran(m, t) \/ m = Drop(mem, {t.cur})
    PROVE  Ahead(m, {}, ran, X)
<1>1. ~met /\ Busy = {s} /\ Settled(t) /\ Has(t)
  BY OneFinish DEF Quiet
<1>2. RunJobs = {t.cur}
  BY <1>1 DEF RunJobs
<1>3. \A j \in DOMAIN mem \ {t.cur} : mem[j].on /\ mem[j].next # 0 => mem[j].next > ran[j] \/ j \in X
  BY <1>2 DEF Ahead
<1>4. CASE Ran(m, t)
  <2>1. /\ DOMAIN m = DOMAIN mem /\ (\A k \in DOMAIN mem : k # t.cur => m[k] = mem[k])
        /\ ~m[t.cur].on \/ m[t.cur].next = NextRun(t.cur)
    BY <1>1, <1>4 DEF Ran
  <2>2. ran[t.cur] \in Nat /\ ran[t.cur] <= now /\ now \in 1 .. Horizon /\ now \in Nat
    <3>1. RunOK(t, now)
      BY BusyRuns, BusyNext DEF CronTypes
    <3> QED
      BY <3>1, CronConstants DEF CronTypes, HistoryOK, CountsOK, RunOK
  <2>3. PICK n : n = NextRun(t.cur)
    OBVIOUS
  <2>4. n \in Nat /\ (n = 0 \/ n > now)
    BY <2>2, <2>3, NextRunIs
  <2>5. n # 0 => n > ran[t.cur]
    BY <2>2, <2>4
  <2> QED
    BY <1>3, <2>1, <2>3, <2>5 DEF Ahead
<1>5. CASE m = Drop(mem, {t.cur})
  <2>1. DOMAIN m = DOMAIN mem \ {t.cur} /\ \A k \in DOMAIN m : m[k] = mem[k]
    BY <1>5 DEF Drop
  <2> QED
    BY <1>3, <2>1 DEF Ahead
<1> QED
  BY <1>4, <1>5

LEMMA DueFinish ==
    ASSUME CronTypes, OneTask, DueInv, NEW s, FinishJob(s), Quiet
    PROVE  /\ twice' \subseteq Excused
           /\ Ahead(mem', RunJobs', ran', Excused) /\ WaitsAhead(tasks', ran', Excused)
           /\ ~active' => Ahead(file', {}, ran', Excused)
<1>1. PICK t, m : t = tasks[s] /\ m = Finished(t)
  OBVIOUS
<1>2. /\ proc = "running" /\ s \in Busy /\ RunOK(t, now)
      /\ IsOver(s, m) \/ \E k : GoesOn(s, t, m, k)
  BY <1>1, FinishIs
<1>3. Ahead(mem, RunJobs, ran, Excused) /\ WaitsAhead(tasks, ran, Excused) /\ twice \subseteq Excused
  BY <1>2 DEF DueInv
<1>4. Ahead(m, {}, ran, Excused)
  <2>1. Ran(m, t) \/ m = Drop(mem, {t.cur})
    BY <1>1, <1>2, FinishedEither
  <2> QED
    BY <1>1, <1>2, <1>3, <2>1, EndedAhead
<1>5. ~met /\ "disk" \notin env
  BY DEF Quiet
<1>6. CASE IsOver(s, m)
  <2>1. Busy' = {}
    BY <1>2, <1>5, <1>6, OneIsOver DEF IsOver
  <2>2. RunJobs' = {} /\ WaitsAhead(tasks', ran', Excused)
    BY <2>1, WorkingNext, BusyNext DEF WaitsAhead
  <2>3. mem' = m /\ file' = m /\ UNCHANGED <<ran, twice>>
    BY <1>5, <1>6 DEF IsOver, Saves
  <2> QED
    BY <1>3, <1>4, <2>2, <2>3
<1>7. CASE \E k : GoesOn(s, t, m, k)
  <2>1. PICK k : GoesOn(s, t, m, k)
    BY <1>7
  <2>2. /\ Busy' = {s} /\ k \in Jobs /\ t.todo[k] \in 1 .. now /\ k \in DOMAIN t.todo
        /\ tasks'[s] = [cur |-> k, due |-> t.todo[k], at |-> now,
                        todo |-> Drop(t.todo, {k}), lost |-> t.lost]
    BY <1>1, <1>2, <1>5, <2>1, OneGoesOn
  <2>3. mem' = m /\ active' = active /\ active /\ Begins(k, t.todo[k])
    BY <1>2, <1>5, <2>1, OneFinish DEF GoesOn
  <2>4. RunJobs' = {k}
    BY <2>2, WorkingNext
  <2>5. \A i \in DOMAIN t.todo : t.todo[i] > ran[i] \/ i \in Excused
    BY <1>1, <1>2, <1>3, BusyNext DEF WaitsAhead
  <2>6. twice' \subseteq Excused
    BY <1>3, <2>2, <2>3, <2>5, TwiceBegins
  <2>7. \A i \in Jobs : i # k => ran'[i] = ran[i]
    BY <2>2, <2>3, BeginsTypes
  <2>8. DOMAIN m \subseteq Jobs /\ DOMAIN t.todo \subseteq Jobs
    BY <1>1, <1>2, FinishedIs DEF TableOK, IsTable, RunOK
  <2>9. Ahead(m, {k}, ran', Excused)
    BY <1>4, <2>7, <2>8 DEF Ahead
  <2>10. WaitsAhead(tasks', ran', Excused)
    <3>1. PICK r, u, d : r = tasks'[s] /\ u = tasks' /\ d = Drop(t.todo, {k})
      OBVIOUS
    <3>2. r.todo = d
      BY <2>2, <3>1
    <3>3. DOMAIN d = DOMAIN t.todo \ {k} /\ \A i \in DOMAIN d : d[i] = t.todo[i]
      BY <3>1 DEF Drop
    <3>4. \A i \in DOMAIN d : d[i] > ran'[i] \/ i \in Excused
      BY <2>5, <2>7, <2>8, <3>3
    <3>5. BusyIn(u) = {s}
      BY <2>2, <3>1, BusyNext
    <3>6. WaitsAhead(u, ran', Excused)
      BY <3>1, <3>2, <3>4, <3>5 DEF WaitsAhead
    <3> QED
      BY <3>1, <3>6
  <2> QED
    BY <2>3, <2>4, <2>6, <2>9, <2>10
<1> QED
  BY <1>2, <1>6, <1>7

LEMMA PutAhead ==
    ASSUME NEW r, NEW X, NEW m, Ahead(m, {}, r, X), NEW j, NEW job,
           job.on /\ job.next # 0 => job.next > r[j]
    PROVE  Ahead(Put(m, j, job), {}, r, X)
<1>1. PICK p : p = Put(m, j, job)
  OBVIOUS
<1>2. /\ DOMAIN p = DOMAIN m \cup {j} /\ p[j] = job
      /\ \A i \in DOMAIN m : i # j => p[i] = m[i]
  BY <1>1 DEF Put
<1> QED
  BY <1>1, <1>2 DEF Ahead

LEMMA DueRequests ==
    ASSUME CronTypes, LogOK, DueInv, Requests, Quiet, ~met', proc = "running"
    PROVE  /\ UNCHANGED <<proc, twice>>
           /\ Ahead(mem', RunJobs', ran', Excused) /\ WaitsAhead(tasks', ran', Excused)
           /\ ~active' => Ahead(file', {}, ran', Excused)
<1>0. PICK j \in Jobs : \E l, m, kept, e :
               /\ Loading(l) /\ Answered(l, m, kept, e)
               /\ \/ Adds(l, j, m, kept, e) \/ Removes(l, j, m, kept, e)
                  \/ \E job : Changes(l, j, m, kept, e, job) \/ Registers(l, j, m, job)
  BY RequestIs
<1>1. PICK l, m, kept, e :
               /\ Loading(l) /\ Answered(l, m, kept, e)
               /\ \/ Adds(l, j, m, kept, e) \/ Removes(l, j, m, kept, e)
                  \/ \E job : Changes(l, j, m, kept, e, job) \/ Registers(l, j, m, job)
  BY <1>0
<1>2. /\ Busy = {} /\ Busy' = {} /\ ~active /\ UNCHANGED <<ran, proc, twice>>
      /\ mem' = m /\ file' = m
  BY <1>1 DEF Answered, CronTypes, Shape
<1>3. RunJobs = {} /\ RunJobs' = {} /\ WaitsAhead(tasks', ran', Excused)
  BY <1>2, WorkingNext, BusyNext DEF WaitsAhead, RunJobs
<1>4. Removals(log) /\ Ahead(mem, {}, ran, Excused) /\ Ahead(file, {}, ran, Excused)
  BY <1>2, <1>3 DEF DueInv, LogOK, Quiet
<1>5. Ahead(l.mem, {}, ran, Excused)
  BY <1>1, <1>2, <1>4, AheadLoad
<1>6. PICK n : n = NextRun(j)
  OBVIOUS
<1>7. n # 0 => n > ran[j]
  <2>1. now \in 1 .. Horizon /\ now \in Nat /\ ran[j] \in Nat /\ ran[j] <= now
    BY CronConstants DEF CronTypes, HistoryOK, CountsOK
  <2>2. n \in Nat /\ (n = 0 \/ n > now)
    BY <1>6, <2>1, NextRunIs
  <2> QED
    BY <2>1, <2>2
<1>8. Ahead(m, {}, ran, Excused)
  <2>1. CASE Adds(l, j, m, kept, e)
    <3>1. m = Put(l.mem, j, NewJob(j))
      BY <2>1 DEF Adds
    <3>2. NewJob(j).next = n
      BY <1>6, NextRunIs DEF CronTypes, CountsOK
    <3> QED
      BY <1>5, <1>7, <3>1, <3>2, PutAhead
  <2>2. CASE Removes(l, j, m, kept, e)
    <3>1. m = Drop(l.mem, {j})
      BY <2>2 DEF Removes
    <3>2. DOMAIN m \subseteq DOMAIN l.mem /\ \A k \in DOMAIN m : m[k] = l.mem[k]
      BY <3>1 DEF Drop
    <3> QED
      BY <1>5, <3>2 DEF Ahead
  <2>3. CASE \E job : Changes(l, j, m, kept, e, job) \/ Registers(l, j, m, job)
    <3>1. PICK job : Changes(l, j, m, kept, e, job) \/ Registers(l, j, m, job)
      BY <2>3
    <3>2. m = Put(l.mem, j, job) /\ (job.on /\ job.next # 0 => job.next = n)
      BY <1>6, <3>1 DEF Changes, Registers, Renewed
    <3> QED
      BY <1>5, <1>7, <3>2, PutAhead
  <2> QED
    BY <1>1, <2>1, <2>2, <2>3
<1> QED
  BY <1>2, <1>3, <1>8

LEMMA DueRead ==
    ASSUME CronTypes, OneTask, LogOK, DueInv, ReadJobs, Quiet, proc = "running"
    PROVE  /\ Ahead(mem', RunJobs', ran', Excused) /\ WaitsAhead(tasks', ran', Excused)
           /\ ~active' => Ahead(file', {}, ran', Excused)
<1>1. Busy' = Busy /\ UNCHANGED <<active, ran>> /\ ~met /\ Removals(log)
  BY ReadIs DEF Quiet, LogOK
<1>2. PICK l : /\ Loading(l) /\ mem' = l.mem /\ file' = l.file /\ log' = l.log /\ tasks' = Detached(l)
  BY ReadIs
<1>3. CASE Busy # {}
  <2>1. UNCHANGED <<mem, file, log, tasks>> /\ active
    BY <1>1, <1>2, <1>3, OneLoad
  <2> QED
    BY <1>1, <2>1 DEF DueInv, RunJobs
<1>4. CASE Busy = {}
  <2>1. ~active /\ RunJobs = {} /\ RunJobs' = {} /\ WaitsAhead(tasks', ran', Excused)
    BY <1>1, <1>4, WorkingNext, BusyNext DEF CronTypes, Shape, RunJobs, WaitsAhead
  <2>2. Ahead(l.mem, {}, ran, Excused) /\ Ahead(l.file, {}, ran, Excused)
    BY <1>1, <1>2, <2>1, AheadLoad DEF DueInv
  <2> QED
    BY <1>1, <1>2, <2>1, <2>2
<1> QED
  BY <1>3, <1>4

LEMMA DueStep ==
    CronTypes /\ OneTask /\ LogOK /\ RecordInv /\ DueInv /\ [CronNext]_cronVars => DueInv'
<1> SUFFICES ASSUME CronTypes, OneTask, LogOK, RecordInv, DueInv, [CronNext]_cronVars, Quiet'
             PROVE  /\ twice' \subseteq Excused'
                    /\ proc' = "running" =>
                          /\ Ahead(mem', RunJobs', ran', Excused') /\ WaitsAhead(tasks', ran', Excused')
                          /\ ~active' => Ahead(file', {}, ran', Excused')
  BY DEF DueInv, Ahead, WaitsAhead, BusyIn
<1>1. Quiet /\ ~met' /\ env' = env /\ Excused' = Excused /\ twice \subseteq Excused
  BY MetGrows DEF Quiet, Excused, DueInv
<1>2. CASE UNCHANGED cronVars \/ Tick \/ Corrupt
  <2>1. UNCHANGED <<mem, file, tasks, active, ran, proc, twice>>
    BY <1>2 DEF cronVars, Tick, Corrupt, disk, timer, history
  <2>2. RunJobs' = RunJobs
    BY <2>1 DEF RunJobs, Busy
  <2> QED
    BY <1>1, <2>1, <2>2 DEF DueInv
<1>3. CASE Exit \/ Crash \/ CrashInMerge \/ Stop \/ \E s : CancelJob(s)
  <2>1. twice' = twice /\ proc' # "running"
    <3>1. CASE \E s : CancelJob(s)
      BY <3>1, CancelIs
    <3> QED
      BY <1>3, <3>1 DEF Exit, Crash, CrashInMerge, Stop, Gone, history
  <2> QED
    BY <1>1, <2>1
<1>4. CASE External
  BY <1>1, <1>4, ExternalIs DEF Quiet, LogOK, ExtWrites
<1>5. CASE Boot
  <2>1. Busy = {} /\ UNCHANGED <<tasks, ran, twice>> /\ file' = mem'
    BY <1>5 DEF Boot, history, CronTypes, Shape
  <2>2. RunJobs' = {} /\ WaitsAhead(tasks', ran', Excused)
    BY <2>1, WorkingNext, BusyNext DEF WaitsAhead
  <2> QED
    BY <1>1, <1>5, <2>1, <2>2, DueBoot
<1>6. CASE OnTimer
  BY <1>1, <1>6, DueTimer
<1>7. CASE \E s : FinishJob(s)
  BY <1>1, <1>7, DueFinish
<1>8. CASE Requests
  <2>1. CASE proc = "running"
    BY <1>1, <1>8, <2>1, DueRequests
  <2>2. CASE proc # "running"
    <3>1. PICK l, m, kept, e : Answered(l, m, kept, e)
      BY <1>8, RequestIs
    <3> QED
      BY <1>1, <2>2, <3>1 DEF Answered
  <2> QED
    BY <2>1, <2>2
<1>9. CASE ReadJobs
  <2>1. UNCHANGED <<proc, twice>>
    BY <1>9, ReadIs
  <2>2. CASE proc = "running"
    BY <1>1, <1>9, <2>1, <2>2, DueRead
  <2> QED
    BY <1>1, <2>1, <2>2
<1> QED
  BY <1>2, <1>3, <1>4, <1>5, <1>6, <1>7, <1>8, <1>9 DEF CronNext, Runs

-----------------------------------------------------------------------------
(***************************************************************************)
(* Runs neither overlap nor repeat.                                        *)
(***************************************************************************)
CronRuns == CronTypes /\ OneTask /\ LogOK /\ RecordInv /\ DueInv

LEMMA RunsInit == CronInit => CronRuns
<1> SUFFICES ASSUME CronInit PROVE CronRuns
  OBVIOUS
<1>1. CronTypes
  BY TypesInit
<1>2. Busy = {} /\ log = <<>> /\ ext = <<>> /\ ran = [j \in Jobs |-> 0] /\ twice = {} /\ removed = {}
  BY AllIdle, BusyNext DEF CronInit
<1>3. OneTask
  BY <1>2 DEF OneTask
<1>4. LogOK
  <2>1. \A i \in 1 .. Len(ext) : FALSE
    BY <1>2
  <2> QED
    BY <1>2, <2>1, NoLines DEF LogOK
<1>5. proc = "down" /\ ~active /\ file = [j \in DOMAIN file |-> file[j]] /\ DOMAIN file \cap System = {}
  BY DEF CronInit
<1>6. RecordInv
  <2>1. Recorded(file, {}, ran)
    BY <1>2, <1>5, CronConstants DEF Recorded
  <2>2. LinesRecorded(log, ran)
    BY <1>2 DEF LinesRecorded
  <2> QED
    BY <1>5, <2>1, <2>2 DEF RecordInv
<1>7. DueInv
  BY <1>2, <1>5 DEF DueInv
<1> QED
  BY <1>1, <1>3, <1>4, <1>6, <1>7 DEF CronRuns

LEMMA RunsStep == CronRuns /\ [CronNext]_cronVars => CronRuns'
  BY TypesStep, OneStep, LogStep, RecordStep, DueStep DEF CronRuns

LEMMA RunsImply == CronRuns => CronConsistent
<1> SUFFICES ASSUME CronRuns PROVE CronConsistent
  OBVIOUS
<1>1. CronTypeOK
  BY TypesImply DEF CronRuns
<1>2. RunsAreSerial
  <2> SUFFICES ASSUME ~met PROVE Cardinality(Busy) <= 1
    BY DEF RunsAreSerial
  <2>1. \A s, t \in Busy : s = t
    BY DEF CronRuns, OneTask
  <2>2. CASE Busy = {}
    BY <2>2, FS_EmptySet
  <2>3. CASE Busy # {}
    <3>1. PICK s : Busy = {s}
      BY <2>1, <2>3
    <3> QED
      BY <3>1, FS_Singleton
  <2> QED
    BY <2>2, <2>3
<1>3. OneRunPerDue
  BY DEF CronRuns, DueInv, Excused, OneRunPerDue
<1> QED
  BY <1>1, <1>2, <1>3 DEF CronConsistent

\* The types; while no change of the configuration meets a running job, runs do
\* not overlap, and no job is run twice for a due time, unless a crash or an
\* unreadable file lost the run and the job is the gateway's own (_on_timer,
\* _arm_timer, _apply_catch_up).
THEOREM CronConsistentHolds == CronSpec => []CronConsistent
<1>1. CronInit => CronRuns
  BY RunsInit
<1>2. CronRuns /\ [CronNext]_cronVars => CronRuns'
  BY RunsStep
<1>3. CronRuns => CronConsistent
  BY RunsImply
<1> QED
  BY <1>1, <1>2, <1>3, PTL DEF CronSpec

-----------------------------------------------------------------------------
(***************************************************************************)
(* Only a job that was run has a last run; in particular one that was      *)
(* never run has none in any table, line or task.                          *)
(***************************************************************************)
UsedIn(m, r) == \A j \in DOMAIN m : m[j].last > 0 => r[j] > 0
LinesUsed(lines, r) == \A i \in 1 .. Len(lines) : lines[i].job.last > 0 => r[lines[i].id] > 0
WorkUsed(ts, r) == \A s \in BusyIn(ts) : r[ts[s].cur] > 0

UsedInv ==
    /\ UsedIn(mem, ran) /\ UsedIn(file, ran) /\ LinesUsed(log, ran) /\ LinesUsed(ext, ran)
    /\ WorkUsed(tasks, ran)

LEMMA NoneUsed == \A r : UsedIn(<<>>, r) /\ LinesUsed(<<>>, r)
  BY DEF UsedIn, LinesUsed

LEMMA ReplayedUsed ==
    ASSUME NEW z, NEW lines \in Seq(z), NEW r, NEW m, UsedIn(m, r), LinesUsed(lines, r)
    PROVE  UsedIn(Replayed(m, lines), r)
<1>1. PICK a, D : a = Replayed(m, lines) /\ D = DOMAIN m
  OBVIOUS
<1>2. ASSUME NEW j \in DOMAIN a, a[j].last > 0 PROVE r[j] > 0
  <2>1. There(D, lines, j)
    BY <1>1, <1>2, ReplayedIs
  <2>2. CASE Gives(lines, j)
    <3>1. PICK i \in 1 .. Len(lines) : LastFor(lines, j, i) /\ lines[i].op # "del"
      BY <2>2 DEF Gives
    <3>2. a[j] = lines[i].job /\ lines[i].id = j
      BY <1>1, <3>1, ReplayedIs DEF LastFor
    <3> QED
      BY <1>2, <3>2 DEF LinesUsed
  <2>3. CASE ~Gives(lines, j)
    <3>1. NoLine(lines, j) /\ j \in DOMAIN m
      BY <1>1, <2>1, <2>3 DEF There
    <3>2. a[j] = m[j]
      BY <1>1, <3>1, ReplayedIs
    <3> QED
      BY <1>2, <3>1, <3>2 DEF UsedIn
  <2> QED
    BY <2>2, <2>3
<1> QED
  BY <1>1, <1>2 DEF UsedIn

LEMMA UsedLoad ==
    ASSUME CronTypes, UsedInv, NEW l, Loading(l)
    PROVE  UsedIn(l.mem, ran) /\ UsedIn(l.file, ran) /\ LinesUsed(l.log, ran)
<1>1. log \in Seq(LineType)
  BY DEF CronTypes, StoreOK, LinesOK
<1>2. UsedIn(Replayed(file, log), ran) /\ UsedIn(Replayed(<<>>, log), ran)
  BY <1>1, ReplayedUsed, NoneUsed DEF UsedInv
<1>3. CASE IsLoaded(l)
  BY <1>2, <1>3, NoneUsed DEF IsLoaded, UsedInv
<1>4. CASE IsLoadedTwice(l)
  BY <1>2, <1>4, NoneUsed DEF IsLoadedTwice, UsedInv
<1> QED
  BY <1>3, <1>4 DEF Loading

LEMMA PutUsed ==
    ASSUME NEW r, NEW m, UsedIn(m, r), NEW j, NEW job, job.last > 0 => r[j] > 0
    PROVE  UsedIn(Put(m, j, job), r)
<1>1. PICK p : p = Put(m, j, job)
  OBVIOUS
<1>2. /\ DOMAIN p = DOMAIN m \cup {j} /\ p[j] = job
      /\ \A i \in DOMAIN m : i # j => p[i] = m[i]
  BY <1>1 DEF Put
<1> QED
  BY <1>1, <1>2 DEF UsedIn

LEMMA DropUsed ==
    ASSUME NEW r, NEW m, UsedIn(m, r), NEW S
    PROVE  UsedIn(Drop(m, S), r)
<1>1. PICK p : p = Drop(m, S)
  OBVIOUS
<1>2. DOMAIN p = DOMAIN m \ S /\ \A i \in DOMAIN p : p[i] = m[i]
  BY <1>1 DEF Drop
<1> QED
  BY <1>1, <1>2 DEF UsedIn

LEMMA AppendUsed ==
    ASSUME NEW z, NEW lines \in Seq(z), NEW e \in z, NEW r, LinesUsed(lines, r),
           e.job.last > 0 => r[e.id] > 0
    PROVE  LinesUsed(Append(lines, e), r)
<1> SUFFICES ASSUME NEW i \in 1 .. Len(Append(lines, e)), Append(lines, e)[i].job.last > 0
             PROVE  r[Append(lines, e)[i].id] > 0
  BY DEF LinesUsed
<1>1. PICK x : x = Append(lines, e)[i]
  OBVIOUS
<1>2. (i \in 1 .. Len(lines) /\ x = lines[i]) \/ x = e
  BY <1>1, AppendedLine
<1> QED
  BY <1>1, <1>2 DEF LinesUsed

LEMMA RanUsed ==
    ASSUME NEW r, UsedIn(mem, r), NEW t, r[t.cur] > 0, NEW m, Ran(m, t) \/ m = Drop(mem, {t.cur})
    PROVE  UsedIn(m, r)
<1>1. CASE m = Drop(mem, {t.cur})
  BY <1>1, DropUsed
<1>2. CASE Ran(m, t)
  BY <1>2 DEF Ran, UsedIn
<1> QED
  BY <1>1, <1>2

\* What was used stays so when a job begins.
LEMMA BeginsUsed ==
    ASSUME CronTypes, NEW j \in Jobs, NEW x \in 1 .. now, Begins(j, x)
    PROVE  /\ ran'[j] > 0
           /\ \A m, t : TableOK(m, t) /\ UsedIn(m, ran) => UsedIn(m, ran')
           /\ \A lines, t : LinesOK(lines, t) /\ LinesUsed(lines, ran) => LinesUsed(lines, ran')
           /\ \A ts, t : TasksOK(ts, t) /\ WorkUsed(ts, ran) => WorkUsed(ts, ran')
<1>1. ran'[j] > 0 /\ \A k \in Jobs : ran[k] > 0 => ran'[k] > 0
  <2>1. x > 0
    BY CronConstants DEF CronTypes, CountsOK
  <2> QED
    BY <2>1, BeginsTypes
<1>2. ASSUME NEW m, NEW t, TableOK(m, t), UsedIn(m, ran) PROVE UsedIn(m, ran')
  <2>1. DOMAIN m \subseteq Jobs
    BY <1>2 DEF TableOK, IsTable
  <2> QED
    BY <1>1, <1>2, <2>1 DEF UsedIn
<1>3. ASSUME NEW lines, NEW t, LinesOK(lines, t), LinesUsed(lines, ran) PROVE LinesUsed(lines, ran')
  <2>1. \A i \in 1 .. Len(lines) : lines[i] \in LineType
    BY <1>3 DEF LinesOK
  <2>2. \A i \in 1 .. Len(lines) : lines[i].id \in Jobs
    BY <2>1 DEF LineType
  <2> QED
    BY <1>1, <1>3, <2>2 DEF LinesUsed
<1>4. ASSUME NEW ts, NEW t, TasksOK(ts, t), WorkUsed(ts, ran) PROVE WorkUsed(ts, ran')
  <2>1. \A s \in BusyIn(ts) : RunOK(ts[s], t)
    BY <1>4, BusyRuns
  <2>2. \A s \in BusyIn(ts) : ts[s].cur \in Jobs
    BY <2>1 DEF RunOK
  <2> QED
    BY <1>1, <1>4, <2>2 DEF WorkUsed
<1> QED
  BY <1>1, <1>2, <1>3, <1>4

LEMMA WorkSame ==
    ASSUME NEW r, WorkUsed(tasks, r), Busy' = Busy, \A s \in Busy : tasks'[s].cur = tasks[s].cur
    PROVE  WorkUsed(tasks', r)
  BY BusyNext DEF WorkUsed

LEMMA UsedTimer == CronTypes /\ UsedInv /\ OnTimer => UsedInv'
<1> SUFFICES ASSUME CronTypes, UsedInv, OnTimer PROVE UsedInv'
  OBVIOUS
<1>1. UNCHANGED ext
  BY OnTimerIs
<1>2. PICK l : IsLoaded(l) /\ Loading(l) /\ (TimerIdle(l) \/ \E j, s : TimerRuns(l, j, s))
  BY OnTimerIs
<1>3. UsedIn(l.mem, ran) /\ UsedIn(l.file, ran) /\ LinesUsed(l.log, ran)
  BY <1>2, UsedLoad
<1>4. PICK d : d = Detached(l)
  OBVIOUS
<1>5. TasksOK(d, now) /\ BusyIn(d) = Busy /\ WorkUsed(d, ran)
  <2>1. TasksOK(d, now) /\ BusyIn(d) = Busy /\ \A s \in Busy : d[s].cur = tasks[s].cur
    BY <1>4, DetachedIs DEF CronTypes
  <2> QED
    BY <2>1, BusyNext DEF WorkUsed, UsedInv
<1>6. CASE TimerIdle(l)
  BY <1>1, <1>3, <1>4, <1>5, <1>6 DEF TimerIdle, Saves, UsedInv
<1>7. CASE \E j, s : TimerRuns(l, j, s)
  <2>1. PICK j, s : TimerRuns(l, j, s)
    BY <1>7
  <2>2. PICK r, u : r = RunOf(l.mem, j) /\ u = tasks'
    OBVIOUS
  <2>3. /\ s \in 1 .. Slots /\ j \in Due(l.mem) /\ u = [d EXCEPT ![s] = r]
        /\ Begins(j, l.mem[j].next)
        /\ mem' = l.mem /\ file' = l.file /\ log' = l.log
    BY <1>4, <2>1, <2>2 DEF TimerRuns
  <2>4. /\ j \in Jobs /\ l.mem[j].next \in 1 .. now /\ RunOK(r, now) /\ r.cur = j
        /\ TableOK(l.mem, now) /\ TableOK(l.file, now) /\ LinesOK(l.log, now)
    BY <1>2, <2>2, <2>3, DueIs DEF Loading, CronTypes, CountsOK, RunOf
  <2>5. /\ ran'[j] > 0
        /\ \A m, t : TableOK(m, t) /\ UsedIn(m, ran) => UsedIn(m, ran')
        /\ \A lines, t : LinesOK(lines, t) /\ LinesUsed(lines, ran) => LinesUsed(lines, ran')
        /\ \A ts, t : TasksOK(ts, t) /\ WorkUsed(ts, ran) => WorkUsed(ts, ran')
    BY <2>3, <2>4, BeginsUsed
  <2>6. WorkUsed(d, ran') /\ UsedIn(l.mem, ran') /\ UsedIn(l.file, ran') /\ LinesUsed(l.log, ran')
    BY <1>3, <1>5, <2>4, <2>5
  <2>7. LinesUsed(ext, ran')
    BY <2>5 DEF UsedInv, CronTypes, StoreOK
  <2>8. WorkUsed(u, ran')
    <3>1. u[s] = r /\ \A x \in 1 .. Slots : x # s => u[x] = d[x]
      BY <1>5, <2>3 DEF TasksOK
    <3> QED
      BY <2>4, <2>5, <2>6, <3>1 DEF WorkUsed, BusyIn
  <2> QED
    BY <1>1, <2>2, <2>3, <2>6, <2>7, <2>8 DEF UsedInv
<1> QED
  BY <1>2, <1>6, <1>7

LEMMA UsedFinish == \A s : CronTypes /\ UsedInv /\ FinishJob(s) => UsedInv'
<1> SUFFICES ASSUME NEW s, CronTypes, UsedInv, FinishJob(s) PROVE UsedInv'
  OBVIOUS
<1>1. PICK t, m : t = tasks[s] /\ m = Finished(t)
  OBVIOUS
<1>2. /\ s \in Busy /\ s \in 1 .. Slots /\ RunOK(t, now) /\ UNCHANGED ext
      /\ IsOver(s, m) \/ \E k : GoesOn(s, t, m, k)
  BY <1>1, FinishIs DEF Busy
<1>3. ran[t.cur] > 0
  BY <1>1, <1>2, BusyNext DEF UsedInv, WorkUsed
<1>4. UsedIn(m, ran) /\ TableOK(m, now)
  <2>1. Ran(m, t) \/ m = Drop(mem, {t.cur})
    BY <1>1, <1>2, FinishedEither
  <2>2. UsedIn(mem, ran)
    BY DEF UsedInv
  <2> QED
    BY <1>1, <1>2, <1>3, <2>1, <2>2, RanUsed, FinishedIs
<1>5. CASE IsOver(s, m)
  <2>1. /\ mem' = m /\ log' = log /\ (file' = m \/ file' = file) /\ UNCHANGED ran
        /\ tasks' = [tasks EXCEPT ![s] = Idle]
    BY <1>5, StoreIs DEF IsOver, Saves
  <2>2. PICK u : u = tasks'
    OBVIOUS
  <2>3. BusyIn(u) = BusyIn(tasks) \ {s} /\ \A x \in 1 .. Slots : x # s => u[x] = tasks[x]
    <3>1. TasksOK(tasks, now) /\ s \in 1 .. Slots
      BY <1>2 DEF CronTypes
    <3>2. BusyIn(u) = BusyIn(tasks) \ {s}
      BY <2>1, <2>2, <3>1, PutIdle
    <3>3. \A x \in 1 .. Slots : x # s => u[x] = tasks[x]
      BY <2>1, <2>2, <3>1 DEF TasksOK
    <3> QED
      BY <3>2, <3>3
  <2>4. WorkUsed(tasks, ran) /\ BusyIn(tasks) \subseteq 1 .. Slots
    BY DEF UsedInv, BusyIn
  <2>5. WorkUsed(u, ran)
    BY <2>3, <2>4 DEF WorkUsed
  <2> QED
    BY <1>2, <1>4, <2>1, <2>2, <2>5 DEF UsedInv
<1>6. CASE \E k : GoesOn(s, t, m, k)
  <2>1. PICK k : GoesOn(s, t, m, k)
    BY <1>6
  <2>2. PICK r, u : /\ r = [cur |-> k, due |-> t.todo[k], at |-> now,
                            todo |-> Drop(t.todo, {k}), lost |-> t.lost]
                    /\ u = tasks'
    OBVIOUS
  <2>3. /\ k \in DOMAIN t.todo /\ u = [tasks EXCEPT ![s] = r] /\ Begins(k, t.todo[k])
        /\ mem' = m /\ UNCHANGED <<file, log>> /\ r.cur = k
    BY <2>1, <2>2 DEF GoesOn
  <2>4. k \in Jobs /\ t.todo[k] \in 1 .. now
    BY <1>2, <2>3 DEF RunOK
  <2>5. /\ ran'[k] > 0
        /\ \A a, n : TableOK(a, n) /\ UsedIn(a, ran) => UsedIn(a, ran')
        /\ \A lines, n : LinesOK(lines, n) /\ LinesUsed(lines, ran) => LinesUsed(lines, ran')
        /\ \A ts, n : TasksOK(ts, n) /\ WorkUsed(ts, ran) => WorkUsed(ts, ran')
    BY <2>3, <2>4, BeginsUsed
  <2>6. /\ UsedIn(m, ran') /\ UsedIn(file, ran') /\ LinesUsed(log, ran') /\ LinesUsed(ext, ran')
        /\ WorkUsed(tasks, ran')
    BY <1>4, <2>5 DEF UsedInv, CronTypes, StoreOK
  <2>7. WorkUsed(u, ran')
    <3>1. u[s] = r /\ \A x \in 1 .. Slots : x # s => u[x] = tasks[x]
      BY <1>2, <2>3 DEF CronTypes, TasksOK
    <3> QED
      BY <2>3, <2>5, <2>6, <3>1 DEF WorkUsed, BusyIn
  <2> QED
    BY <1>2, <2>2, <2>3, <2>6, <2>7 DEF UsedInv
<1> QED
  BY <1>2, <1>5, <1>6

LEMMA UsedCancel == \A s : CronTypes /\ UsedInv /\ CancelJob(s) => UsedInv'
<1> SUFFICES ASSUME NEW s, CronTypes, UsedInv, CancelJob(s) PROVE UsedInv'
  OBVIOUS
<1>1. PICK t, m, u : t = tasks[s] /\ m = mem' /\ u = tasks'
  OBVIOUS
<1>2. /\ s \in Busy /\ s \in 1 .. Slots /\ Ran(m, t) /\ file' = m
      /\ u = [tasks EXCEPT ![s] = Idle] /\ UNCHANGED <<log, ext, ran>>
  BY <1>1, CancelIs DEF Busy
<1>3. ran[t.cur] > 0 /\ UsedIn(mem, ran)
  BY <1>1, <1>2, BusyNext DEF UsedInv, WorkUsed
<1>4. UsedIn(m, ran)
  BY <1>2, <1>3, RanUsed
<1>5. BusyIn(u) = BusyIn(tasks) \ {s} /\ \A x \in 1 .. Slots : x # s => u[x] = tasks[x]
  BY <1>2, PutIdle DEF CronTypes, TasksOK
<1>6. WorkUsed(u, ran)
  BY <1>5 DEF UsedInv, WorkUsed, BusyIn
<1> QED
  BY <1>1, <1>2, <1>4, <1>6 DEF UsedInv

LEMMA UsedBoot == CronTypes /\ UsedInv /\ Boot => UsedInv'
<1> SUFFICES ASSUME CronTypes, UsedInv, Boot PROVE UsedInv'
  OBVIOUS
<1>1. /\ log \in Seq(LineType) /\ now \in 1 .. Horizon /\ UsedIn(file, ran) /\ LinesUsed(log, ran)
      /\ UNCHANGED <<tasks, ext, ran>>
  BY DEF Boot, history, CronTypes, StoreOK, LinesOK, CountsOK, UsedInv
<1>2. PICK a, m : a = Replayed(file, log) /\ m = Replayed(AtBoot, log)
  OBVIOUS
<1>3. UsedIn(a, ran) /\ TableOK(a, now)
  BY <1>1, <1>2, ReplayedUsed, ReplayedTable DEF CronTypes, StoreOK
<1>4. UsedIn(AllRegistered(a), ran)
  <2>1. PICK b : b = AllRegistered(a)
    OBVIOUS
  <2>2. /\ DOMAIN b = DOMAIN a \cup System
        /\ \A j \in System : b[j].last = IF j \in DOMAIN a THEN a[j].last ELSE 0
        /\ \A j \in DOMAIN a \ System : b[j] = a[j]
    BY <1>1, <1>3, <2>1, AllRegisteredIs
  <2>3. ASSUME NEW j \in DOMAIN b, b[j].last > 0 PROVE ran[j] > 0
    <3>1. j \in DOMAIN a => a[j].last > 0
      BY <2>2, <2>3
    <3>2. j \in DOMAIN a
      <4>1. ~(0 > 0)
        OBVIOUS
      <4> QED
        BY <2>2, <2>3, <4>1
    <3> QED
      BY <1>3, <3>1, <3>2 DEF UsedIn
  <2> QED
    BY <2>1, <2>3 DEF UsedIn
<1>5. UsedIn(AtBoot, ran)
  BY <1>1, <1>2, <1>4 DEF AtBoot
<1>6. UsedIn(m, ran) /\ TableOK(m, now) /\ mem' = Restarted(m) /\ file' = mem'
  BY <1>1, <1>2, <1>5, ReplayedUsed, BootIs
<1>7. DOMAIN Restarted(m) = DOMAIN m /\ \A j \in DOMAIN m : Restarted(m)[j].last = m[j].last
  BY <1>1, <1>6, RestartedIs
<1>8. UsedIn(Restarted(m), ran)
  BY <1>6, <1>7 DEF UsedIn
<1>9. LinesUsed(log', ran)
  BY <1>1, BootIs, NoneUsed
<1> QED
  BY <1>1, <1>6, <1>8, <1>9 DEF UsedInv

LEMMA UsedRequests == CronTypes /\ UsedInv /\ Requests => UsedInv'
<1> SUFFICES ASSUME CronTypes, UsedInv, Requests PROVE UsedInv'
  OBVIOUS
<1>0. PICK j \in Jobs : \E l, m, kept, e :
               /\ Loading(l) /\ Answered(l, m, kept, e)
               /\ \/ Adds(l, j, m, kept, e) \/ Removes(l, j, m, kept, e)
                  \/ \E job : Changes(l, j, m, kept, e, job) \/ Registers(l, j, m, job)
  BY RequestIs
<1>1. PICK l, m, kept, e :
               /\ Loading(l) /\ Answered(l, m, kept, e)
               /\ \/ Adds(l, j, m, kept, e) \/ Removes(l, j, m, kept, e)
                  \/ \E job : Changes(l, j, m, kept, e, job) \/ Registers(l, j, m, job)
  BY <1>0
<1>2. /\ Busy' = Busy /\ (\A s \in Busy : tasks'[s].cur = tasks[s].cur) /\ UNCHANGED <<ext, ran>>
  BY <1>1 DEF Answered
<1>3. WorkUsed(tasks', ran) /\ LinesUsed(ext, ran)
  BY <1>2, WorkSame DEF UsedInv
<1>4. UsedIn(l.mem, ran) /\ UsedIn(l.file, ran) /\ LinesUsed(l.log, ran)
  BY <1>1, UsedLoad
<1>5. ~(0 > 0)
  OBVIOUS
<1>6. ASSUME NEW job, job.last = IF j \in DOMAIN l.mem THEN l.mem[j].last ELSE 0, job.last > 0
      PROVE  ran[j] > 0
  BY <1>4, <1>5, <1>6 DEF UsedIn
<1>7. UsedIn(m, ran)
  <2>1. CASE Adds(l, j, m, kept, e)
    <3>1. NewJob(j).last = 0
      BY DEF NewJob
    <3> QED
      BY <1>4, <1>5, <2>1, <3>1, PutUsed DEF Adds
  <2>2. CASE Removes(l, j, m, kept, e)
    BY <1>4, <2>2, DropUsed DEF Removes
  <2>3. CASE \E job : Changes(l, j, m, kept, e, job) \/ Registers(l, j, m, job)
    <3>1. PICK job : Changes(l, j, m, kept, e, job) \/ Registers(l, j, m, job)
      BY <2>3
    <3>2. m = Put(l.mem, j, job) /\ job.last = IF j \in DOMAIN l.mem THEN l.mem[j].last ELSE 0
      BY <3>1 DEF Changes, Registers, Renewed
    <3> QED
      BY <1>4, <1>6, <3>2, PutUsed
  <2> QED
    BY <1>1, <2>1, <2>2, <2>3
<1>8. CASE proc = "running"
  BY <1>1, <1>2, <1>3, <1>4, <1>7, <1>8 DEF Answered, UsedInv
<1>9. CASE proc = "stopping"
  <2>1. mem' = kept /\ file' = l.file /\ log' = Append(l.log, e) /\ e \in LineType
        /\ l.log \in Seq(LineType)
    BY <1>1, <1>9 DEF Answered, Loading, LinesOK
  <2>2. kept = l.mem \/ kept = m
    BY <1>1, <1>9 DEF Adds, Removes, Changes, Registers
  <2>3. e.job.last > 0 => ran[e.id] > 0
    <3>1. CASE Adds(l, j, m, kept, e)
      BY <1>5, <3>1 DEF Adds, NewJob, Line
    <3>2. CASE Removes(l, j, m, kept, e)
      BY <1>4, <3>2 DEF Removes, Line, UsedIn
    <3>3. CASE \E job : Changes(l, j, m, kept, e, job)
      <4>1. PICK job : Changes(l, j, m, kept, e, job)
        BY <3>3
      <4>2. /\ e.id = j /\ e.job = job /\ job.last = l.mem[j].last /\ j \in DOMAIN l.mem
        BY <4>1 DEF Changes, Renewed, Line
      <4> QED
        BY <1>4, <4>2 DEF UsedIn
    <3> QED
      BY <1>1, <1>9, <3>1, <3>2, <3>3 DEF Registers
  <2>4. LinesUsed(log', ran)
    BY <1>4, <2>1, <2>3, AppendUsed
  <2> QED
    BY <1>2, <1>3, <1>4, <1>7, <2>1, <2>2, <2>4 DEF UsedInv
<1> QED
  BY <1>1, <1>8, <1>9 DEF Answered

LEMMA UsedRead == CronTypes /\ UsedInv /\ ReadJobs => UsedInv'
<1> SUFFICES ASSUME CronTypes, UsedInv, ReadJobs PROVE UsedInv'
  OBVIOUS
<1>1. Busy' = Busy /\ UNCHANGED <<ext, ran>>
  BY ReadIs
<1>2. PICK l : /\ Loading(l) /\ mem' = l.mem /\ file' = l.file /\ log' = l.log /\ tasks' = Detached(l)
  BY ReadIs
<1>3. UsedIn(l.mem, ran) /\ UsedIn(l.file, ran) /\ LinesUsed(l.log, ran)
  BY <1>2, UsedLoad
<1>4. \A s \in Busy : tasks'[s].cur = tasks[s].cur
  <2>1. \A s \in Busy : Detached(l)[s].cur = tasks[s].cur
    BY DetachedIs DEF CronTypes
  <2> QED
    BY <1>2, <2>1
<1>5. WorkUsed(tasks', ran)
  BY <1>1, <1>4, WorkSame DEF UsedInv
<1> QED
  BY <1>1, <1>2, <1>3, <1>5 DEF UsedInv

LEMMA UsedExternal == CronTypes /\ UsedInv /\ External => UsedInv'
<1> SUFFICES ASSUME CronTypes, UsedInv, External PROVE UsedInv'
  OBVIOUS
<1>1. /\ UNCHANGED <<mem, file, tasks, ran>> /\ log \in Seq(LineType)
      /\ UsedIn(file, ran) /\ LinesUsed(log, ran) /\ LinesUsed(ext, ran) /\ ~(0 > 0)
  BY ExternalIs DEF GatewayStays, CronTypes, StoreOK, LinesOK, UsedInv
<1>2. CASE \E j \in Jobs : ExtAdds(j)
  <2>1. PICK j \in Jobs : ExtAdds(j)
    BY <1>2
  <2>2. PICK e : e = Line("add", j, NewJob(j))
    OBVIOUS
  <2>3. e \in LineType /\ e.job.last = 0
    <3>1. NewJob(j) \in Job /\ NewJob(j).last <= now /\ NewJob(j).last = 0
      BY NextRunIs, CronConstants DEF CronTypes, CountsOK
    <3> QED
      BY <2>2, <3>1, LineIs
  <2>4. LinesUsed(Append(log, e), ran)
    BY <1>1, <2>3, AppendUsed
  <2> QED
    BY <1>1, <2>1, <2>2, <2>4 DEF ExtAdds, UsedInv
<1>3. CASE \E j, e : ExtReads(j, e) /\ e \in LineType /\ e.job.last <= now
  <2>1. PICK j, e : ExtReads(j, e)
    BY <1>3
  <2>2. PICK x, m : x = ext' /\ m = Replayed(file, log)
    OBVIOUS
  <2>3. x = <<e>> /\ e.id = j /\ j \in DOMAIN m /\ e.job.last = m[j].last /\ UNCHANGED log
    BY <2>1, <2>2 DEF ExtReads
  <2>4. UsedIn(m, ran)
    BY <1>1, <2>2, ReplayedUsed
  <2>5. LinesUsed(x, ran)
    BY <2>3, <2>4 DEF UsedIn, LinesUsed
  <2> QED
    BY <1>1, <2>2, <2>3, <2>5 DEF UsedInv
<1>4. CASE \E e \in LineType : ExtWrites(e) /\ e.job.last <= now
  <2>1. PICK e \in LineType : ExtWrites(e)
    BY <1>4
  <2>2. /\ e = ext[1] /\ 1 \in 1 .. Len(ext) /\ log' = Append(log, e) /\ ext' = <<>>
    BY <2>1 DEF ExtWrites
  <2>3. e.job.last > 0 => ran[e.id] > 0
    BY <1>1, <2>2 DEF LinesUsed
  <2>4. LinesUsed(Append(log, e), ran)
    BY <1>1, <2>3, AppendUsed
  <2> QED
    BY <1>1, <2>2, <2>4, NoneUsed DEF UsedInv
<1> QED
  BY <1>2, <1>3, <1>4, ExternalIs

LEMMA UsedStep == CronTypes /\ UsedInv /\ [CronNext]_cronVars => UsedInv'
<1> SUFFICES ASSUME CronTypes, UsedInv, [CronNext]_cronVars PROVE UsedInv'
  OBVIOUS
<1>1. CASE UNCHANGED cronVars \/ Tick \/ Corrupt \/ Stop
  <2>1. UNCHANGED <<mem, file, log, ext, tasks, ran>>
    BY <1>1 DEF cronVars, Tick, Corrupt, Stop, disk, timer, history
  <2> QED
    BY <2>1 DEF UsedInv
<1>2. CASE Exit \/ Crash \/ CrashInMerge
  <2>1. /\ mem' = <<>> /\ tasks' = [s \in 1 .. Slots |-> Idle] /\ UNCHANGED <<file, ext, ran>>
        /\ log' = log \/ log' = <<>>
    BY <1>2 DEF Exit, Crash, CrashInMerge, Gone, disk, history
  <2>2. WorkUsed(tasks', ran)
    BY <2>1, AllIdle DEF WorkUsed
  <2> QED
    BY <2>1, <2>2, NoneUsed DEF UsedInv
<1> QED
  BY <1>1, <1>2, UsedBoot, UsedTimer, UsedFinish, UsedCancel, UsedRequests, UsedRead, UsedExternal
  DEF CronNext, Runs

LEMMA UsedInit == CronInit => UsedInv
<1> SUFFICES ASSUME CronInit PROVE UsedInv
  OBVIOUS
<1>1. mem = <<>> /\ log = <<>> /\ ext = <<>> /\ tasks = [s \in 1 .. Slots |-> Idle]
  BY DEF CronInit
<1>2. WorkUsed(tasks, ran)
  BY <1>1, AllIdle DEF WorkUsed
<1>3. PICK S \in SUBSET (Jobs \ System) : file = [j \in S |-> NewJob(j)]
  BY DEF CronInit
<1>4. UsedIn(file, ran)
  <2>1. DOMAIN file = S /\ \A j \in S : file[j].last = 0
    BY <1>3 DEF NewJob
  <2>2. ~(0 > 0)
    OBVIOUS
  <2> QED
    BY <2>1, <2>2 DEF UsedIn
<1> QED
  BY <1>1, <1>2, <1>4, NoneUsed DEF UsedInv

-----------------------------------------------------------------------------
(***************************************************************************)
(* The saved last runs never go back.  The table is never behind the file, *)
(* nor is a line of the log; and the gateway's own jobs of the file are in *)
(* the table, so that registering one takes over its last run.             *)
(***************************************************************************)
NotBefore(m, f) == \A j \in DOMAIN m \cap DOMAIN f : m[j].last >= f[j].last

LinesAfter(lines, f) ==
    \A i \in 1 .. Len(lines) :
        lines[i].op # "del" /\ lines[i].id \in DOMAIN f => lines[i].job.last >= f[lines[i].id].last

Follows(m, f, lines) ==
    NotBefore(m, f) /\ DOMAIN f \cap System \subseteq DOMAIN m /\ LinesAfter(lines, f)

LastInv ==
    ~met /\ "external" \notin env =>
        IF proc = "down" THEN LinesAfter(log, file) ELSE Follows(mem, file, log)

LEMMA SelfNotBefore ==
    ASSUME NEW t, NEW m, TableOK(m, t)
    PROVE  NotBefore(m, m)
<1>1. \A j \in DOMAIN m : m[j].last \in Nat
  BY CronConstants DEF TableOK, IsTable, Job
<1>2. \A x \in Nat : x >= x
  OBVIOUS
<1> QED
  BY <1>1, <1>2 DEF NotBefore

LEMMA NoneBefore ==
    /\ \A m, lines : NotBefore(m, <<>>) /\ NotBefore(<<>>, m) /\ Follows(m, <<>>, lines)
    /\ \A f : LinesAfter(<<>>, f)
    /\ \A lines, f : Removals(lines) => LinesAfter(lines, f)
  BY DEF NotBefore, Follows, LinesAfter, Removals

LEMMA ReplayedLast ==
    ASSUME NEW z, NEW lines \in Seq(z), NEW f, NEW m, NotBefore(m, f), LinesAfter(lines, f)
    PROVE  NotBefore(Replayed(m, lines), f)
<1>1. PICK a, D : a = Replayed(m, lines) /\ D = DOMAIN m
  OBVIOUS
<1>2. ASSUME NEW j \in DOMAIN a, j \in DOMAIN f PROVE a[j].last >= f[j].last
  <2>1. There(D, lines, j)
    BY <1>1, <1>2, ReplayedIs
  <2>2. CASE Gives(lines, j)
    <3>1. PICK i \in 1 .. Len(lines) : LastFor(lines, j, i) /\ lines[i].op # "del"
      BY <2>2 DEF Gives
    <3>2. a[j] = lines[i].job /\ lines[i].id = j
      BY <1>1, <3>1, ReplayedIs DEF LastFor
    <3> QED
      BY <1>2, <3>1, <3>2 DEF LinesAfter
  <2>3. CASE ~Gives(lines, j)
    <3>1. NoLine(lines, j) /\ j \in DOMAIN m
      BY <1>1, <2>1, <2>3 DEF There
    <3>2. a[j] = m[j]
      BY <1>1, <3>1, ReplayedIs
    <3> QED
      BY <1>2, <3>1, <3>2 DEF NotBefore
  <2> QED
    BY <2>2, <2>3
<1> QED
  BY <1>1, <1>2 DEF NotBefore

\* The gateway's jobs stay in the table.
LEMMA ReplayedSystem ==
    ASSUME CronTypes, LogOK, NEW m
    PROVE  DOMAIN m \cap System \subseteq DOMAIN Replayed(m, log)
<1> SUFFICES ASSUME NEW j \in DOMAIN m, j \in System PROVE j \in DOMAIN Replayed(m, log)
  OBVIOUS
<1>1. log \in Seq(LineType)
  BY DEF CronTypes, StoreOK, LinesOK
<1>2. There(DOMAIN m, log, j)
  <2>1. CASE NoLine(log, j)
    BY <2>1 DEF There
  <2>2. CASE ~NoLine(log, j)
    <3>1. PICK i : LastFor(log, j, i)
      BY <1>1, <2>2, LastLine
    <3>2. i \in 1 .. Len(log) /\ log[i].id = j /\ log[i].op # "del"
      BY <3>1 DEF LastFor, LogOK, Dels
    <3> QED
      BY <3>1, <3>2 DEF There, Gives
  <2> QED
    BY <2>1, <2>2
<1>3. PICK a, D : a = Replayed(m, log) /\ D = DOMAIN m
  OBVIOUS
<1> QED
  BY <1>1, <1>2, <1>3, ReplayedIs

LEMMA LastLoad ==
    ASSUME CronTypes, LogOK, "external" \notin env, proc # "down", Follows(mem, file, log),
           NEW l, Loading(l)
    PROVE  /\ Follows(l.mem, l.file, l.log)
           /\ NotBefore(l.mem, file) /\ NotBefore(l.file, file)
           /\ IsLoaded(l) => DOMAIN file \cap System \subseteq DOMAIN l.mem
<1>1. log \in Seq(LineType) /\ TableOK(file, now) /\ NotBefore(file, file) /\ NotBefore(mem, file)
      /\ LinesAfter(log, file) /\ DOMAIN file \cap System \subseteq DOMAIN mem
  BY SelfNotBefore DEF CronTypes, StoreOK, LinesOK, Follows
<1>2. PICK a : a = Replayed(file, log)
  OBVIOUS
<1>3. NotBefore(a, file) /\ DOMAIN file \cap System \subseteq DOMAIN a /\ NotBefore(a, a)
  <2>1. TableOK(a, now)
    BY <1>1, <1>2, ReplayedTable DEF CronTypes, StoreOK
  <2> QED
    BY <1>1, <1>2, <2>1, ReplayedLast, ReplayedSystem, SelfNotBefore
<1>4. CASE IsLoaded(l)
  <2>1. CASE active
    BY <1>1, <1>4, <2>1 DEF IsLoaded, Follows
  <2>2. CASE ~active /\ bad
    BY <1>1, <1>4, <2>2, NoneBefore DEF IsLoaded
  <2>3. CASE ~active /\ ~bad
    <3>1. /\ l.mem = a
          /\ (l.file = a /\ l.log = <<>>) \/ (l.file = file /\ l.log = log)
      BY <1>2, <1>4, <2>3 DEF IsLoaded
    <3> QED
      BY <1>1, <1>3, <3>1, NoneBefore DEF Follows
  <2> QED
    BY <2>1, <2>2, <2>3 DEF CronTypes, CountsOK, StoreOK
<1>5. CASE IsLoadedTwice(l)
  <2>1. Removals(log)
    BY <1>5 DEF IsLoadedTwice, LogOK
  <2>2. PICK b : b = Replayed(<<>>, log)
    OBVIOUS
  <2>3. DOMAIN b = {}
    BY <1>1, <2>1, <2>2, ReplayRemovals
  <2>4. l.mem = b /\ (l.file = b \/ l.file = <<>>) /\ (l.log = <<>> \/ l.log = log)
    BY <1>5, <2>2 DEF IsLoadedTwice
  <2>5. DOMAIN l.mem = {} /\ DOMAIN l.file = {}
    BY <2>3, <2>4
  <2> QED
    BY <1>5, <2>5 DEF Follows, NotBefore, LinesAfter, IsLoadedTwice, IsLoaded
<1> QED
  BY <1>4, <1>5 DEF Loading

LEMMA PutLast ==
    ASSUME NEW f, NEW m, NotBefore(m, f), NEW j, NEW job, j \in DOMAIN f => job.last >= f[j].last
    PROVE  NotBefore(Put(m, j, job), f) /\ DOMAIN m \subseteq DOMAIN Put(m, j, job)
<1>1. PICK p : p = Put(m, j, job)
  OBVIOUS
<1>2. /\ DOMAIN p = DOMAIN m \cup {j} /\ p[j] = job
      /\ \A i \in DOMAIN m : i # j => p[i] = m[i]
  BY <1>1 DEF Put
<1>3. \A i \in DOMAIN p \cap DOMAIN f : p[i].last >= f[i].last
  BY <1>2 DEF NotBefore
<1> QED
  BY <1>1, <1>2, <1>3 DEF NotBefore

LEMMA DropLast ==
    ASSUME NEW f, NEW m, NotBefore(m, f), NEW j
    PROVE  NotBefore(Drop(m, {j}), f) /\ \A i \in DOMAIN m : i # j => i \in DOMAIN Drop(m, {j})
<1>1. PICK p : p = Drop(m, {j})
  OBVIOUS
<1>2. DOMAIN p = DOMAIN m \ {j} /\ \A i \in DOMAIN p : p[i] = m[i]
  BY <1>1 DEF Drop
<1> QED
  BY <1>1, <1>2 DEF NotBefore

LEMMA AppendAfter ==
    ASSUME NEW z, NEW lines \in Seq(z), NEW e \in z, NEW f, LinesAfter(lines, f),
           e.op # "del" /\ e.id \in DOMAIN f => e.job.last >= f[e.id].last
    PROVE  LinesAfter(Append(lines, e), f)
<1> SUFFICES ASSUME NEW i \in 1 .. Len(Append(lines, e)), Append(lines, e)[i].op # "del",
                    Append(lines, e)[i].id \in DOMAIN f
             PROVE  Append(lines, e)[i].job.last >= f[Append(lines, e)[i].id].last
  BY DEF LinesAfter
<1>1. PICK x : x = Append(lines, e)[i]
  OBVIOUS
<1>2. (i \in 1 .. Len(lines) /\ x = lines[i]) \/ x = e
  BY <1>1, AppendedLine
<1> QED
  BY <1>1, <1>2 DEF LinesAfter

\* A table that is saved over an older file.
LEMMA SavedLast ==
    ASSUME NEW m, TableOK(m, now), NEW lines, Removals(lines)
    PROVE  Follows(m, m, lines)
  BY SelfNotBefore, NoneBefore DEF Follows

LEMMA LastBoot ==
    ASSUME CronTypes, LogOK, Boot, LinesAfter(log, file)
    PROVE  Follows(mem', file', log') /\ NotBefore(file', file)
<1>1. log \in Seq(LineType) /\ TableOK(file, now) /\ now \in 1 .. Horizon
  BY DEF CronTypes, StoreOK, LinesOK, CountsOK
<1>2. PICK a, b, m : a = Replayed(file, log) /\ b = AllRegistered(a) /\ m = Replayed(AtBoot, log)
  OBVIOUS
<1>3. NotBefore(a, file) /\ DOMAIN file \cap System \subseteq DOMAIN a /\ TableOK(a, now)
      /\ NotBefore(file, file)
  <2>1. NotBefore(file, file) /\ TableOK(a, now)
    BY <1>1, <1>2, SelfNotBefore, ReplayedTable DEF CronTypes, StoreOK
  <2> QED
    BY <1>1, <1>2, <2>1, ReplayedLast, ReplayedSystem
<1>4. NotBefore(b, file)
  <2>1. /\ DOMAIN b = DOMAIN a \cup System
        /\ \A j \in System : b[j].last = IF j \in DOMAIN a THEN a[j].last ELSE 0
        /\ \A j \in DOMAIN a \ System : b[j] = a[j]
    BY <1>1, <1>2, <1>3, AllRegisteredIs
  <2>2. ASSUME NEW j \in DOMAIN b \cap DOMAIN file PROVE j \in DOMAIN a /\ b[j].last = a[j].last
    BY <1>3, <2>1, <2>2
  <2> QED
    BY <1>3, <2>2 DEF NotBefore
<1>5. NotBefore(AtBoot, file)
  BY <1>2, <1>3, <1>4 DEF AtBoot
<1>6. NotBefore(m, file) /\ TableOK(m, now) /\ mem' = Restarted(m) /\ file' = mem'
      /\ (log' = <<>> \/ (log' = log /\ Removals(log)))
  BY <1>1, <1>2, <1>5, ReplayedLast, BootIs
<1>7. PICK r : r = Restarted(m)
  OBVIOUS
<1>8. DOMAIN r = DOMAIN m /\ TableOK(r, now) /\ \A j \in DOMAIN m : r[j].last = m[j].last
  BY <1>1, <1>6, <1>7, RestartedIs
<1>9. NotBefore(r, file)
  BY <1>6, <1>8 DEF NotBefore
<1>10. Removals(log')
  BY <1>6, NoLines
<1>11. Follows(r, r, log')
  BY <1>8, <1>10, SavedLast
<1> QED
  BY <1>6, <1>7, <1>9, <1>11

LEMMA LastTimer ==
    ASSUME CronTypes, OneTask, LogOK, OnTimer, ~met, "external" \notin env, Follows(mem, file, log)
    PROVE  Follows(mem', file', log') /\ NotBefore(file', file)
<1>1. proc = "running" /\ Removals(log)
  BY OnTimerIs DEF LogOK
<1>2. PICK l : IsLoaded(l) /\ Loading(l) /\ (TimerIdle(l) \/ \E j, s : TimerRuns(l, j, s))
  BY OnTimerIs
<1>3. /\ Follows(l.mem, l.file, l.log)
      /\ NotBefore(l.mem, file) /\ NotBefore(l.file, file)
  BY <1>1, <1>2, LastLoad
<1>4. Removals(l.log) /\ TableOK(l.mem, now)
  BY <1>1, <1>2, LoadedLog, NoLines DEF Loading
<1>5. Follows(l.mem, l.mem, l.log)
  BY <1>4, SavedLast
<1>6. /\ mem' = l.mem /\ log' = l.log /\ (file' = l.mem \/ file' = l.file)
  BY <1>2 DEF TimerIdle, TimerRuns, Saves
<1> QED
  BY <1>3, <1>5, <1>6

\* The job that ended gets the later time.
LEMMA EndedLast ==
    ASSUME CronTypes, OneTask, ~met, NEW s \in Busy, NEW t, t = tasks[s],
           NEW f, NotBefore(mem, f), TableOK(f, now), DOMAIN f \cap System \subseteq DOMAIN mem,
           NEW m, Ran(m, t) \/ (t.cur \notin System /\ m = Drop(mem, {t.cur}))
    PROVE  NotBefore(m, f) /\ DOMAIN f \cap System \subseteq DOMAIN m
<1>1. Settled(t) /\ Has(t)
  BY OneFinish
<1>2. CASE t.cur \notin System /\ m = Drop(mem, {t.cur})
  <2>1. NotBefore(m, f) /\ \A i \in DOMAIN mem : i # t.cur => i \in DOMAIN m
    BY <1>2, DropLast
  <2> QED
    BY <1>2, <2>1
<1>3. CASE Ran(m, t)
  <2>1. /\ DOMAIN m = DOMAIN mem /\ (\A k \in DOMAIN mem : k # t.cur => m[k] = mem[k])
        /\ m[t.cur].last = t.at /\ t.cur \in DOMAIN mem /\ mem[t.cur].last <= t.at
    BY <1>1, <1>3 DEF Ran, Settled
  <2>2. /\ t.at \in Nat /\ mem[t.cur].last \in Nat
        /\ \A k \in DOMAIN f : f[k].last \in Nat
    <3>1. RunOK(t, now)
      BY BusyRuns, BusyNext DEF CronTypes
    <3> QED
      BY <2>1, <3>1, CronConstants DEF CronTypes, StoreOK, CountsOK, RunOK, TableOK, IsTable, Job
  <2>3. \A x, y, z \in Nat : y <= x /\ y >= z => x >= z
    OBVIOUS
  <2>4. t.cur \in DOMAIN f => t.at >= f[t.cur].last
    BY <2>1, <2>2, <2>3 DEF NotBefore
  <2> QED
    BY <2>1, <2>4 DEF NotBefore
<1> QED
  BY <1>2, <1>3

LEMMA LastFinish ==
    ASSUME CronTypes, OneTask, LogOK, NEW s, FinishJob(s), ~met, "external" \notin env,
           Follows(mem, file, log)
    PROVE  Follows(mem', file', log') /\ NotBefore(file', file)
<1>1. PICK t, m : t = tasks[s] /\ m = Finished(t)
  OBVIOUS
<1>2. /\ proc = "running" /\ s \in Busy /\ RunOK(t, now)
      /\ IsOver(s, m) \/ \E k : GoesOn(s, t, m, k)
  BY <1>1, FinishIs
<1>3. Removals(log) /\ TableOK(file, now) /\ TableOK(m, now) /\ NotBefore(file, file)
  <2>1. TableOK(file, now) /\ TableOK(m, now)
    BY <1>1, <1>2, FinishedIs DEF CronTypes, StoreOK
  <2> QED
    BY <1>2, <2>1, SelfNotBefore DEF LogOK
<1>4. NotBefore(m, file) /\ DOMAIN file \cap System \subseteq DOMAIN m
  <2>1. Ran(m, t) \/ (t.cur \notin System /\ m = Drop(mem, {t.cur}))
    BY <1>1, <1>2, FinishedEither
  <2> QED
    BY <1>1, <1>2, <1>3, <2>1, EndedLast DEF Follows
<1>5. Follows(m, m, log) /\ Follows(m, file, log)
  BY <1>3, <1>4, SavedLast DEF Follows
<1>6. mem' = m /\ log' = log /\ (file' = m \/ file' = file)
  BY <1>2, StoreIs DEF IsOver, GoesOn, Saves
<1> QED
  BY <1>3, <1>4, <1>5, <1>6

LEMMA LastCancel ==
    ASSUME CronTypes, OneTask, LogOK, NEW s, CancelJob(s), ~met, "external" \notin env,
           Follows(mem, file, log)
    PROVE  Follows(mem', file', log') /\ NotBefore(file', file)
<1>1. PICK t, m : t = tasks[s] /\ m = mem'
  OBVIOUS
<1>2. s \in Busy /\ Ran(m, t) /\ file' = m /\ log' = log
  BY <1>1, CancelIs
<1>3. active
  BY <1>2, OneFinish
<1>4. Removals(log) /\ TableOK(file, now) /\ TableOK(m, now)
  BY <1>2, <1>3 DEF LogOK, CronTypes, StoreOK, Ran
<1>5. NotBefore(m, file)
  BY <1>1, <1>2, <1>4, EndedLast DEF Follows
<1>6. Follows(m, m, log)
  BY <1>4, SavedLast
<1> QED
  BY <1>1, <1>2, <1>5, <1>6

\* A request's job is not behind table f.
LEMMA RequestLast ==
    ASSUME CronTypes, UsedInv, Requests, NEW l, NEW j, NEW m, NEW kept, NEW e,
           \/ Adds(l, j, m, kept, e) \/ Removes(l, j, m, kept, e)
           \/ \E job : Changes(l, j, m, kept, e, job) \/ Registers(l, j, m, job),
           Loading(l), NEW f, f = file \/ f = l.file, NotBefore(l.mem, f),
           IsLoaded(l) => DOMAIN f \cap System \subseteq DOMAIN l.mem
    PROVE  /\ NotBefore(m, f) /\ DOMAIN l.mem \cap System \subseteq DOMAIN m
           /\ Registers(l, j, m, m[j]) \/ (e.op # "del" /\ e.id \in DOMAIN f => e.job.last >= f[e.id].last)
<1>0. 0 >= 0 /\ ~(0 > 0)
  OBVIOUS
<1>1. CASE Adds(l, j, m, kept, e)
  <2>1. m = Put(l.mem, j, NewJob(j)) /\ NewJob(j).last = 0 /\ ran[j] = 0 /\ j \in Jobs
        /\ e.id = j /\ e.job = NewJob(j)
    BY <1>1 DEF Adds, Unused, NewJob, Line
  <2>2. UsedIn(f, ran) /\ TableOK(f, now)
    BY UsedLoad DEF UsedInv, CronTypes, StoreOK, Loading
  <2>3. j \in DOMAIN f => f[j].last = 0
    <3>1. j \in DOMAIN f => f[j].last \in Nat /\ ~(f[j].last > 0)
      BY <1>0, <2>1, <2>2, CronConstants DEF UsedIn, TableOK, IsTable, Job
    <3>2. \A x \in Nat : ~(x > 0) => x = 0
      OBVIOUS
    <3> QED
      BY <3>1, <3>2
  <2>4. j \in DOMAIN f => NewJob(j).last >= f[j].last
    BY <1>0, <2>1, <2>3
  <2>5. NotBefore(m, f) /\ DOMAIN l.mem \subseteq DOMAIN m
    BY <2>1, <2>4, PutLast
  <2> QED
    BY <2>1, <2>4, <2>5
<1>2. CASE Removes(l, j, m, kept, e)
  <2>1. m = Drop(l.mem, {j}) /\ j \notin System /\ e.op = "del"
    BY <1>2 DEF Removes, Line
  <2>2. NotBefore(m, f) /\ \A i \in DOMAIN l.mem : i # j => i \in DOMAIN m
    BY <2>1, DropLast
  <2> QED
    BY <2>1, <2>2
<1>3. CASE \E job : Changes(l, j, m, kept, e, job) \/ Registers(l, j, m, job)
  <2>1. PICK job : Changes(l, j, m, kept, e, job) \/ Registers(l, j, m, job)
    BY <1>3
  <2>2. /\ IsLoaded(l) /\ m = Put(l.mem, j, job) /\ (j \in DOMAIN l.mem \/ j \in System)
        /\ job.last = IF j \in DOMAIN l.mem THEN l.mem[j].last ELSE 0
    BY <2>1 DEF Changes, Registers, Renewed
  <2>3. j \in DOMAIN f => job.last >= f[j].last
    BY <2>2 DEF NotBefore
  <2>4. NotBefore(m, f) /\ DOMAIN l.mem \subseteq DOMAIN m
    BY <2>2, <2>3, PutLast
  <2>5. CASE Changes(l, j, m, kept, e, job)
    BY <2>3, <2>4, <2>5 DEF Changes, Line
  <2>6. CASE Registers(l, j, m, job)
    <3>1. m[j] = job
      BY <2>2 DEF Put
    <3> QED
      BY <2>4, <2>6, <3>1
  <2> QED
    BY <2>1, <2>5, <2>6
<1> QED
  BY <1>1, <1>2, <1>3

LEMMA LastRequests ==
    ASSUME CronTypes, LogOK, UsedInv, Requests, ~met', "external" \notin env,
           proc # "down" => Follows(mem, file, log)
    PROVE  Follows(mem', file', log') /\ NotBefore(file', file) /\ proc # "down"
<1>0. PICK j \in Jobs : \E l, m, kept, e :
               /\ Loading(l) /\ Answered(l, m, kept, e)
               /\ \/ Adds(l, j, m, kept, e) \/ Removes(l, j, m, kept, e)
                  \/ \E job : Changes(l, j, m, kept, e, job) \/ Registers(l, j, m, job)
  BY RequestIs
<1>1. PICK l, m, kept, e :
               /\ Loading(l) /\ Answered(l, m, kept, e)
               /\ \/ Adds(l, j, m, kept, e) \/ Removes(l, j, m, kept, e)
                  \/ \E job : Changes(l, j, m, kept, e, job) \/ Registers(l, j, m, job)
  BY <1>0
<1>2. proc # "down" /\ TableOK(m, now)
  BY <1>1 DEF Answered
<1>3. /\ Follows(l.mem, l.file, l.log) /\ NotBefore(l.mem, file) /\ NotBefore(l.file, file)
      /\ IsLoaded(l) => DOMAIN file \cap System \subseteq DOMAIN l.mem
  BY <1>1, <1>2, LastLoad
<1>4. CASE proc = "running"
  <2>1. mem' = m /\ file' = m /\ log' = l.log
    BY <1>1, <1>4 DEF Answered
  <2>2. Removals(l.log)
    BY <1>1, <1>4, LoadedLog, NoLines DEF LogOK
  <2>3. NotBefore(m, file)
    <3>1. PICK f : f = file
      OBVIOUS
    <3>2. NotBefore(m, f)
      BY <1>1, <1>3, <3>1, RequestLast
    <3> QED
      BY <3>1, <3>2
  <2> QED
    BY <1>2, <2>1, <2>2, <2>3, SavedLast
<1>5. CASE proc = "stopping"
  <2>1. mem' = kept /\ file' = l.file /\ log' = Append(l.log, e) /\ e \in LineType
        /\ l.log \in Seq(LineType)
    BY <1>1, <1>5 DEF Answered, Loading, LinesOK
  <2>2. kept = l.mem \/ kept = m
    BY <1>1, <1>5 DEF Adds, Removes, Changes, Registers
  <2>3. /\ NotBefore(m, l.file) /\ DOMAIN l.mem \cap System \subseteq DOMAIN m
        /\ e.op # "del" /\ e.id \in DOMAIN l.file => e.job.last >= l.file[e.id].last
    <3>1. PICK f : f = l.file
      OBVIOUS
    <3>2. NotBefore(l.mem, f) /\ DOMAIN f \cap System \subseteq DOMAIN l.mem
      BY <1>3, <3>1 DEF Follows
    <3>3. /\ NotBefore(m, f) /\ DOMAIN l.mem \cap System \subseteq DOMAIN m
          /\ Registers(l, j, m, m[j]) \/ (e.op # "del" /\ e.id \in DOMAIN f => e.job.last >= f[e.id].last)
      BY <1>1, <3>1, <3>2, RequestLast
    <3> QED
      BY <1>5, <3>1, <3>3 DEF Registers
  <2>4. LinesAfter(Append(l.log, e), l.file)
    BY <1>3, <2>1, <2>3, AppendAfter DEF Follows
  <2> QED
    BY <1>2, <1>3, <2>1, <2>2, <2>3, <2>4 DEF Follows
<1> QED
  BY <1>1, <1>4, <1>5 DEF Answered

LEMMA LastStep ==
    CronTypes /\ OneTask /\ LogOK /\ UsedInv /\ LastInv /\ [CronNext]_cronVars =>
        LastInv' /\ (~met' /\ "external" \notin env => NotBefore(file', file))
<1> SUFFICES ASSUME CronTypes, OneTask, LogOK, UsedInv, LastInv, [CronNext]_cronVars,
                    ~met', "external" \notin env
             PROVE  /\ IF proc' = "down" THEN LinesAfter(log', file') ELSE Follows(mem', file', log')
                    /\ NotBefore(file', file)
  BY MetGrows DEF LastInv
<1>1. ~met /\ (proc = "down" => LinesAfter(log, file)) /\ (proc # "down" => Follows(mem, file, log))
      /\ NotBefore(file, file)
  BY MetGrows, SelfNotBefore DEF LastInv, CronTypes, StoreOK
<1>2. CASE UNCHANGED cronVars \/ Tick \/ Corrupt \/ Stop
  <2>1. UNCHANGED <<mem, file, log>> /\ (proc' = "down" <=> proc = "down")
    BY <1>2 DEF cronVars, Tick, Corrupt, Stop, disk, timer, history
  <2> QED
    BY <1>1, <2>1
<1>3. CASE Exit \/ Crash \/ CrashInMerge
  <2>1. proc' = "down" /\ proc # "down" /\ UNCHANGED file /\ (log' = log \/ log' = <<>>)
    BY <1>3 DEF Exit, Crash, CrashInMerge, Gone, disk
  <2> QED
    BY <1>1, <2>1, NoneBefore DEF Follows
<1>4. CASE Boot
  <2>1. proc = "down" /\ proc' = "running"
    BY <1>4 DEF Boot
  <2> QED
    BY <1>1, <1>4, <2>1, LastBoot
<1>5. CASE OnTimer
  <2>1. proc = "running" /\ proc' = proc
    BY <1>5, OnTimerIs
  <2> QED
    BY <1>1, <1>5, <2>1, LastTimer
<1>6. CASE \E s : FinishJob(s)
  <2>1. PICK s : FinishJob(s)
    BY <1>6
  <2>2. proc = "running" /\ proc' = proc
    BY <2>1, FinishIs
  <2> QED
    BY <1>1, <2>1, <2>2, LastFinish
<1>7. CASE \E s : CancelJob(s)
  <2>1. PICK s : CancelJob(s)
    BY <1>7
  <2>2. proc = "stopping" /\ proc' = proc
    BY <2>1, CancelIs
  <2> QED
    BY <1>1, <2>1, <2>2, LastCancel
<1>8. CASE Requests
  <2>1. PICK l, m, kept, e : Answered(l, m, kept, e)
    BY <1>8, RequestIs
  <2>2. proc' = proc
    BY <2>1 DEF Answered
  <2> QED
    BY <1>1, <1>8, <2>2, LastRequests
<1>9. CASE ReadJobs
  <2>1. proc # "down" /\ proc' = proc
    BY <1>9, ReadIs
  <2>2. PICK l : Loading(l) /\ mem' = l.mem /\ file' = l.file /\ log' = l.log
    BY <1>9, ReadIs
  <2> QED
    BY <1>1, <2>1, <2>2, LastLoad
<1>10. CASE External
  BY <1>10, ExternalIs DEF LogOK, ExtWrites
<1> QED
  BY <1>2, <1>3, <1>4, <1>5, <1>6, <1>7, <1>8, <1>9, <1>10 DEF CronNext, Runs

LEMMA LastInit == CronInit => LastInv
  BY NoneBefore DEF CronInit, LastInv

\* The saved time of a job's last run never goes back, through registrations,
\* restarts and crashes, while no other process changes jobs and no change of
\* the configuration meets a running job (register_system_job, _save_store).
THEOREM LastRunKeptHolds == CronSpec => LastRunKept
<1> DEFINE Inv == CronTypes /\ OneTask /\ LogOK /\ UsedInv /\ LastInv
<1>1. CronInit => Inv
  BY RunsInit, UsedInit, LastInit DEF CronRuns
<1>2. Inv /\ [CronNext]_cronVars => Inv'
  BY TypesStep, OneStep, LogStep, UsedStep, LastStep
<1>3. Inv /\ [CronNext]_cronVars =>
        [~met' /\ "external" \notin env =>
            \A j \in DOMAIN file \cap DOMAIN file' : file'[j].last >= file[j].last]_cronVars
  BY LastStep DEF NotBefore
<1> QED
  BY <1>1, <1>2, <1>3, PTL DEF CronSpec, LastRunKept

-----------------------------------------------------------------------------
(***************************************************************************)
(* Changes are kept.  Log and file, and log and table, agree on which jobs *)
(* there are: those added and not those removed.                           *)
(***************************************************************************)
Keeps(D, lines, A, R) == (\A j \in A : There(D, lines, j)) /\ \A j \in R : ~There(D, lines, j)

Stays == acked \ torn
GoesAway == removed \ (raced \cup torn)

KeepInv ==
    "corrupt" \notin env =>
        /\ Keeps(DOMAIN file, log, Stays, GoesAway)
        /\ proc # "down" => Keeps(DOMAIN mem, log, Stays, GoesAway)

LEMMA KeepsFewer ==
    ASSUME NEW D, NEW lines, NEW A, NEW R, Keeps(D, lines, A, R), NEW B, NEW S, B \subseteq A, S \subseteq R
    PROVE  Keeps(D, lines, B, S)
  BY DEF Keeps

\* The lines applied, kept or not.
LEMMA KeepsReplayed ==
    ASSUME NEW z, NEW lines \in Seq(z), NEW m, NEW A, NEW R, Keeps(DOMAIN m, lines, A, R),
           NEW a, a = Replayed(m, lines)
    PROVE  Keeps(DOMAIN a, lines, A, R) /\ Keeps(DOMAIN a, <<>>, A, R)
<1>1. PICK D, E : D = DOMAIN m /\ E = DOMAIN a
  OBVIOUS
<1>2. \A j : j \in E <=> There(D, lines, j)
  BY <1>1, ReplayedIs
<1>3. \A j : There(E, lines, j) <=> There(D, lines, j)
  BY <1>2, ThereTwice
<1>4. \A j : There(E, <<>>, j) <=> There(D, lines, j)
  BY <1>2, ThereNone
<1> QED
  BY <1>1, <1>3, <1>4 DEF Keeps

LEMMA KeepLoad ==
    ASSUME CronTypes, KeepInv, "corrupt" \notin env, proc # "down", NEW l, Loading(l)
    PROVE  /\ Keeps(DOMAIN l.file, l.log, Stays, GoesAway)
           /\ Keeps(DOMAIN l.mem, l.log, Stays, GoesAway)
<1>1. /\ log \in Seq(LineType) /\ ~bad /\ active \in BOOLEAN
      /\ Keeps(DOMAIN file, log, Stays, GoesAway) /\ Keeps(DOMAIN mem, log, Stays, GoesAway)
  BY DEF CronTypes, StoreOK, LinesOK, Shape, CountsOK, KeepInv
<1>2. PICK a : a = Replayed(file, log)
  OBVIOUS
<1>3. Keeps(DOMAIN a, log, Stays, GoesAway) /\ Keeps(DOMAIN a, <<>>, Stays, GoesAway)
  BY <1>1, <1>2, KeepsReplayed
<1>4. IsLoaded(l)
  BY <1>1 DEF Loading, IsLoadedTwice
<1>5. CASE active
  BY <1>1, <1>4, <1>5 DEF IsLoaded
<1>6. CASE ~active
  <2>1. l.mem = a /\ ((l.file = a /\ l.log = <<>>) \/ (l.file = file /\ l.log = log))
    BY <1>1, <1>2, <1>4, <1>6 DEF IsLoaded
  <2> QED
    BY <1>1, <1>3, <2>1
<1> QED
  BY <1>5, <1>6

LEMMA KeepBoot ==
    ASSUME CronTypes, LogOK, Boot, Keeps(DOMAIN file, log, Stays, GoesAway)
    PROVE  /\ Keeps(DOMAIN file', log', Stays, GoesAway)
           /\ Keeps(DOMAIN mem', log', Stays, GoesAway)
<1>1. log \in Seq(LineType) /\ now \in 1 .. Horizon /\ GoesAway \cap System = {}
  BY DEF CronTypes, StoreOK, LinesOK, CountsOK, LogOK, GoesAway
<1>2. PICK a, b, m : a = Replayed(file, log) /\ b = AtBoot /\ m = Replayed(b, log)
  OBVIOUS
<1>3. TableOK(a, now)
  BY <1>2, ReplayedTable DEF CronTypes, StoreOK
<1>4. Keeps(DOMAIN a, log, Stays, GoesAway)
  BY <1>1, <1>2, KeepsReplayed
<1>5. Keeps(DOMAIN b, log, Stays, GoesAway)
  <2>1. CASE System = {}
    BY <1>2, <2>1 DEF AtBoot
  <2>2. CASE System # {}
    <3>1. b = AllRegistered(a)
      BY <1>2, <2>2 DEF AtBoot
    <3>2. DOMAIN b = DOMAIN a \cup System
      BY <3>1 DEF AllRegistered
    <3>3. \A j : There(DOMAIN b, log, j) => There(DOMAIN a, log, j) \/ j \in System
      BY <3>2 DEF There
    <3>4. \A j : There(DOMAIN a, log, j) => There(DOMAIN b, log, j)
      BY <3>2 DEF There
    <3> QED
      BY <1>1, <1>4, <3>3, <3>4 DEF Keeps
  <2> QED
    BY <2>1, <2>2
<1>6. Keeps(DOMAIN m, log, Stays, GoesAway) /\ Keeps(DOMAIN m, <<>>, Stays, GoesAway)
  BY <1>1, <1>2, <1>5, KeepsReplayed
<1>7. /\ TableOK(m, now) /\ mem' = Restarted(m) /\ file' = mem'
      /\ log' = <<>> \/ log' = log
  BY <1>2, BootIs
<1>8. DOMAIN mem' = DOMAIN m
  BY <1>7 DEF Restarted
<1> QED
  BY <1>6, <1>7, <1>8

LEMMA KeepTimer ==
    ASSUME CronTypes, KeepInv, OnTimer, "corrupt" \notin env
    PROVE  /\ Keeps(DOMAIN file', log', Stays, GoesAway) /\ Keeps(DOMAIN mem', log', Stays, GoesAway)
           /\ Stays' = Stays /\ GoesAway' = GoesAway
<1>1. proc # "down" /\ UNCHANGED <<acked, removed, raced, torn>>
  BY OnTimerIs
<1>2. PICK l : Loading(l) /\ (TimerIdle(l) \/ \E j, s : TimerRuns(l, j, s))
  BY OnTimerIs
<1>3. mem' = l.mem /\ log' = l.log /\ (file' = l.mem \/ file' = l.file)
  BY <1>2 DEF TimerIdle, TimerRuns, Saves
<1> QED
  BY <1>1, <1>2, <1>3, KeepLoad DEF Stays, GoesAway

\* A job that has run to its end leaves the table.
LEMMA KeepFinish ==
    ASSUME CronTypes, KeepInv, NEW s, FinishJob(s), "corrupt" \notin env
    PROVE  Keeps(DOMAIN file', log', Stays', GoesAway') /\ Keeps(DOMAIN mem', log', Stays', GoesAway')
<1>1. PICK t, m : t = tasks[s] /\ m = Finished(t)
  OBVIOUS
<1>2. /\ proc = "running" /\ RunOK(t, now) /\ UNCHANGED <<removed, raced, torn>>
      /\ acked' = IF Schedule[t.cur] = "once" THEN acked \ {t.cur} ELSE acked
      /\ IsOver(s, m) \/ \E k : GoesOn(s, t, m, k)
  BY <1>1, FinishIs
<1>3. Keeps(DOMAIN file, log, Stays, GoesAway) /\ Keeps(DOMAIN mem, log, Stays, GoesAway)
  BY <1>2 DEF KeepInv
<1>4. Stays' \subseteq Stays /\ GoesAway' = GoesAway
  BY <1>2 DEF Stays, GoesAway
<1>5. Keeps(DOMAIN m, log, Stays', GoesAway')
  <2>1. CASE Schedule[t.cur] # "once"
    <3>1. DOMAIN m = DOMAIN mem
      BY <1>1, <1>2, <2>1, FinishedIs DEF Ran
    <3> QED
      BY <1>3, <1>4, <3>1, KeepsFewer
  <2>2. CASE Schedule[t.cur] = "once"
    <3>1. m = Drop(mem, {t.cur}) /\ t.cur \notin Stays'
      BY <1>1, <1>2, <2>2, FinishedIs DEF Stays
    <3>2. DOMAIN m = DOMAIN mem \ {t.cur}
      BY <3>1 DEF Drop
    <3>3. \A j : There(DOMAIN m, log, j) => There(DOMAIN mem, log, j)
      BY <3>2 DEF There
    <3>4. \A j : There(DOMAIN mem, log, j) /\ j # t.cur => There(DOMAIN m, log, j)
      BY <3>2 DEF There
    <3> QED
      BY <1>3, <1>4, <3>1, <3>3, <3>4 DEF Keeps
  <2> QED
    BY <2>1, <2>2
<1>6. mem' = m /\ log' = log /\ (file' = m \/ file' = file)
  BY <1>2, StoreIs DEF IsOver, GoesOn, Saves
<1>7. Keeps(DOMAIN file, log, Stays', GoesAway')
  BY <1>3, <1>4, KeepsFewer
<1> QED
  BY <1>5, <1>6, <1>7

LEMMA KeepCancel ==
    ASSUME CronTypes, KeepInv, NEW s, CancelJob(s), "corrupt" \notin env
    PROVE  Keeps(DOMAIN file', log', Stays', GoesAway') /\ Keeps(DOMAIN mem', log', Stays', GoesAway')
<1>1. /\ proc = "stopping" /\ Ran(mem', tasks[s]) /\ file' = mem'
      /\ UNCHANGED <<log, acked, removed, raced, torn>>
  BY CancelIs
<1>2. DOMAIN mem' = DOMAIN mem
  BY <1>1 DEF Ran
<1> QED
  BY <1>1, <1>2 DEF KeepInv, Stays, GoesAway

\* A table with or without one more job.
LEMMA KeepsPut ==
    ASSUME NEW m, NEW lines, NEW A, NEW R, Keeps(DOMAIN m, lines, A, R), NEW j, NEW job, j \notin R
    PROVE  Keeps(DOMAIN Put(m, j, job), lines, A, R)
<1>1. PICK E : E = DOMAIN Put(m, j, job)
  OBVIOUS
<1>2. E = DOMAIN m \cup {j}
  BY <1>1 DEF Put
<1>3. \A i : There(DOMAIN m, lines, i) => There(E, lines, i)
  BY <1>2 DEF There
<1>4. \A i : There(E, lines, i) /\ i # j => There(DOMAIN m, lines, i)
  BY <1>2 DEF There
<1> QED
  BY <1>1, <1>3, <1>4 DEF Keeps

LEMMA KeepsDrop ==
    ASSUME NEW m, NEW lines, NEW A, NEW R, Keeps(DOMAIN m, lines, A, R), NEW j
    PROVE  Keeps(DOMAIN Drop(m, {j}), lines, A \ {j}, R)
<1>1. PICK E : E = DOMAIN Drop(m, {j})
  OBVIOUS
<1>2. E = DOMAIN m \ {j}
  BY <1>1 DEF Drop
<1>3. \A i : There(E, lines, i) => There(DOMAIN m, lines, i)
  BY <1>2 DEF There
<1>4. \A i : There(DOMAIN m, lines, i) /\ i # j => There(E, lines, i)
  BY <1>2 DEF There
<1> QED
  BY <1>1, <1>3, <1>4 DEF Keeps

LEMMA KeepsAppend ==
    ASSUME NEW z, NEW lines \in Seq(z), NEW e \in z, NEW D, NEW A, NEW R, Keeps(D, lines, A, R)
    PROVE  /\ e.op = "del" => Keeps(D, Append(lines, e), A \ {e.id}, R \cup {e.id})
           /\ e.op # "del" => Keeps(D, Append(lines, e), A \cup {e.id}, R \ {e.id})
<1>1. PICK v : v = Append(lines, e)
  OBVIOUS
<1>2. \A j : /\ e.op = "del" => (There(D, v, j) <=> There(D, lines, j) /\ j # e.id)
             /\ e.op # "del" => (There(D, v, j) <=> There(D, lines, j) \/ j = e.id)
  BY <1>1, ThereAppend
<1>3. e.op = "del" => Keeps(D, v, A \ {e.id}, R \cup {e.id})
  BY <1>2 DEF Keeps
<1>4. e.op # "del" => Keeps(D, v, A \cup {e.id}, R \ {e.id})
  BY <1>2 DEF Keeps
<1> QED
  BY <1>1, <1>3, <1>4

\* A job that is in the table and was never removed is there.
LEMMA NewThere ==
    ASSUME NEW z, NEW lines \in Seq(z), NEW R, Dels(lines, R), NEW j, j \notin R, NEW D, j \in D
    PROVE  There(D, lines, j)
<1>1. CASE NoLine(lines, j)
  BY <1>1 DEF There
<1>2. CASE ~NoLine(lines, j)
  <2>1. PICK i : LastFor(lines, j, i)
    BY <1>2, LastLine
  <2>2. i \in 1 .. Len(lines) /\ lines[i].op # "del"
    BY <2>1 DEF LastFor, Dels
  <2> QED
    BY <2>1, <2>2 DEF There, Gives
<1> QED
  BY <1>1, <1>2

LEMMA KeepRequests ==
    ASSUME CronTypes, LogOK, KeepInv, Requests, "corrupt" \notin env
    PROVE  /\ Keeps(DOMAIN file', log', Stays', GoesAway')
           /\ Keeps(DOMAIN mem', log', Stays', GoesAway')
<1>0. PICK j \in Jobs : \E l, m, kept, e :
               /\ Loading(l) /\ Answered(l, m, kept, e)
               /\ \/ Adds(l, j, m, kept, e) \/ Removes(l, j, m, kept, e)
                  \/ \E job : Changes(l, j, m, kept, e, job) \/ Registers(l, j, m, job)
  BY RequestIs
<1>1. PICK l, m, kept, e :
               /\ Loading(l) /\ Answered(l, m, kept, e)
               /\ \/ Adds(l, j, m, kept, e) \/ Removes(l, j, m, kept, e)
                  \/ \E job : Changes(l, j, m, kept, e, job) \/ Registers(l, j, m, job)
  BY <1>0
<1>2. /\ proc # "down" /\ torn' = torn /\ e \in LineType /\ l.log \in Seq(LineType)
      /\ \/ proc = "running" /\ mem' = m /\ file' = m /\ log' = l.log
         \/ proc = "stopping" /\ mem' = kept /\ file' = l.file /\ log' = Append(l.log, e)
  BY <1>1 DEF Answered, Loading, LinesOK
<1>3. Keeps(DOMAIN l.file, l.log, Stays, GoesAway) /\ Keeps(DOMAIN l.mem, l.log, Stays, GoesAway)
  BY <1>1, <1>2, KeepLoad
<1>4. PICK v, A, R, B, S : /\ v = Append(l.log, e) /\ A = Stays /\ R = GoesAway
                           /\ B = Stays' /\ S = GoesAway'
  OBVIOUS
<1>5. Dels(l.log, removed) /\ removed \cap System = {} /\ R \subseteq removed
  BY <1>1, <1>4, LoadedLog, NoLines DEF LogOK, GoesAway
<1>6. CASE Adds(l, j, m, kept, e)
  <2>1. /\ m = Put(l.mem, j, NewJob(j)) /\ kept = l.mem /\ e.op = "add" /\ e.id = j
        /\ acked' = acked \cup {j} /\ UNCHANGED <<removed, raced>> /\ j \notin removed
    BY <1>6 DEF Adds, Unused, Line
  <2>2. B \subseteq A \cup {j} /\ S = R /\ j \notin R /\ S \subseteq R \ {j}
    BY <1>2, <1>4, <1>5, <2>1 DEF Stays, GoesAway
  <2>3. CASE proc = "running"
    <3>1. Keeps(DOMAIN m, l.log, A, R)
      BY <1>3, <1>4, <2>1, <2>2, KeepsPut
    <3>2. j \in DOMAIN m
      BY <2>1 DEF Put
    <3>3. There(DOMAIN m, l.log, j)
      BY <1>2, <1>5, <2>1, <3>2, NewThere
    <3>4. Keeps(DOMAIN m, l.log, B, S)
      BY <2>2, <3>1, <3>3 DEF Keeps
    <3> QED
      BY <1>2, <1>4, <2>3, <3>4
  <2>4. CASE proc = "stopping"
    <3>1. /\ Keeps(DOMAIN l.file, v, A \cup {j}, R \ {j})
          /\ Keeps(DOMAIN l.mem, v, A \cup {j}, R \ {j})
      BY <1>2, <1>3, <1>4, <2>1, KeepsAppend
    <3>2. Keeps(DOMAIN l.file, v, B, S) /\ Keeps(DOMAIN l.mem, v, B, S)
      BY <2>2, <3>1, KeepsFewer
    <3> QED
      BY <1>2, <1>4, <2>1, <2>4, <3>2
  <2> QED
    BY <1>2, <2>3, <2>4
<1>7. CASE Removes(l, j, m, kept, e)
  <2>1. /\ m = Drop(l.mem, {j}) /\ kept = m /\ e.op = "del" /\ e.id = j
        /\ acked' = acked \ {j} /\ removed' = removed \cup {j}
        /\ raced' = IF ext # <<>> \/ \E i \in DOMAIN l.log : l.log[i].id = j THEN raced \cup {j}
                    ELSE raced
    BY <1>7 DEF Removes, Line
  <2>2. B \subseteq A \ {j} /\ S \subseteq R \cup {j}
    BY <1>2, <1>4, <2>1 DEF Stays, GoesAway
  <2>3. Keeps(DOMAIN m, l.log, A \ {j}, R)
    BY <1>3, <1>4, <2>1, KeepsDrop
  <2>4. CASE proc = "running"
    <3>1. ASSUME j \in S PROVE ~There(DOMAIN m, l.log, j)
      <4>1. ~\E i \in DOMAIN l.log : l.log[i].id = j
        BY <1>4, <2>1, <3>1 DEF GoesAway
      <4>2. ~Gives(l.log, j)
        <5>1. DOMAIN l.log = 1 .. Len(l.log)
          BY <1>2
        <5> QED
          BY <4>1, <5>1 DEF Gives, LastFor
      <4>3. j \notin DOMAIN m
        BY <2>1 DEF Drop
      <4> QED
        BY <4>2, <4>3 DEF There
    <3>2. Keeps(DOMAIN m, l.log, B, S)
      BY <2>2, <2>3, <3>1 DEF Keeps
    <3> QED
      BY <1>2, <1>4, <2>4, <3>2
  <2>5. CASE proc = "stopping"
    <3>1. Keeps(DOMAIN l.file, v, A \ {j}, R \cup {j})
      BY <1>2, <1>3, <1>4, <2>1, KeepsAppend
    <3>2. Keeps(DOMAIN m, v, (A \ {j}) \ {j}, R \cup {j})
      BY <1>2, <1>4, <2>1, <2>3, KeepsAppend
    <3>3. Keeps(DOMAIN l.file, v, B, S) /\ Keeps(DOMAIN m, v, B, S)
      BY <2>2, <3>1, <3>2, KeepsFewer
    <3> QED
      BY <1>2, <1>4, <2>1, <2>5, <3>3
  <2> QED
    BY <1>2, <2>4, <2>5
<1>8. CASE \E job : Changes(l, j, m, kept, e, job)
  <2>1. PICK job : Changes(l, j, m, kept, e, job)
    BY <1>8
  <2>2. /\ j \in DOMAIN l.mem /\ m = Put(l.mem, j, job) /\ kept = m /\ e.op = "update" /\ e.id = j
        /\ UNCHANGED <<acked, removed>>
        /\ raced' = IF proc = "stopping" /\ j \in removed THEN raced \cup {j} ELSE raced
    BY <2>1 DEF Changes, Line, Overtakes
  <2>3. DOMAIN m = DOMAIN l.mem
    BY <2>2 DEF Put
  <2>4. B = A /\ S \subseteq R /\ (proc = "stopping" => S \subseteq R \ {j})
    BY <1>2, <1>4, <2>2 DEF Stays, GoesAway
  <2>5. CASE proc = "running"
    <3>1. Keeps(DOMAIN m, l.log, B, S)
      BY <1>3, <1>4, <2>3, <2>4, KeepsFewer
    <3> QED
      BY <1>2, <1>4, <2>5, <3>1
  <2>6. CASE proc = "stopping"
    <3>1. /\ Keeps(DOMAIN l.file, v, A \cup {j}, R \ {j})
          /\ Keeps(DOMAIN m, v, A \cup {j}, R \ {j})
      BY <1>2, <1>3, <1>4, <2>2, <2>3, KeepsAppend
    <3>2. Keeps(DOMAIN l.file, v, B, S) /\ Keeps(DOMAIN m, v, B, S)
      BY <2>4, <2>6, <3>1, KeepsFewer
    <3> QED
      BY <1>2, <1>4, <2>2, <2>6, <3>2
  <2> QED
    BY <1>2, <2>5, <2>6
<1>9. CASE \E job : Registers(l, j, m, job)
  <2>1. PICK job : Registers(l, j, m, job)
    BY <1>9
  <2>2. /\ j \in System /\ proc = "running" /\ m = Put(l.mem, j, job)
        /\ UNCHANGED <<acked, removed, raced>>
    BY <2>1 DEF Registers
  <2>3. B = A /\ S = R /\ j \notin R
    BY <1>2, <1>4, <1>5, <2>2 DEF Stays, GoesAway
  <2>4. Keeps(DOMAIN m, l.log, A, R)
    BY <1>3, <1>4, <2>2, <2>3, KeepsPut
  <2> QED
    BY <1>2, <1>4, <2>2, <2>3, <2>4
<1> QED
  BY <1>1, <1>6, <1>7, <1>8, <1>9

LEMMA KeepExternal ==
    ASSUME CronTypes, LogOK, KeepInv, External, "corrupt" \notin env
    PROVE  /\ Keeps(DOMAIN file', log', Stays', GoesAway')
           /\ proc # "down" => Keeps(DOMAIN mem', log', Stays', GoesAway')
<1>1. /\ UNCHANGED <<mem, file, torn>> /\ log \in Seq(LineType)
      /\ Keeps(DOMAIN file, log, Stays, GoesAway)
      /\ proc # "down" => Keeps(DOMAIN mem, log, Stays, GoesAway)
  BY ExternalIs DEF GatewayStays, CronTypes, StoreOK, LinesOK, KeepInv
<1>2. PICK A, R, B, S : A = Stays /\ R = GoesAway /\ B = Stays' /\ S = GoesAway'
  OBVIOUS
<1>3. CASE \E j, e : ExtReads(j, e) /\ e \in LineType /\ e.job.last <= now
  BY <1>1, <1>3 DEF ExtReads, Stays, GoesAway
<1>4. CASE \E e \in LineType :
            /\ log' = Append(log, e)
            /\ IF e.op = "del" THEN B \subseteq A \ {e.id} /\ S \subseteq R \cup {e.id}
               ELSE B \subseteq A \cup {e.id} /\ S \subseteq R \ {e.id}
  <2>1. PICK e \in LineType :
            /\ log' = Append(log, e)
            /\ IF e.op = "del" THEN B \subseteq A \ {e.id} /\ S \subseteq R \cup {e.id}
               ELSE B \subseteq A \cup {e.id} /\ S \subseteq R \ {e.id}
    BY <1>4
  <2>2. ASSUME NEW D, Keeps(D, log, A, R) PROVE Keeps(D, log', B, S)
    <3>1. PICK v : v = Append(log, e)
      OBVIOUS
    <3>2. /\ e.op = "del" => Keeps(D, v, A \ {e.id}, R \cup {e.id})
          /\ e.op # "del" => Keeps(D, v, A \cup {e.id}, R \ {e.id})
      BY <1>1, <2>2, <3>1, KeepsAppend
    <3>3. Keeps(D, v, B, S)
      BY <2>1, <3>2 DEF Keeps
    <3> QED
      BY <2>1, <3>1, <3>3
  <2> QED
    BY <1>1, <1>2, <2>2
<1>5. CASE \E j \in Jobs : ExtAdds(j)
  <2>1. PICK j \in Jobs : ExtAdds(j)
    BY <1>5
  <2>2. PICK e : e = Line("add", j, NewJob(j))
    OBVIOUS
  <2>3. NewJob(j) \in Job /\ NewJob(j).last <= now
    BY NextRunIs, CronConstants DEF CronTypes, CountsOK
  <2>4. e \in LineType /\ e.op = "add" /\ e.id = j
    BY <2>2, <2>3, LineIs
  <2>5. log' = Append(log, e) /\ B \subseteq A \cup {j} /\ S \subseteq R \ {j}
    BY <1>1, <1>2, <2>1, <2>2 DEF ExtAdds, Unused, Stays, GoesAway
  <2> QED
    BY <1>4, <2>4, <2>5
<1>6. CASE \E e \in LineType : ExtWrites(e) /\ e.job.last <= now
  <2>1. PICK e \in LineType : ExtWrites(e)
    BY <1>6
  <2>2. /\ log' = Append(log, e)
        /\ IF e.op = "del"
           THEN acked' = acked \ {e.id} /\ removed' = removed \cup {e.id} /\ UNCHANGED raced
           ELSE /\ raced' = IF e.id \in removed THEN raced \cup {e.id} ELSE raced
                /\ UNCHANGED <<acked, removed>>
    BY <2>1 DEF ExtWrites
  <2>3. IF e.op = "del" THEN B \subseteq A \ {e.id} /\ S \subseteq R \cup {e.id}
        ELSE B \subseteq A \cup {e.id} /\ S \subseteq R \ {e.id}
    BY <1>1, <1>2, <2>2 DEF Stays, GoesAway
  <2> QED
    BY <1>4, <2>2, <2>3
<1> QED
  BY <1>3, <1>5, <1>6, ExternalIs

LEMMA KeepStep == CronTypes /\ LogOK /\ KeepInv /\ [CronNext]_cronVars => KeepInv'
<1> SUFFICES ASSUME CronTypes, LogOK, KeepInv, [CronNext]_cronVars, "corrupt" \notin env
             PROVE  /\ Keeps(DOMAIN file', log', Stays', GoesAway')
                    /\ proc' # "down" => Keeps(DOMAIN mem', log', Stays', GoesAway')
  BY MetGrows DEF KeepInv
<1>1. /\ Keeps(DOMAIN file, log, Stays, GoesAway)
      /\ proc # "down" => Keeps(DOMAIN mem, log, Stays, GoesAway)
  BY DEF KeepInv
<1>2. CASE UNCHANGED cronVars \/ Tick \/ Stop
  <2>1. /\ UNCHANGED <<mem, file, log, acked, removed, raced, torn>>
        /\ (proc' = "down" <=> proc = "down")
    BY <1>2 DEF cronVars, Tick, Stop, disk, timer, history
  <2> QED
    BY <1>1, <2>1 DEF Stays, GoesAway
<1>3. CASE Exit \/ Crash
  <2>1. proc' = "down" /\ UNCHANGED <<file, log, acked, removed, raced, torn>>
    BY <1>3 DEF Exit, Crash, Gone, disk, history
  <2> QED
    BY <1>1, <2>1 DEF Stays, GoesAway
<1>4. CASE CrashInMerge
  <2>1. PICK T : T = {log[i].id : i \in DOMAIN log}
    OBVIOUS
  <2>2. /\ proc' = "down" /\ UNCHANGED <<file, acked, removed, raced>> /\ log' = <<>>
        /\ torn' = torn \cup T
    BY <1>4, <2>1 DEF CrashInMerge, Gone
  <2>3. \A j : j \notin T => NoLine(log, j)
    <3>1. DOMAIN log = 1 .. Len(log)
      BY DEF CronTypes, StoreOK, LinesOK
    <3> QED
      BY <2>1, <3>1 DEF NoLine
  <2>4. \A j : j \notin T => (There(DOMAIN file, log, j) <=> There(DOMAIN file, <<>>, j))
    BY <2>3, NoLines DEF There, Gives, LastFor, NoLine
  <2>5. /\ \A j \in Stays' : j \in Stays /\ j \notin T
        /\ \A j \in GoesAway' : j \in GoesAway /\ j \notin T
    BY <2>2 DEF Stays, GoesAway
  <2>6. Keeps(DOMAIN file, <<>>, Stays', GoesAway')
    BY <1>1, <2>4, <2>5 DEF Keeps
  <2> QED
    BY <2>2, <2>6
<1>5. CASE Corrupt
  BY <1>5 DEF Corrupt
<1>6. CASE Boot
  <2>1. Stays' = Stays /\ GoesAway' = GoesAway
    BY <1>6 DEF Boot, history, Stays, GoesAway
  <2> QED
    BY <1>1, <1>6, <2>1, KeepBoot
<1>7. CASE OnTimer
  BY <1>7, KeepTimer
<1>8. CASE Runs
  BY <1>8, KeepFinish, KeepCancel DEF Runs
<1>9. CASE Requests
  BY <1>9, KeepRequests
<1>10. CASE ReadJobs
  <2>1. proc # "down" /\ UNCHANGED <<acked, removed, raced, torn>>
    BY <1>10, ReadIs
  <2>2. PICK l : Loading(l) /\ mem' = l.mem /\ file' = l.file /\ log' = l.log
    BY <1>10, ReadIs
  <2> QED
    BY <2>1, <2>2, KeepLoad DEF Stays, GoesAway
<1>11. CASE External
  <2>1. proc' = proc
    BY <1>11, ExternalIs DEF GatewayStays
  <2> QED
    BY <1>11, <2>1, KeepExternal
<1> QED
  BY <1>2, <1>3, <1>4, <1>5, <1>6, <1>7, <1>8, <1>9, <1>10, <1>11 DEF CronNext

LEMMA KeepInit == CronInit => KeepInv
<1> SUFFICES ASSUME CronInit PROVE KeepInv
  OBVIOUS
<1>1. PICK S : file = [j \in S |-> NewJob(j)] /\ acked = S
  BY DEF CronInit
<1>2. DOMAIN file = acked
  BY <1>1
<1>3. log = <<>> /\ removed = {} /\ proc = "down"
  BY DEF CronInit
<1>4. Keeps(DOMAIN file, log, Stays, GoesAway)
  BY <1>2, <1>3, ThereNone DEF Keeps, Stays, GoesAway
<1> QED
  BY <1>3, <1>4 DEF KeepInv

(***************************************************************************)
(* Nothing but an unreadable file: the table has every job that was added, *)
(* and the file has them too, or is saved soon.                            *)
(***************************************************************************)
Spared == acked \subseteq DOMAIN file \cup (IF active \/ bad THEN DOMAIN mem ELSE {})

SpoiltInv ==
    env = {"corrupt"} =>
        /\ log = <<>> /\ proc # "stopping" /\ (proc = "down" => ~bad)
        /\ proc = "running" => acked \subseteq DOMAIN mem
        /\ Spared

LEMMA SpoiltInit == CronInit => SpoiltInv
<1> SUFFICES ASSUME CronInit PROVE SpoiltInv
  OBVIOUS
<1>1. PICK S : file = [j \in S |-> NewJob(j)] /\ acked = S
  BY DEF CronInit
<1>2. DOMAIN file = acked
  BY <1>1
<1>3. log = <<>> /\ proc = "down" /\ bad = FALSE
  BY DEF CronInit
<1> QED
  BY <1>2, <1>3 DEF SpoiltInv, Spared

LEMMA AsksIn == Asks => env # {"corrupt"}
  BY DEF Asks

LEMMA RequestsIn == Requests => env # {"corrupt"}
<1> SUFFICES ASSUME Requests PROVE Asks
  BY AsksIn
<1>1. PICK j \in Jobs : \/ AddJob(j) \/ RemoveJob(j) \/ UpdateJob(j) \/ Reregister(j)
                        \/ \E on \in BOOLEAN : EnableJob(j, on)
  BY DEF Requests
<1>2. CASE AddJob(j)
  BY <1>2 DEF AddJob
<1>3. CASE RemoveJob(j)
  BY <1>3 DEF RemoveJob
<1>4. CASE UpdateJob(j)
  BY <1>4 DEF UpdateJob
<1>5. CASE Reregister(j)
  BY <1>5 DEF Reregister
<1>6. CASE \E on \in BOOLEAN : EnableJob(j, on)
  BY <1>6 DEF EnableJob
<1> QED
  BY <1>1, <1>2, <1>3, <1>4, <1>5, <1>6

LEMMA SpoiltBoot ==
    ASSUME CronTypes, Boot, log = <<>>, acked \subseteq DOMAIN file
    PROVE  log' = <<>> /\ acked \subseteq DOMAIN mem' /\ file' = mem'
<1>1. PICK a, b, m : a = Replayed(file, log) /\ b = AtBoot /\ m = Replayed(b, log)
  OBVIOUS
<1>2. log \in Seq(LineType)
  BY DEF CronTypes, StoreOK, LinesOK
<1>3. \A j : j \in DOMAIN a <=> j \in DOMAIN file
  BY <1>1, <1>2, ReplayedIs, ThereNone
<1>4. \A j \in acked : j \in DOMAIN b
  <2>1. CASE System = {}
    BY <1>1, <2>1 DEF AtBoot
  <2>2. CASE System # {}
    <3>1. b = AllRegistered(a)
      BY <1>1, <2>2 DEF AtBoot
    <3>2. DOMAIN b = DOMAIN a \cup System
      BY <3>1 DEF AllRegistered
    <3> QED
      BY <1>3, <3>2
  <2> QED
    BY <2>1, <2>2
<1>5. \A j : j \in DOMAIN m <=> j \in DOMAIN b
  BY <1>1, <1>2, ReplayedIs, ThereNone
<1>6. /\ mem' = Restarted(m) /\ file' = mem'
      /\ log' = <<>> \/ log' = log
  BY <1>1, BootIs
<1>7. DOMAIN mem' = DOMAIN m
  BY <1>6 DEF Restarted
<1> QED
  BY <1>4, <1>5, <1>6, <1>7

LEMMA SpoiltTimer ==
    ASSUME CronTypes, SpoiltInv, OnTimer, env = {"corrupt"}
    PROVE  log' = <<>> /\ acked' \subseteq DOMAIN mem' /\ (file' = mem' \/ active' = TRUE)
<1>1. proc = "running" /\ acked' = acked
  BY OnTimerIs
<1>2. PICK l : IsLoaded(l) /\ (TimerIdle(l) \/ \E j, s : TimerRuns(l, j, s))
  BY OnTimerIs
<1>3. log = <<>> /\ acked \subseteq DOMAIN mem /\ Spared
  BY <1>1 DEF SpoiltInv
<1>4. l.log = <<>>
  BY <1>2, <1>3 DEF IsLoaded
<1>5. acked \subseteq DOMAIN l.mem
  <2>1. CASE active \/ bad
    BY <1>2, <1>3, <2>1 DEF IsLoaded
  <2>2. CASE ~active /\ ~bad
    <3>1. PICK a : a = Replayed(file, log)
      OBVIOUS
    <3>2. log \in Seq(LineType)
      BY DEF CronTypes, StoreOK, LinesOK
    <3>3. \A j : j \in DOMAIN a <=> j \in DOMAIN file
      BY <1>3, <3>1, <3>2, ReplayedIs, ThereNone
    <3>4. l.mem = a
      BY <1>2, <2>2, <3>1 DEF IsLoaded
    <3> QED
      BY <1>3, <2>2, <3>3, <3>4 DEF Spared
  <2> QED
    BY <2>1, <2>2
<1>6. mem' = l.mem /\ log' = l.log /\ (file' = mem' \/ active' = TRUE)
  BY <1>2 DEF TimerIdle, TimerRuns, Saves
<1> QED
  BY <1>1, <1>4, <1>5, <1>6

LEMMA SpoiltFinish ==
    ASSUME CronTypes, SpoiltInv, NEW s, FinishJob(s), env = {"corrupt"}
    PROVE  log' = <<>> /\ acked' \subseteq DOMAIN mem' /\ Spared'
<1>1. PICK t, m : t = tasks[s] /\ m = Finished(t)
  OBVIOUS
<1>2. /\ proc = "running" /\ RunOK(t, now)
      /\ acked' = IF Schedule[t.cur] = "once" THEN acked \ {t.cur} ELSE acked
      /\ IsOver(s, m) \/ \E k : GoesOn(s, t, m, k)
  BY <1>1, FinishIs
<1>3. log = <<>> /\ acked \subseteq DOMAIN mem /\ Spared
  BY <1>2 DEF SpoiltInv
<1>4. acked' \subseteq acked /\ \A j \in acked' : j \in DOMAIN mem => j \in DOMAIN m
  <2>1. CASE Schedule[t.cur] # "once"
    <3>1. DOMAIN m = DOMAIN mem
      BY <1>1, <1>2, <2>1, FinishedIs DEF Ran
    <3> QED
      BY <1>2, <3>1, <2>1
  <2>2. CASE Schedule[t.cur] = "once"
    <3>1. m = Drop(mem, {t.cur}) /\ t.cur \notin acked'
      BY <1>1, <1>2, <2>2, FinishedIs
    <3>2. DOMAIN m = DOMAIN mem \ {t.cur}
      BY <3>1 DEF Drop
    <3> QED
      BY <1>2, <2>2, <3>1, <3>2
  <2> QED
    BY <2>1, <2>2
<1>5. mem' = m /\ log' = log /\ (file' = m \/ UNCHANGED <<file, bad, active>>)
  BY <1>2, StoreIs DEF IsOver, GoesOn, Saves
<1> QED
  BY <1>3, <1>4, <1>5 DEF Spared

LEMMA SpoiltStep == CronTypes /\ LogOK /\ SpoiltInv /\ [CronNext]_cronVars => SpoiltInv'
<1> SUFFICES ASSUME CronTypes, LogOK, SpoiltInv, [CronNext]_cronVars, env = {"corrupt"}
             PROVE  /\ log' = <<>> /\ proc' # "stopping" /\ (proc' = "down" => ~bad')
                    /\ proc' = "running" => acked' \subseteq DOMAIN mem'
                    /\ Spared'
  BY MetGrows DEF SpoiltInv
<1>1. /\ log = <<>> /\ proc # "stopping" /\ (proc = "down" => ~bad)
      /\ proc = "running" => acked \subseteq DOMAIN mem
      /\ Spared
  BY DEF SpoiltInv
<1>2. CASE UNCHANGED cronVars \/ Tick
  <2>1. UNCHANGED <<proc, mem, file, bad, log, active, acked>>
    BY <1>2 DEF cronVars, Tick, disk, timer, history
  <2> QED
    BY <1>1, <2>1 DEF Spared
<1>3. ~Stop /\ ~Crash /\ ~CrashInMerge /\ ~Exit
  BY <1>1 DEF Stop, Crash, CrashInMerge, Exit
<1>4. CASE Corrupt
  <2>1. proc = "running" /\ bad' = TRUE /\ UNCHANGED <<proc, mem, file, log, acked>>
    BY <1>4 DEF Corrupt, history
  <2> QED
    BY <1>1, <2>1 DEF Spared
<1>5. CASE Boot
  <2>1. proc = "down" /\ proc' = "running" /\ acked' = acked
    BY <1>5 DEF Boot, history
  <2>2. ~active /\ ~bad
    BY <1>1, <2>1 DEF CronTypes, Shape
  <2>3. acked \subseteq DOMAIN file
    BY <1>1, <2>2 DEF Spared
  <2>4. log' = <<>> /\ acked \subseteq DOMAIN mem' /\ file' = mem'
    BY <1>1, <1>5, <2>3, SpoiltBoot
  <2> QED
    BY <2>1, <2>4 DEF Spared
<1>6. CASE OnTimer
  <2>1. proc = "running" /\ proc' = proc
    BY <1>6, OnTimerIs
  <2>2. log' = <<>> /\ acked' \subseteq DOMAIN mem' /\ (file' = mem' \/ active' = TRUE)
    BY <1>6, SpoiltTimer
  <2> QED
    BY <2>1, <2>2 DEF Spared
<1>7. CASE Runs
  <2>1. PICK s : FinishJob(s) \/ CancelJob(s)
    BY <1>7 DEF Runs
  <2>2. ~CancelJob(s)
    BY <1>1, CancelIs
  <2>3. proc = "running" /\ proc' = proc
    BY <2>1, <2>2, FinishIs
  <2> QED
    BY <2>1, <2>2, <2>3, SpoiltFinish
<1>8. ~Requests /\ ~ReadJobs
  BY RequestsIn DEF ReadJobs
<1>9. CASE External
  <2>1. "external" \in env \/ ext # <<>>
    BY <1>9, ExternalIs DEF ExtWrites
  <2> QED
    BY <2>1 DEF LogOK
<1> QED
  BY <1>2, <1>3, <1>4, <1>5, <1>6, <1>7, <1>8, <1>9 DEF CronNext

LEMMA ChangesImply == CronTypes /\ KeepInv /\ SpoiltInv => ChangesKept
<1> SUFFICES ASSUME CronTypes, KeepInv, SpoiltInv PROVE ChangesKept
  OBVIOUS
<1>1. PICK a : a = Replayed(file, log)
  OBVIOUS
<1>2. Merged.jobs = a
  BY <1>1 DEF Merged, Merge, Store
<1>3. log \in Seq(LineType)
  BY DEF CronTypes, StoreOK, LinesOK
<1>4. \A j : j \in DOMAIN a <=> There(DOMAIN file, log, j)
  BY <1>1, <1>3, ReplayedIs
<1>5. ASSUME "corrupt" \notin env
      PROVE  acked \ torn \subseteq DOMAIN a /\ removed \cap DOMAIN a \subseteq raced \cup torn
  <2>1. Keeps(DOMAIN file, log, Stays, GoesAway)
    BY <1>5 DEF KeepInv
  <2> QED
    BY <1>4, <2>1 DEF Keeps, Stays, GoesAway
<1>6. ASSUME env = {"corrupt"}
      PROVE  acked \ torn \subseteq DOMAIN a \cup (IF active \/ bad THEN DOMAIN mem ELSE {})
  <2>1. log = <<>> /\ Spared
    BY <1>6 DEF SpoiltInv
  <2>2. \A j : j \in DOMAIN a <=> j \in DOMAIN file
    BY <1>4, <2>1, ThereNone
  <2> QED
    BY <2>1, <2>2 DEF Spared
<1>7. AckedSurvives
  BY <1>2, <1>5, <1>6 DEF AckedSurvives
<1>8. RemovedStaysRemoved
  BY <1>2, <1>5 DEF RemovedStaysRemoved
<1> QED
  BY <1>7, <1>8 DEF ChangesKept

\* Every change of the jobs is kept: through loads, saves, restarts and crashes
\* of the gateway and the changes of another process, file and log together
\* lose no job that was added and bring none back that was removed, but for
\* what a crash within the merge took and for changes that raced the removal
\* (_save_store, _merge_action).
THEOREM ChangesKeptHolds == CronSpec => []ChangesKept
<1> DEFINE Inv == CronTypes /\ OneTask /\ LogOK /\ KeepInv /\ SpoiltInv
<1>1. CronInit => Inv
  BY RunsInit, KeepInit, SpoiltInit DEF CronRuns
<1>2. Inv /\ [CronNext]_cronVars => Inv'
  BY TypesStep, OneStep, LogStep, KeepStep, SpoiltStep
<1>3. Inv => ChangesKept
  BY ChangesImply
<1> QED
  BY <1>1, <1>2, <1>3, PTL DEF CronSpec
=============================================================================
