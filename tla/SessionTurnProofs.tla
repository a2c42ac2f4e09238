-------------------------- MODULE SessionTurnProofs --------------------------
(***************************************************************************)
(* A session and its turns, for any inputs, limits and bounds: wherever a  *)
(* turn is cut off, the histories a later turn may start from are legal    *)
(* conversations, and what was answered is on file.                        *)
(***************************************************************************)
EXTENDS SessionTurn, FiniteSetTheorems, SequenceTheorems, TLAPS

LEMMA WorldIs ==
    ASSUME world \in Worlds
    PROVE  /\ world.calls \in Nat \ {0} /\ world.responses \in Nat
           /\ world.inputs \subseteq Inputs /\ world.archiveFails \in BOOLEAN
  BY TurnAssumption DEF TurnAssumption

LEMMA Limits ==
    /\ Commands \subseteq Inputs /\ Announces \subseteq Inputs /\ None \notin Inputs
    /\ MaxIterations \in Nat /\ MaxIterations > 0 /\ MaxCycles \in Nat /\ MaxPerDrain \in Nat
    /\ MaxEmpty \in Nat /\ MaxRecoveries \in Nat
  BY TurnAssumption DEF TurnAssumption

-----------------------------------------------------------------------------
(***************************************************************************)
(* Messages.                                                               *)
(***************************************************************************)
Ids == 1..world.responses
Answers == {Result(n, c) : n \in Ids, c \in 1..world.calls}
           \cup {Interrupted(n, c) : n \in Ids, c \in 1..world.calls}

LEMMA RequestIs ==
    ASSUME world \in Worlds, NEW m \in Requests
    PROVE  /\ m \in Messages /\ m.role = "assistant" /\ m.id \in Nat /\ m.id \in Ids
           /\ m.calls \in Nat /\ m.calls <= world.calls
           /\ Carried(m) = {} /\ ~IsUser(m) /\ m # Interruption
<1>1. PICK n \in 1..world.responses, k \in 0..world.calls : m = Request(n, k)
  BY DEF Requests
<1> QED
  BY <1>1, WorldIs DEF Messages, Requests, Request, Carried, IsUser, Interruption, Ids

LEMMA ToolIs ==
    ASSUME world \in Worlds, NEW n \in Ids, NEW c \in 1..world.calls,
           NEW m \in {Result(n, c), Interrupted(n, c)}
    PROVE  /\ m \in Messages /\ m.role = "tool" /\ m.id = n /\ m.call = c
           /\ Carried(m) = {} /\ ~IsUser(m) /\ m # Interruption
<1>1. m \in Messages
  BY DEF Messages, Ids
<1> QED
  BY <1>1 DEF Result, Interrupted, Carried, IsUser, Interruption

LEMMA UserIs ==
    ASSUME NEW of \in SUBSET Inputs
    PROVE  /\ User(of) \in Messages /\ User(of).role = "user" /\ Carried(User(of)) = of
           /\ IsUser(User(of)) /\ User(of) # Interruption
  BY DEF User, Messages, Carried, IsUser, Interruption

LEMMA RecordsAre ==
    ASSUME NEW i \in Inputs
    PROVE  /\ Command(i) \in Messages /\ Command(i).role = "command" /\ Carried(Command(i)) = {i}
           /\ Announced(i) \in Messages /\ Announced(i).role = "announce"
           /\ Carried(Announced(i)) = {i}
           /\ Command(i) # Interruption /\ Announced(i) # Interruption
<1>1. Command(i) \in Messages /\ Announced(i) \in Messages
  BY DEF Messages
<1> QED
  BY <1>1 DEF Command, Announced, Carried, Interruption

LEMMA NoticesAre ==
    /\ {Notice, CommandReply, Interruption} \subseteq Messages
    /\ Notice.role = "notice" /\ CommandReply.role = "reply" /\ Interruption.role = "interruption"
    /\ Carried(Notice) = {} /\ Carried(CommandReply) = {} /\ Carried(Interruption) = {}
    /\ ~IsUser(CommandReply) /\ ~IsUser(Interruption) /\ ~IsUser(Notice)
    /\ Notice # Interruption /\ CommandReply # Interruption
  BY DEF Messages, Notice, CommandReply, Interruption, Carried, IsUser

LEMMA MessageIs ==
    ASSUME world \in Worlds, NEW m \in Messages
    PROVE  /\ Carried(m) \in SUBSET Inputs
           /\ m.role = "assistant" => m \in Requests
           /\ m.role = "tool" => m.id \in Nat /\ m.call \in Nat
           /\ m.role \in {"assistant", "tool"} => Carried(m) = {} /\ m.id \in Nat
           /\ IsUser(m) => m.role \in {"user", "command"}
           /\ IsPlain(m) => m.role # "tool"
<1>1. CASE m \in Requests
  BY <1>1, RequestIs DEF IsPlain, IsUser
<1>2. CASE m \in Answers
  <2>1. PICK n \in Ids, c \in 1..world.calls : m \in {Result(n, c), Interrupted(n, c)}
    BY <1>2 DEF Answers
  <2> QED
    BY <2>1, ToolIs, WorldIs DEF IsPlain, IsUser, Ids
<1>3. CASE \E of \in SUBSET Inputs : m = User(of)
  BY <1>3, UserIs DEF IsPlain, IsUser
<1>4. CASE \E i \in Inputs : m \in {Command(i), Announced(i)}
  BY <1>4, RecordsAre DEF IsPlain, IsUser
<1>5. CASE m \in {Notice, CommandReply, Interruption}
  BY <1>5, NoticesAre DEF IsPlain, IsUser
<1> QED
  BY <1>1, <1>2, <1>3, <1>4, <1>5 DEF Messages, Answers, Ids

-----------------------------------------------------------------------------
(***************************************************************************)
(* What a conversation has to be.                                          *)
(***************************************************************************)
\* Every tool call is directly followed by its results.
Answered(h) ==
    \A i \in DOMAIN h : h[i].role = "assistant" =>
        \A c \in 1..h[i].calls :
            /\ i + c <= Len(h)
            /\ h[i + c] \in {Result(h[i].id, c), Interrupted(h[i].id, c)}

\* Nothing is said twice, within h or in both of g and h.
Once(h) == \A i, j \in DOMAIN h : Repeats(h[i], h[j]) => i = j
Apart(g, h) == \A i \in DOMAIN g, j \in DOMAIN h : ~Repeats(g[i], h[j])

\* No interruption is noted after an input that is among `done`.
NeverFalse(h, done) ==
    \A i \in 2..Len(h) : h[i] = Interruption => Carried(h[i - 1]) \cap done = {}

Has(h, i) == \E j \in DOMAIN h : i \in Carried(h[j])

\* Nothing in h comes from a response or an input that is yet to come.
Old(h, n, com) ==
    \A j \in DOMAIN h :
        /\ h[j].role \in {"assistant", "tool"} => h[j].id <= n
        /\ Carried(h[j]) \cap com = {}

\* No interruption, and none of the inputs `done`.
Plain(h, done) == \A j \in DOMAIN h : h[j] # Interruption /\ Carried(h[j]) \cap done = {}

LEMMA JoinIs ==
    ASSUME NEW S, NEW g \in Seq(S), NEW h \in Seq(S)
    PROVE  /\ g \o h \in Seq(S) /\ Len(g \o h) = Len(g) + Len(h)
           /\ Len(g) \in Nat /\ Len(h) \in Nat
           /\ DOMAIN g = 1..Len(g) /\ DOMAIN h = 1..Len(h) /\ DOMAIN (g \o h) = 1..(Len(g) + Len(h))
           /\ \A i \in DOMAIN g : (g \o h)[i] = g[i]
           /\ \A i \in (Len(g) + 1)..(Len(g) + Len(h)) :
                 i - Len(g) \in DOMAIN h /\ (g \o h)[i] = h[i - Len(g)]
           /\ \A i \in DOMAIN (g \o h) : i \in DOMAIN g \/ i \in (Len(g) + 1)..(Len(g) + Len(h))
  OBVIOUS

LEMMA AnsweredJoin ==
    ASSUME world \in Worlds, NEW g \in Seq(Messages), NEW h \in Seq(Messages),
           Answered(g), Answered(h)
    PROVE  Answered(g \o h)
<1> DEFINE f == g \o h
           r == Len(g)
<1>1. /\ f \in Seq(Messages) /\ Len(f) = r + Len(h) /\ r \in Nat /\ Len(h) \in Nat
      /\ DOMAIN g = 1..r /\ DOMAIN h = 1..Len(h) /\ DOMAIN f = 1..(r + Len(h))
      /\ \A i \in DOMAIN g : f[i] = g[i]
      /\ \A i \in (r + 1)..(r + Len(h)) : i - r \in DOMAIN h /\ f[i] = h[i - r]
      /\ \A i \in DOMAIN f : i \in DOMAIN g \/ i \in (r + 1)..(r + Len(h))
  BY JoinIs
<1> HIDE DEF f, r
<1>2. SUFFICES ASSUME NEW i \in DOMAIN f, f[i].role = "assistant", NEW c \in 1..f[i].calls
               PROVE  /\ i + c <= Len(f)
                      /\ f[i + c] \in {Result(f[i].id, c), Interrupted(f[i].id, c)}
  BY DEF Answered, f
<1>3. f[i] \in Messages
  BY <1>1, ElementOfSeq
<1>4. c \in Nat /\ c >= 1 /\ f[i].calls \in Nat
  BY <1>3, <1>2, MessageIs, RequestIs
<1>5. CASE i \in DOMAIN g
  <2>1. f[i] = g[i]
    BY <1>1, <1>5
  <2>2. i + c <= Len(g) /\ g[i + c] \in {Result(g[i].id, c), Interrupted(g[i].id, c)}
    BY <1>2, <1>5, <2>1 DEF Answered
  <2>3. i + c \in DOMAIN g
    BY <1>1, <1>4, <1>5, <2>2 DEF r
  <2> QED
    BY <1>1, <1>4, <2>1, <2>2, <2>3 DEF r
<1>6. CASE i \in (r + 1)..(r + Len(h))
  <2> DEFINE j == i - r
  <2>1. j \in DOMAIN h /\ f[i] = h[j] /\ j \in Nat
    BY <1>1, <1>6
  <2>2. j + c <= Len(h) /\ h[j + c] \in {Result(h[j].id, c), Interrupted(h[j].id, c)}
    BY <1>2, <2>1 DEF Answered
  <2>3. i + c \in (r + 1)..(r + Len(h)) /\ (i + c) - r = j + c
    BY <1>1, <1>4, <1>6, <2>2
  <2>4. f[i + c] = h[j + c]
    BY <1>1, <2>3
  <2> QED
    BY <1>1, <2>1, <2>2, <2>3, <2>4
<1> QED
  BY <1>1, <1>5, <1>6

LEMMA AnsweredPart ==
    ASSUME world \in Worlds, NEW h \in Seq(Messages), Answered(h), NEW a \in {1, 2}
    PROVE  Answered(SubSeq(h, a, Len(h)))
<1> DEFINE f == SubSeq(h, a, Len(h))
<1>1. PICK r \in {0, 1} : r = a - 1
  OBVIOUS
<1>2. PICK n \in Nat : n = Len(h)
  BY LenProperties
<1>3. /\ f \in Seq(Messages) /\ Len(f) = (IF n < r THEN 0 ELSE n - r) /\ DOMAIN f = 1..Len(f)
      /\ \A i \in DOMAIN f : i + r \in DOMAIN h /\ f[i] = h[i + r]
  <2>1. DOMAIN h = 1..n
    BY <1>2
  <2> QED
    BY <1>1, <1>2, <2>1
<1> HIDE DEF f
<1>4. SUFFICES ASSUME NEW i \in DOMAIN f, f[i].role = "assistant", NEW c \in 1..f[i].calls
               PROVE  /\ i + c <= Len(f)
                      /\ f[i + c] \in {Result(f[i].id, c), Interrupted(f[i].id, c)}
  BY DEF Answered, f
<1>5. f[i] \in Messages
  BY <1>3, ElementOfSeq
<1>6. c \in Nat /\ c >= 1 /\ f[i].calls \in Nat /\ i \in Nat
  BY <1>3, <1>5, <1>4, MessageIs, RequestIs
<1>7. f[i] = h[i + r] /\ i + r \in DOMAIN h
  BY <1>3
<1>8. (i + r) + c <= n /\ h[(i + r) + c] \in {Result(f[i].id, c), Interrupted(f[i].id, c)}
  BY <1>2, <1>4, <1>7 DEF Answered
<1>9. i + c \in DOMAIN f /\ i + c <= Len(f) /\ (i + c) + r = (i + r) + c
  BY <1>2, <1>3, <1>6, <1>8
<1> QED
  BY <1>3, <1>8, <1>9

LEMMA AnsweredLone ==
    ASSUME world \in Worlds, NEW m \in Messages, m.role = "assistant" => m.calls = 0
    PROVE  Answered(<<m>>)
<1>1. DOMAIN <<m>> = {1} /\ <<m>>[1] = m
  OBVIOUS
<1>2. m.role = "assistant" => 1..m.calls = {}
  OBVIOUS
<1> QED
  BY <1>1, <1>2 DEF Answered

LEMMA AnsweredReplaced ==
    ASSUME world \in Worlds, NEW h \in Seq(Messages), h # <<>>, Answered(h),
           h[Len(h)].role # "tool", NEW m \in Messages, m.role # "assistant"
    PROVE  Answered([h EXCEPT ![Len(h)] = m])
<1> DEFINE f == [h EXCEPT ![Len(h)] = m]
<1>1. PICK n \in Nat : n = Len(h)
  BY LenProperties
<1>2. /\ f \in Seq(Messages) /\ Len(f) = n /\ DOMAIN f = 1..n /\ DOMAIN h = 1..n
      /\ f[n] = m /\ \A i \in 1..n : i # n => f[i] = h[i]
      /\ n > 0
  <2>1. DOMAIN h = 1..n /\ n > 0
    BY <1>1, LenProperties, EmptySeq
  <2> QED
    BY <1>1, <2>1, ExceptSeq
<1> HIDE DEF f
<1>3. SUFFICES ASSUME NEW i \in 1..n, f[i].role = "assistant", NEW c \in 1..f[i].calls
               PROVE  /\ i + c <= n
                      /\ f[i + c] \in {Result(f[i].id, c), Interrupted(f[i].id, c)}
  BY <1>2 DEF Answered, f
<1>4. i # n /\ f[i] = h[i] /\ h[i] \in Messages
  BY <1>2, <1>3, ElementOfSeq
<1>5. c \in Nat /\ c >= 1 /\ f[i].calls \in Nat
  BY <1>4, <1>3, MessageIs, RequestIs
<1>6. i + c <= n /\ h[i + c] \in {Result(f[i].id, c), Interrupted(f[i].id, c)}
  BY <1>1, <1>2, <1>3, <1>4 DEF Answered
<1>7. i + c # n
  BY <1>1, <1>6 DEF Result, Interrupted
<1> QED
  BY <1>2, <1>5, <1>6, <1>7

\* A request with its results, as they are or as an interruption makes them up.
Settlement(m, done) ==
    <<m>> \o [i \in 1..m.calls |-> IF done THEN Result(m.id, i) ELSE Interrupted(m.id, i)]

IsSettlement(s, m) ==
    /\ s \in Seq(Messages) /\ Len(s) = m.calls + 1 /\ s[1] = m
    /\ \A i \in DOMAIN s : i = 1 \/ \E c \in 1..m.calls : i = c + 1
    /\ \A c \in 1..m.calls :
          /\ c + 1 \in DOMAIN s
          /\ s[c + 1] \in {Result(m.id, c), Interrupted(m.id, c)}
          /\ s[c + 1].role = "tool" /\ s[c + 1].id = m.id /\ s[c + 1].call = c
          /\ Carried(s[c + 1]) = {} /\ s[c + 1] # Interruption

LEMMA SettlementIs ==
    ASSUME world \in Worlds, NEW m \in Requests, NEW done \in BOOLEAN
    PROVE  IsSettlement(Settlement(m, done), m)
<1> DEFINE r == [i \in 1..m.calls |-> IF done THEN Result(m.id, i) ELSE Interrupted(m.id, i)]
           s == <<m>> \o r
<1>1. PICK k \in Nat : k = m.calls
  BY RequestIs
<1>2. m \in Messages /\ m.id \in Ids /\ k <= world.calls /\ world.calls \in Nat
  BY <1>1, RequestIs, WorldIs
<1>3. \A c \in 1..k : /\ r[c] \in {Result(m.id, c), Interrupted(m.id, c)}
                      /\ r[c] \in Messages
                      /\ r[c].role = "tool" /\ r[c].id = m.id /\ r[c].call = c
                      /\ Carried(r[c]) = {} /\ r[c] # Interruption
  BY <1>1, <1>2, ToolIs
<1>4. r \in Seq(Messages) /\ Len(r) = k /\ DOMAIN r = 1..k
  <2>1. \A c \in 1..k : r[c] \in Messages
    BY <1>3
  <2> QED
    BY <1>1, <2>1, IsASeq
<1> HIDE DEF r
<1>5. <<m>> \in Seq(Messages) /\ Len(<<m>>) = 1 /\ <<m>>[1] = m /\ DOMAIN <<m>> = 1..1
  BY <1>2
<1>6. /\ s \in Seq(Messages) /\ Len(s) = 1 + k /\ DOMAIN s = 1..(1 + k) /\ s[1] = m
      /\ \A i \in 2..(1 + k) : s[i] = r[i - 1]
  <2> DEFINE one == <<m>>
  <2>1. one \in Seq(Messages) /\ Len(one) = 1 /\ one[1] = m /\ DOMAIN one = 1..1
    BY <1>5
  <2> HIDE DEF one
  <2>2. one \o r \in Seq(Messages) /\ Len(one \o r) = 1 + k /\ DOMAIN (one \o r) = 1..(1 + k)
    BY <1>4, <2>1, JoinIs
  <2>3. (one \o r)[1] = one[1]
    BY <1>4, <2>1, JoinIs
  <2>4. \A i \in 2..(1 + k) : (one \o r)[i] = r[i - 1]
    <3> TAKE i \in 2..(1 + k)
    <3>1. i \in (Len(one) + 1)..(Len(one) + Len(r)) /\ i - Len(one) = i - 1
      BY <1>4, <2>1
    <3> QED
      BY <1>4, <2>1, <3>1, JoinIs
  <2> QED
    BY <2>1, <2>2, <2>3, <2>4 DEF one
<1> HIDE DEF s
<1>7. \A c \in 1..k : c + 1 \in DOMAIN s /\ s[c + 1] = r[c]
  <2> TAKE c \in 1..k
  <2>1. c + 1 \in 2..(1 + k) /\ (c + 1) - 1 = c
    BY <1>6
  <2> QED
    BY <1>6, <2>1
<1>8. \A i \in DOMAIN s : i = 1 \/ \E c \in 1..k : i = c + 1
  <2> TAKE i \in DOMAIN s
  <2>1. i # 1 => i - 1 \in 1..k /\ i = (i - 1) + 1
    BY <1>6
  <2> QED
    BY <2>1
<1>9. \A c \in 1..m.calls :
          /\ c + 1 \in DOMAIN s
          /\ s[c + 1] \in {Result(m.id, c), Interrupted(m.id, c)}
          /\ s[c + 1].role = "tool" /\ s[c + 1].id = m.id /\ s[c + 1].call = c
          /\ Carried(s[c + 1]) = {} /\ s[c + 1] # Interruption
  BY <1>1, <1>3, <1>7
<1>10. IsSettlement(s, m)
  <2>1. \A i \in DOMAIN s : i = 1 \/ \E c \in 1..m.calls : i = c + 1
    BY <1>1, <1>8
  <2>2. s \in Seq(Messages) /\ Len(s) = m.calls + 1 /\ s[1] = m
    BY <1>1, <1>6
  <2> QED
    BY <1>9, <2>1, <2>2 DEF IsSettlement
<1> QED
  BY <1>10 DEF Settlement, s, r

LEMMA SettlementAnswered ==
    ASSUME world \in Worlds, NEW m \in Requests, NEW done \in BOOLEAN
    PROVE  Answered(Settlement(m, done))
<1> DEFINE s == Settlement(m, done)
<1>1. /\ s \in Seq(Messages) /\ Len(s) = m.calls + 1 /\ s[1] = m
      /\ \A c \in 1..m.calls :
            /\ s[c + 1] \in {Result(m.id, c), Interrupted(m.id, c)}
            /\ s[c + 1].role = "tool"
      /\ \A i \in DOMAIN s : i = 1 \/ \E c \in 1..m.calls : i = c + 1
  BY SettlementIs DEF IsSettlement
<1> HIDE DEF s
<1>2. SUFFICES ASSUME NEW i \in DOMAIN s, s[i].role = "assistant", NEW c \in 1..s[i].calls
               PROVE  /\ i + c <= Len(s)
                      /\ s[i + c] \in {Result(s[i].id, c), Interrupted(s[i].id, c)}
  BY DEF Answered, s
<1>3. i = 1
  <2>1. CASE \E d \in 1..m.calls : i = d + 1
    BY <1>1, <1>2, <2>1
  <2> QED
    BY <1>1, <2>1
<1>4. m.calls \in Nat /\ c \in 1..m.calls /\ c \in Nat
  BY <1>1, <1>2, <1>3, RequestIs
<1>5. i + c = c + 1 /\ c + 1 <= Len(s)
  BY <1>1, <1>3, <1>4
<1> QED
  BY <1>1, <1>3, <1>4, <1>5

LEMMA SettlementOnce ==
    ASSUME world \in Worlds, NEW m \in Requests, NEW done \in BOOLEAN
    PROVE  Once(Settlement(m, done))
<1> DEFINE s == Settlement(m, done)
<1>1. IsSettlement(s, m)
  BY SettlementIs
<1>2. m.role = "assistant" /\ Carried(m) = {}
  BY RequestIs
<1> HIDE DEF s
<1>3. /\ s[1] = m /\ \A i \in DOMAIN s : i = 1 \/ \E c \in 1..m.calls : i = c + 1
      /\ \A c \in 1..m.calls :
            s[c + 1].role = "tool" /\ s[c + 1].call = c /\ Carried(s[c + 1]) = {}
  BY <1>1 DEF IsSettlement
<1>4. ASSUME NEW i \in DOMAIN s, NEW j \in DOMAIN s, Repeats(s[i], s[j])
      PROVE  i = j
  <2>1. CASE i = 1 /\ j = 1
    BY <2>1
  <2>2. CASE i = 1 /\ \E c \in 1..m.calls : j = c + 1
    BY <1>2, <1>3, <1>4, <2>2 DEF Repeats
  <2>3. CASE j = 1 /\ \E c \in 1..m.calls : i = c + 1
    BY <1>2, <1>3, <1>4, <2>3 DEF Repeats
  <2>4. CASE (\E c \in 1..m.calls : i = c + 1) /\ (\E c \in 1..m.calls : j = c + 1)
    BY <1>3, <1>4, <2>4 DEF Repeats
  <2> QED
    BY <1>3, <2>1, <2>2, <2>3, <2>4
<1> QED
  BY <1>4 DEF Once, s

LEMMA PartIs ==
    ASSUME NEW S, NEW h \in Seq(S), NEW a \in {1, 2}
    PROVE  LET f == SubSeq(h, a, Len(h))
           IN  /\ f \in Seq(S)
               /\ \A i \in DOMAIN f : i + (a - 1) \in DOMAIN h /\ f[i] = h[i + (a - 1)]
<1>1. PICK n \in Nat : n = Len(h)
  BY LenProperties
<1>2. PICK r \in {0, 1} : r = a - 1
  OBVIOUS
<1>3. DOMAIN h = 1..n
  BY <1>1
<1>4. SubSeq(h, a, n) \in Seq(S)
  BY <1>1, <1>3
<1>5. \A i \in DOMAIN SubSeq(h, a, n) : i + r \in DOMAIN h /\ SubSeq(h, a, n)[i] = h[i + r]
  BY <1>1, <1>2, <1>3
<1> QED
  BY <1>1, <1>2, <1>4, <1>5

LEMMA OnceJoin ==
    ASSUME NEW g \in Seq(Messages), NEW h \in Seq(Messages), Once(g), Once(h), Apart(g, h)
    PROVE  Once(g \o h)
<1> DEFINE f == g \o h
<1>1. PICK r \in Nat : r = Len(g)
  BY LenProperties
<1>2. /\ \A i \in DOMAIN g : f[i] = g[i]
      /\ \A i \in (r + 1)..(r + Len(h)) : i - r \in DOMAIN h /\ f[i] = h[i - r]
      /\ \A i \in DOMAIN f : i \in DOMAIN g \/ i \in (r + 1)..(r + Len(h))
  BY <1>1, JoinIs
<1> HIDE DEF f
<1>3. \A m, n : Repeats(m, n) => Repeats(n, m)
  BY DEF Repeats
<1>4. ASSUME NEW i \in DOMAIN f, NEW j \in DOMAIN f, Repeats(f[i], f[j])
      PROVE  i = j
  <2>1. CASE i \in DOMAIN g /\ j \in DOMAIN g
    BY <1>2, <1>4, <2>1 DEF Once
  <2>2. CASE i \in DOMAIN g /\ j \in (r + 1)..(r + Len(h))
    BY <1>2, <1>4, <2>2 DEF Apart
  <2>3. CASE j \in DOMAIN g /\ i \in (r + 1)..(r + Len(h))
    BY <1>2, <1>3, <1>4, <2>3 DEF Apart
  <2>4. CASE i \in (r + 1)..(r + Len(h)) /\ j \in (r + 1)..(r + Len(h))
    <3>1. i - r = j - r
      BY <1>2, <1>4, <2>4 DEF Once
    <3> QED
      BY <3>1, <2>4
  <2> QED
    BY <1>2, <2>1, <2>2, <2>3, <2>4
<1> QED
  BY <1>4 DEF Once, f

LEMMA OncePart ==
    ASSUME NEW h \in Seq(Messages), Once(h), NEW a \in {1, 2}
    PROVE  Once(SubSeq(h, a, Len(h)))
<1> DEFINE f == SubSeq(h, a, Len(h))
<1>1. f \in Seq(Messages) /\ \A i \in DOMAIN f : i + (a - 1) \in DOMAIN h /\ f[i] = h[i + (a - 1)]
  BY PartIs
<1>2. DOMAIN f \subseteq Nat
  BY <1>1
<1> HIDE DEF f
<1>3. ASSUME NEW i \in DOMAIN f, NEW j \in DOMAIN f, Repeats(f[i], f[j])
      PROVE  i = j
  <2>1. i + (a - 1) = j + (a - 1)
    BY <1>1, <1>3 DEF Once
  <2> QED
    BY <1>2, <2>1
<1> QED
  BY <1>3 DEF Once, f

\* What holds of each message by itself, or of each with those of a third sequence.
LEMMA JoinFits ==
    ASSUME NEW g \in Seq(Messages), NEW h \in Seq(Messages), NEW f, NEW n, NEW com, NEW done
    PROVE  /\ Old(g, n, com) /\ Old(h, n, com) => Old(g \o h, n, com)
           /\ Plain(g, done) /\ Plain(h, done) => Plain(g \o h, done)
           /\ Apart(f, g) /\ Apart(f, h) => Apart(f, g \o h)
           /\ Apart(g, f) /\ Apart(h, f) => Apart(g \o h, f)
           /\ \A i : Has(g, i) => Has(g \o h, i)
<1>1. \A i \in DOMAIN (g \o h) :
          \/ i \in DOMAIN g /\ (g \o h)[i] = g[i]
          \/ i - Len(g) \in DOMAIN h /\ (g \o h)[i] = h[i - Len(g)]
  BY JoinIs
<1>2. \A i \in DOMAIN g : i \in DOMAIN (g \o h) /\ (g \o h)[i] = g[i]
  <2>1. /\ DOMAIN g = 1..Len(g) /\ DOMAIN (g \o h) = 1..(Len(g) + Len(h))
        /\ \A i \in DOMAIN g : (g \o h)[i] = g[i]
        /\ Len(g) \in Nat /\ Len(h) \in Nat
    BY JoinIs
  <2> QED
    BY <2>1
<1> QED
  BY <1>1, <1>2 DEF Old, Plain, Apart, Has

LEMMA PartFits ==
    ASSUME NEW h \in Seq(Messages), NEW a \in {1, 2}, NEW f, NEW n, NEW com, NEW done
    PROVE  /\ Old(h, n, com) => Old(SubSeq(h, a, Len(h)), n, com)
           /\ Plain(h, done) => Plain(SubSeq(h, a, Len(h)), done)
           /\ Apart(f, h) => Apart(f, SubSeq(h, a, Len(h)))
<1> DEFINE p == SubSeq(h, a, Len(h))
<1>1. \A i \in DOMAIN p : i + (a - 1) \in DOMAIN h /\ p[i] = h[i + (a - 1)]
  BY PartIs
<1> HIDE DEF p
<1>2. /\ Old(h, n, com) => Old(p, n, com)
      /\ Plain(h, done) => Plain(p, done)
      /\ Apart(f, h) => Apart(f, p)
  BY <1>1 DEF Old, Plain, Apart
<1> QED
  BY <1>2 DEF p

LEMMA NeverFalseJoin ==
    ASSUME NEW g \in Seq(Messages), NEW h \in Seq(Messages), NEW done,
           NeverFalse(g, done), \A j \in DOMAIN h : h[j] # Interruption
    PROVE  NeverFalse(g \o h, done)
<1> DEFINE f == g \o h
<1>1. PICK r \in Nat : r = Len(g)
  BY LenProperties
<1>2. /\ f \in Seq(Messages) /\ Len(f) = r + Len(h) /\ Len(h) \in Nat
      /\ DOMAIN g = 1..r /\ DOMAIN f = 1..(r + Len(h))
      /\ \A i \in DOMAIN g : f[i] = g[i]
      /\ \A i \in (r + 1)..(r + Len(h)) : i - r \in DOMAIN h /\ f[i] = h[i - r]
  BY <1>1, JoinIs
<1> HIDE DEF f
<1>3. ASSUME NEW i \in 2..Len(f), f[i] = Interruption
      PROVE  Carried(f[i - 1]) \cap done = {}
  <2>1. i \in 2..r
    BY <1>2, <1>3
  <2>2. i \in 1..r /\ i - 1 \in 1..r
    BY <2>1
  <2>3. f[i] = g[i] /\ f[i - 1] = g[i - 1]
    BY <1>2, <2>2
  <2> QED
    BY <1>1, <1>3, <2>1, <2>3 DEF NeverFalse
<1> QED
  BY <1>3 DEF NeverFalse, f

LEMMA NeverFalseLess ==
    ASSUME NEW h, NEW done, NEW less, less \subseteq done, NeverFalse(h, done)
    PROVE  NeverFalse(h, less)
  BY DEF NeverFalse

LEMMA OldLess ==
    ASSUME NEW h \in Seq(Messages), world \in Worlds, NEW n \in Nat, NEW n2 \in Nat, n <= n2,
           NEW com, NEW less, less \subseteq com, Old(h, n, com)
    PROVE  Old(h, n2, less)
<1>1. \A j \in DOMAIN h : h[j].role \in {"assistant", "tool"} => h[j].id \in Nat
  BY MessageIs, ElementOfSeq
<1> QED
  BY <1>1 DEF Old

-----------------------------------------------------------------------------
(***************************************************************************)
(* Restoring.                                                              *)
(***************************************************************************)
Kept == [message : Requests, done : BOOLEAN]
Files == [messages : Seq(Messages), ckpt : Checkpoints, pending : BOOLEAN]

LEMMA MaterializedIs ==
    ASSUME world \in Worlds, NEW c \in Kept
    PROVE  /\ c.message \in Requests /\ c.done \in BOOLEAN
           /\ Materialized(c) = Settlement(c.message, c.done)
           /\ Materialized(c) \in Seq(Messages)
<1>1. c.message \in Requests /\ c.done \in BOOLEAN
  BY DEF Kept
<1>2. Materialized(c) = Settlement(c.message, c.done)
  BY DEF Materialized, Settlement
<1> QED
  BY <1>1, <1>2, SettlementIs DEF IsSettlement

\* A tail of an answered history that begins with a request has all of its results,
\* so the restored messages overlap it as a whole or not at all.
LEMMA WholeOverlap ==
    ASSUME world \in Worlds, NEW ms \in Seq(Messages), Answered(ms), NEW rs \in Seq(Messages),
           NEW m \in Requests, IsSettlement(rs, m), NEW k \in 1..Len(rs), k <= Len(ms),
           SubSeq(ms, Len(ms) - k + 1, Len(ms)) = SubSeq(rs, 1, k)
    PROVE  k = Len(rs)
<1>1. PICK n \in Nat : n = Len(ms)
  BY LenProperties
<1>2. PICK l \in Nat : l = m.calls
  BY RequestIs
<1>3. Len(rs) = l + 1 /\ rs[1] = m /\ DOMAIN ms = 1..n /\ DOMAIN rs = 1..(l + 1)
  BY <1>1, <1>2 DEF IsSettlement
<1>4. k \in 1..(l + 1) /\ k <= n
  BY <1>1, <1>3
<1>5. PICK i \in 1..n : i + k = n + 1
  <2>1. n - k + 1 \in 1..n /\ (n - k + 1) + k = n + 1
    BY <1>4
  <2> QED
    BY <2>1
<1>6. ms[i] = m
  <2>1. n - k + 1 = i
    BY <1>4, <1>5
  <2>2. SubSeq(ms, i, n) = SubSeq(rs, 1, k)
    BY <1>1, <2>1
  <2>3. SubSeq(ms, i, n)[1] = ms[i]
    BY <1>1, <1>3, <1>5
  <2>4. SubSeq(rs, 1, k)[1] = rs[1]
    BY <1>3, <1>4
  <2> QED
    BY <1>3, <2>2, <2>3, <2>4
<1>7. ~(k \in 1..l)
  <2> SUFFICES ASSUME k \in 1..l
               PROVE  FALSE
    OBVIOUS
  <2>1. m.role = "assistant"
    BY RequestIs
  <2>2. i + k <= n
    BY <1>1, <1>2, <1>3, <1>5, <1>6, <2>1 DEF Answered
  <2> QED
    BY <1>5, <2>2
<1> QED
  BY <1>2, <1>3, <1>4, <1>7

LEMMA RestoreIs ==
    ASSUME world \in Worlds, NEW ms \in Seq(Messages), Answered(ms), NEW c \in Kept
    PROVE  RestoreCheckpoint(ms, c) \in {ms, ms \o Materialized(c)}
<1>1. PICK rs \in Seq(Messages) : rs = Materialized(c)
  BY MaterializedIs
<1>2. PICK m \in Requests : m = c.message
  BY MaterializedIs
<1>3. IsSettlement(rs, m)
  BY <1>1, <1>2, MaterializedIs, SettlementIs
<1>4. PICK n \in Nat : n = Len(ms)
  BY LenProperties
<1>5. PICK l \in Nat : l = Len(rs)
  BY LenProperties
<1> DEFINE P(k) == k <= Len(ms) /\ SubSeq(ms, Len(ms) - k + 1, Len(ms)) = SubSeq(rs, 1, k)
           Q(k) == P(k) /\ \A j \in (k + 1)..Len(rs) :
                      j <= Len(ms) => SubSeq(ms, Len(ms) - j + 1, Len(ms)) # SubSeq(rs, 1, j)
<1>6. \A k \in 1..l : P(k) => k = l
  <2> TAKE k \in 1..l
  <2>1. k \in 1..Len(rs)
    BY <1>5
  <2> QED
    BY <1>3, <1>5, <2>1, WholeOverlap
<1>7. P(0)
  <2>1. SubSeq(ms, n + 1, n) = <<>> /\ SubSeq(rs, 1, 0) = <<>>
    BY <1>4, SubSeqEmpty
  <2>2. n - 0 + 1 = n + 1 /\ 0 <= n
    OBVIOUS
  <2> QED
    BY <1>4, <2>1, <2>2
<1>8. \A k \in 0..l : k = 0 \/ k \in 1..l
  OBVIOUS
<1>9. \A k \in 0..l : Q(k) <=> P(k) /\ \A j \in (k + 1)..l : ~P(j)
  BY <1>5
<1>10. (\E k \in 0..l : Q(k)) => Overlap(ms, rs) \in 0..l /\ Q(Overlap(ms, rs))
  BY <1>5 DEF Overlap
<1> HIDE DEF P, Q
<1>11. \E k \in 0..l : Q(k)
  <2>1. CASE P(l)
    <3>1. (l + 1)..l = {}
      OBVIOUS
    <3> QED
      BY <1>9, <2>1, <3>1
  <2>2. CASE ~P(l)
    <3>1. \A j \in (0 + 1)..l : ~P(j)
      BY <1>6, <2>2
    <3> QED
      BY <1>7, <1>9, <3>1
  <2> QED
    BY <2>1, <2>2
<1>12. Overlap(ms, rs) \in {0, l}
  BY <1>6, <1>8, <1>9, <1>10, <1>11
<1>13. SubSeq(rs, 0 + 1, l) = rs /\ SubSeq(rs, l + 1, l) = <<>> /\ ms \o <<>> = ms
  <2>1. DOMAIN rs = 1..l
    BY <1>5
  <2> QED
    BY <1>5, <2>1, SubSeqFull, SubSeqEmpty, ConcatEmptySeq
<1>14. RestoreCheckpoint(ms, c) = ms \o SubSeq(rs, Overlap(ms, rs) + 1, l)
  BY <1>1, <1>5 DEF RestoreCheckpoint
<1> QED
  BY <1>1, <1>12, <1>13, <1>14

\* What holds of the messages ms, the checkpoint c and the flag p of a session, the live
\* one and the one on file: n is the number of responses so far, `com` the inputs to
\* come, `done` those whose turn is over and `busy` also the one whose turn is under way.
Sound(ms, c, p, n, com, done, busy, torn) ==
    /\ Answered(ms)
    /\ NeverFalse(ms, busy)
    /\ Old(ms, n, com)
    /\ c # None => c.message.id <= n
    /\ p /\ ms # <<>> /\ IsUser(Last(ms)) => Carried(Last(ms)) \cap done = {}
    /\ \A i \in done : Has(ms, i)
    /\ ~torn => Once(ms)
    /\ ~torn => (c # None => Apart(ms, Materialized(c)))

\* What holds of a history that a turn starts from.
Legal(h, n, com, done, torn) ==
    /\ h \in Seq(Messages) /\ Answered(h) /\ NeverFalse(h, done) /\ Old(h, n, com)
    /\ \A i \in done : Has(h, i)
    /\ ~torn => Once(h)

\* A response, alone or with its results.
Fresh(x, n) ==
    \A i \in DOMAIN x : x[i].role \in {"assistant", "tool"} /\ x[i].id = n /\ Carried(x[i]) = {}

LEMMA SettlementFits ==
    ASSUME world \in Worlds, NEW m \in Requests, NEW d \in BOOLEAN, NEW n \in Nat, m.id <= n,
           NEW com, NEW done
    PROVE  /\ Old(Settlement(m, d), n, com) /\ Plain(Settlement(m, d), done)
           /\ Fresh(Settlement(m, d), m.id)
<1> DEFINE s == Settlement(m, d)
<1>1. IsSettlement(s, m)
  BY SettlementIs
<1>2. m.role = "assistant" /\ Carried(m) = {} /\ m # Interruption
  BY RequestIs
<1> HIDE DEF s
<1>3. /\ s[1] = m /\ \A i \in DOMAIN s : i = 1 \/ \E c \in 1..m.calls : i = c + 1
      /\ \A c \in 1..m.calls :
            s[c + 1].id = m.id /\ Carried(s[c + 1]) = {} /\ s[c + 1] # Interruption
            /\ s[c + 1].role = "tool"
  BY <1>1 DEF IsSettlement
<1>4. \A i \in DOMAIN s : s[i].id = m.id /\ Carried(s[i]) = {} /\ s[i] # Interruption
                         /\ s[i].role \in {"assistant", "tool"}
  <2> TAKE i \in DOMAIN s
  <2>1. CASE i = 1
    BY <1>2, <1>3, <2>1
  <2>2. CASE \E c \in 1..m.calls : i = c + 1
    BY <1>3, <2>2
  <2> QED
    BY <1>3, <2>1, <2>2
<1>5. Old(s, n, com)
  BY <1>4 DEF Old
<1>6. Plain(s, done)
  BY <1>4 DEF Plain
<1>7. Fresh(s, m.id)
  BY <1>4 DEF Fresh
<1> QED
  BY <1>5, <1>6, <1>7 DEF s

LEMMA LoneFits ==
    ASSUME NEW m, NEW f, NEW n, NEW com, NEW done
    PROVE  /\ Once(<<m>>)
           /\ m.role \notin {"assistant", "tool"} /\ Carried(m) \cap com = {} => Old(<<m>>, n, com)
           /\ m # Interruption /\ Carried(m) \cap done = {} => Plain(<<m>>, done)
           /\ (\A i \in DOMAIN f : ~Repeats(f[i], m)) => Apart(f, <<m>>)
           /\ (\A i \in DOMAIN f : ~Repeats(m, f[i])) => Apart(<<m>>, f)
<1>1. DOMAIN <<m>> = {1} /\ <<m>>[1] = m
  OBVIOUS
<1> QED
  BY <1>1 DEF Once, Old, Plain, Apart

LEMMA NeverFalseLast ==
    ASSUME NEW ms \in Seq(Messages), ms # <<>>, NEW done, NeverFalse(ms, done),
           Carried(Last(ms)) \cap done = {}, NEW m
    PROVE  NeverFalse(Append(ms, m), done)
<1> DEFINE f == Append(ms, m)
<1>1. PICK n \in Nat : n = Len(ms)
  BY LenProperties
<1>2. /\ Len(f) = n + 1 /\ \A i \in 1..n : f[i] = ms[i]
      /\ n > 0 /\ Last(ms) = ms[n]
  BY <1>1, EmptySeq DEF Last
<1> HIDE DEF f
<1>3. ASSUME NEW i \in 2..Len(f), f[i] = Interruption
      PROVE  Carried(f[i - 1]) \cap done = {}
  <2>1. CASE i \in 2..n
    <3>1. f[i] = ms[i] /\ f[i - 1] = ms[i - 1]
      BY <1>2, <2>1
    <3> QED
      BY <1>1, <1>3, <2>1, <3>1 DEF NeverFalse
  <2>2. CASE i = n + 1
    <3>1. f[i - 1] = ms[n]
      BY <1>2, <2>2
    <3> QED
      BY <1>2, <3>1
  <2> QED
    BY <1>2, <2>1, <2>2
<1> QED
  BY <1>3 DEF NeverFalse, f

LEMMA RestoredIs ==
    ASSUME world \in Worlds, NEW ms \in Seq(Messages), NEW c \in Checkpoints, NEW p \in BOOLEAN,
           NEW n \in Nat, NEW com, NEW done, NEW busy, NEW torn, done \subseteq busy,
           Sound(ms, c, p, n, com, done, busy, torn),
           NEW s, s.messages = ms, s.ckpt = c, s.pending = p
    PROVE  Legal(Restored(s), n, com, done, torn)
<1>1. /\ Answered(ms) /\ NeverFalse(ms, done) /\ Old(ms, n, com) /\ \A i \in done : Has(ms, i)
      /\ ~torn => Once(ms)
  BY NeverFalseLess DEF Sound
<1>2. CASE Restored(s) = ms
  BY <1>1, <1>2 DEF Legal
<1>3. CASE c # None
  <2>1. c \in Kept /\ Restored(s) = RestoreCheckpoint(ms, c)
    BY <1>3 DEF Checkpoints, Kept, Restored
  <2>2. PICK rs \in Seq(Messages) : rs = Materialized(c)
    BY <2>1, MaterializedIs
  <2>3. Restored(s) \in {ms, ms \o rs}
    BY <1>1, <2>1, <2>2, RestoreIs
  <2>4. /\ c.message \in Requests /\ c.done \in BOOLEAN /\ rs = Settlement(c.message, c.done)
        /\ c.message.id <= n
    BY <1>3, <2>1, <2>2, MaterializedIs DEF Sound
  <2>5. Answered(rs) /\ Once(rs) /\ Old(rs, n, com) /\ Plain(rs, {})
    BY <2>4, SettlementAnswered, SettlementOnce, SettlementFits
  <2>6. ~torn => Apart(ms, rs)
    BY <1>3, <2>2 DEF Sound
  <2>7. Answered(ms \o rs) /\ ms \o rs \in Seq(Messages)
    BY <1>1, <2>5, AnsweredJoin, ConcatProperties
  <2>8. \A j \in DOMAIN rs : rs[j] # Interruption
    BY <2>5 DEF Plain
  <2>9. NeverFalse(ms \o rs, done)
    BY <1>1, <2>8, NeverFalseJoin
  <2>10. Old(ms \o rs, n, com) /\ \A i \in done : Has(ms \o rs, i)
    BY <1>1, <2>5, JoinFits
  <2>11. ~torn => Once(ms \o rs)
    BY <1>1, <2>5, <2>6, OnceJoin
  <2> QED
    BY <1>2, <2>3, <2>7, <2>9, <2>10, <2>11 DEF Legal
<1>4. CASE c = None /\ p /\ ms # <<>> /\ IsUser(Last(ms))
  <2> DEFINE one == <<Interruption>>
  <2>1. Restored(s) = Append(ms, Interruption)
    BY <1>4 DEF Restored, RestorePending
  <2>2. one \in Seq(Messages) /\ Append(ms, Interruption) = ms \o one
    BY NoticesAre, AppendIsConcat
  <2>3. Answered(one) /\ Once(one) /\ Old(one, n, com)
    BY NoticesAre, AnsweredLone, LoneFits
  <2>4. Apart(ms, one)
    <3>1. \A i \in DOMAIN ms : ~Repeats(ms[i], Interruption)
      BY NoticesAre DEF Repeats
    <3> QED
      BY <3>1, LoneFits
  <2>5. NeverFalse(Append(ms, Interruption), done)
    BY <1>1, <1>4, NeverFalseLast DEF Sound
  <2> HIDE DEF one
  <2>6. Answered(ms \o one) /\ ms \o one \in Seq(Messages)
    BY <1>1, <2>2, <2>3, AnsweredJoin, ConcatProperties
  <2>7. Old(ms \o one, n, com) /\ \A i \in done : Has(ms \o one, i)
    BY <1>1, <2>2, <2>3, JoinFits
  <2>8. ~torn => Once(ms \o one)
    BY <1>1, <2>2, <2>3, <2>4, OnceJoin
  <2> QED
    BY <2>1, <2>2, <2>5, <2>6, <2>7, <2>8 DEF Legal
<1> QED
  BY <1>2, <1>3, <1>4 DEF Restored, RestorePending

-----------------------------------------------------------------------------
(***************************************************************************)
(* What a turn adds.                                                       *)
(***************************************************************************)
\* What holds of the messages w a turn has made, beside those ms of the session.
Fit(w, ms, n, com, done) ==
    /\ w \in Seq(Messages) /\ Answered(w) /\ Once(w) /\ Apart(ms, w) /\ Old(w, n, com)
    /\ Plain(w, done)

Responses(w) == {j \in DOMAIN w : w[j].role = "assistant"}

LEMMA FreshApart ==
    ASSUME world \in Worlds, NEW w \in Seq(Messages), NEW n \in Nat, NEW com, Old(w, n, com),
           NEW x, Fresh(x, n + 1)
    PROVE  Apart(w, x)
<1>1. \A i \in DOMAIN w : w[i].role \in {"assistant", "tool"} => w[i].id \in Nat /\ w[i].id <= n
  BY MessageIs, ElementOfSeq DEF Old
<1> QED
  BY <1>1 DEF Fresh, Apart, Repeats

LEMMA FreshFits ==
    ASSUME world \in Worlds, NEW ms \in Seq(Messages), NEW w, NEW n \in Nat, NEW com, NEW done,
           Fit(w, ms, n, com, done), Old(ms, n, com), NEW x \in Seq(Messages),
           Answered(x), Once(x), Fresh(x, n + 1)
    PROVE  Fit(w \o x, ms, n + 1, com, done)
<1>1. w \in Seq(Messages) /\ Old(w, n + 1, com)
  BY OldLess DEF Fit
<1>2. Apart(w, x) /\ Apart(ms, x)
  BY FreshApart DEF Fit
<1>3. Old(x, n + 1, com) /\ Plain(x, done)
  BY DEF Fresh, Old, Plain, Interruption
<1>4. Answered(w \o x) /\ w \o x \in Seq(Messages)
  BY <1>1, AnsweredJoin, ConcatProperties DEF Fit
<1>5. Once(w \o x)
  BY <1>1, <1>2, OnceJoin DEF Fit
<1>6. Apart(ms, w \o x) /\ Old(w \o x, n + 1, com) /\ Plain(w \o x, done)
  BY <1>1, <1>2, <1>3, JoinFits DEF Fit
<1> QED
  BY <1>4, <1>5, <1>6 DEF Fit

\* A message that carries some of the inputs to come.
LEMMA AppendFits ==
    ASSUME world \in Worlds, NEW ms \in Seq(Messages), NEW w, NEW n \in Nat, NEW com, NEW done,
           Fit(w, ms, n, com, done), Old(ms, n, com), com \cap done = {},
           NEW got, got \subseteq com,
           NEW m \in Messages, m.role \notin {"assistant", "tool"}, m # Interruption,
           Carried(m) \subseteq got
    PROVE  Fit(Append(w, m), ms, n, com \ got, done)
<1> DEFINE one == <<m>>
<1>1. w \in Seq(Messages) /\ one \in Seq(Messages) /\ Append(w, m) = w \o one
  BY AppendIsConcat DEF Fit
<1>2. Answered(one) /\ Once(one)
  BY AnsweredLone, LoneFits
<1>3. Old(one, n, com \ got) /\ Plain(one, done)
  BY LoneFits
<1>4. Apart(w, one) /\ Apart(ms, one)
  <2>1. \A i \in DOMAIN w : ~Repeats(w[i], m)
    BY DEF Fit, Old, Repeats
  <2>2. \A i \in DOMAIN ms : ~Repeats(ms[i], m)
    BY DEF Old, Repeats
  <2> QED
    BY <2>1, <2>2, LoneFits
<1> HIDE DEF one
<1>5. Old(w, n, com \ got)
  BY <1>1, OldLess DEF Fit
<1>6. Answered(w \o one) /\ w \o one \in Seq(Messages)
  BY <1>1, <1>2, AnsweredJoin, ConcatProperties DEF Fit
<1>7. Once(w \o one)
  BY <1>1, <1>2, <1>4, OnceJoin DEF Fit
<1>8. Apart(ms, w \o one) /\ Old(w \o one, n, com \ got) /\ Plain(w \o one, done)
  BY <1>1, <1>3, <1>4, <1>5, JoinFits DEF Fit
<1> QED
  BY <1>1, <1>6, <1>7, <1>8 DEF Fit

\* The last message gives way to one that carries no more than some inputs to come.
LEMMA ReplaceFits ==
    ASSUME world \in Worlds, NEW ms \in Seq(Messages), NEW w, NEW n \in Nat, NEW com, NEW done,
           Fit(w, ms, n, com, done), Old(ms, n, com), com \cap done = {},
           NEW got, got \subseteq com, w # <<>>, w[Len(w)].role # "tool",
           NEW m \in Messages, m.role \notin {"assistant", "tool"}, m # Interruption,
           Carried(m) \subseteq Carried(w[Len(w)]) \cup got
    PROVE  /\ Fit([w EXCEPT ![Len(w)] = m], ms, n, com \ got, done)
           /\ Responses([w EXCEPT ![Len(w)] = m]) \subseteq Responses(w)
<1> DEFINE f == [w EXCEPT ![Len(w)] = m]
<1>1. PICK l \in Nat : l = Len(w)
  BY LenProperties DEF Fit
<1>2. /\ w \in Seq(Messages) /\ f \in Seq(Messages) /\ Len(f) = l /\ DOMAIN f = 1..l
      /\ DOMAIN w = 1..l /\ f[l] = m /\ (\A i \in 1..l : i # l => f[i] = w[i]) /\ l \in 1..l
  <2>1. w \in Seq(Messages) /\ DOMAIN w = 1..l /\ l > 0
    BY <1>1, LenProperties, EmptySeq DEF Fit
  <2> QED
    BY <1>1, <2>1, ExceptSeq
<1>3. Answered(f)
  BY <1>2, AnsweredReplaced DEF Fit
<1> HIDE DEF f
<1>4. Carried(m) \subseteq Carried(w[l]) \cup got
  BY <1>1
<1>5. Old(f, n, com \ got)
  <2>1. Carried(m) \cap (com \ got) = {}
    BY <1>2, <1>4 DEF Fit, Old
  <2> QED
    BY <1>2, <2>1 DEF Fit, Old
<1>6. Plain(f, done)
  <2>1. Carried(m) \cap done = {}
    BY <1>2, <1>4 DEF Fit, Plain
  <2> QED
    BY <1>2, <2>1 DEF Fit, Plain
<1>7. \A i \in 1..l : i # l => ~Repeats(w[i], m) /\ ~Repeats(m, w[i])
  <2> TAKE i \in 1..l
  <2>1. HAVE i # l
  <2>2. Carried(w[i]) \cap got = {}
    BY <1>2 DEF Fit, Old
  <2>3. Carried(w[i]) \cap Carried(w[l]) = {}
    BY <1>2, <2>1 DEF Fit, Once, Repeats
  <2>4. Carried(w[i]) \cap Carried(m) = {}
    BY <1>4, <2>2, <2>3
  <2> QED
    BY <2>4 DEF Repeats
<1>8. Once(f)
  <2>1. ASSUME NEW i \in 1..l, NEW j \in 1..l, Repeats(f[i], f[j])
        PROVE  i = j
    BY <1>2, <1>7, <2>1 DEF Fit, Once
  <2> QED
    BY <1>2, <2>1 DEF Once
<1>9. Apart(ms, f)
  <2>1. \A i \in DOMAIN ms : ~Repeats(ms[i], m)
    <3> TAKE i \in DOMAIN ms
    <3>1. Carried(ms[i]) \cap got = {} /\ Carried(ms[i]) \cap Carried(w[l]) = {}
      BY <1>2 DEF Fit, Apart, Repeats, Old
    <3> QED
      BY <1>4, <3>1 DEF Repeats
  <2> QED
    BY <1>2, <2>1 DEF Fit, Apart
<1>10. Responses(f) \subseteq Responses(w)
  BY <1>2 DEF Responses
<1> QED
  BY <1>2, <1>3, <1>5, <1>6, <1>8, <1>9, <1>10 DEF Fit, f

Count(w) == Cardinality(Responses(w))

LEMMA CountIs ==
    ASSUME NEW w \in Seq(Messages)
    PROVE  IsFiniteSet(Responses(w)) /\ Count(w) \in Nat
<1>1. PICK n \in Nat : n = Len(w)
  BY LenProperties
<1>2. Responses(w) \subseteq 1..n
  BY <1>1 DEF Responses
<1>3. IsFiniteSet(1..n)
  BY FS_Interval
<1> QED
  BY <1>2, <1>3, FS_Subset, FS_CardinalityType DEF Count

LEMMA CountLess ==
    ASSUME NEW w \in Seq(Messages), NEW v \in Seq(Messages), Responses(v) \subseteq Responses(w)
    PROVE  Count(v) <= Count(w)
  BY CountIs, FS_Subset DEF Count

LEMMA CountAppend ==
    ASSUME NEW w \in Seq(Messages), NEW m \in Messages
    PROVE  /\ m.role # "assistant" => Count(Append(w, m)) = Count(w)
           /\ Count(Append(w, m)) <= Count(w) + 1
<1>1. PICK n \in Nat : n = Len(w)
  BY LenProperties
<1>2. /\ DOMAIN w = 1..n /\ DOMAIN Append(w, m) = 1..(n + 1)
      /\ \A i \in 1..n : Append(w, m)[i] = w[i]
      /\ Append(w, m)[n + 1] = m
  BY <1>1
<1>3. CASE m.role # "assistant"
  <2>1. Responses(Append(w, m)) = Responses(w)
    BY <1>2, <1>3 DEF Responses
  <2> QED
    BY <1>3, <2>1, CountIs DEF Count
<1>4. CASE m.role = "assistant"
  <2>1. Responses(Append(w, m)) = Responses(w) \cup {n + 1}
    BY <1>2, <1>4 DEF Responses
  <2>2. n + 1 \notin Responses(w)
    BY <1>2 DEF Responses
  <2>3. Cardinality(Responses(w) \cup {n + 1}) = Cardinality(Responses(w)) + 1
    BY <2>2, CountIs, FS_AddElement
  <2> QED
    BY <1>4, <2>1, <2>3, CountIs DEF Count
<1> QED
  BY <1>3, <1>4

LEMMA CountJoin ==
    ASSUME NEW w \in Seq(Messages), NEW x \in Seq(Messages),
           \A i \in DOMAIN x : x[i].role # "assistant"
    PROVE  Count(w \o x) = Count(w)
<1>1. /\ \A i \in DOMAIN w : (w \o x)[i] = w[i]
      /\ \A i \in (Len(w) + 1)..(Len(w) + Len(x)) :
            i - Len(w) \in DOMAIN x /\ (w \o x)[i] = x[i - Len(w)]
      /\ \A i \in DOMAIN (w \o x) : i \in DOMAIN w \/ i \in (Len(w) + 1)..(Len(w) + Len(x))
      /\ DOMAIN w = 1..Len(w) /\ DOMAIN (w \o x) = 1..(Len(w) + Len(x))
      /\ Len(w) \in Nat /\ Len(x) \in Nat
  BY JoinIs
<1>2. Responses(w \o x) = Responses(w)
  BY <1>1 DEF Responses
<1> QED
  BY <1>2 DEF Count

-----------------------------------------------------------------------------
\* What a turn holds.
InputNames == Inputs \cup {None}
Bits == 0..1
Openings == SUBSET Inputs
Works == Seq(Messages)
Iters == 0..MaxIterations
Cycles == 0..MaxCycles
Recoveries == 0..MaxRecoveries
TurnType ==
    [input : InputNames, skew : Bits, opening : Openings, work : Works, iter : Iters,
     cycles : Cycles, empties : Nat, recoveries : Recoveries]

Around(ms, n, com, done) ==
    /\ world \in Worlds /\ ms \in Seq(Messages) /\ n \in Nat /\ Old(ms, n, com)
    /\ com \in SUBSET Inputs /\ com \cap done = {}

\* The turn t has made at most k responses, and messages that fit the session's.
Holds(t, k, ms, n, com, done) ==
    t \in TurnType /\ Fit(t.work, ms, n, com, done) /\ Count(t.work) <= k

\* The same turn at the same iteration.
Near(t, u) == u.input = t.input /\ u.iter = t.iter /\ u.skew = t.skew

LEMMA TurnIs ==
    ASSUME NEW t \in TurnType
    PROVE  /\ t.work \in Seq(Messages) /\ t.iter \in Nat /\ t.iter <= MaxIterations
           /\ t.opening \in SUBSET Inputs /\ t.cycles \in Nat /\ t.input \in Inputs \cup {None}
           /\ t.skew \in {0, 1}
  BY Limits DEF TurnType, Works, Iters, Openings, Cycles, InputNames, Bits

LEMMA WorkIs ==
    ASSUME NEW t \in TurnType, NEW w \in Seq(Messages)
    PROVE  /\ [t EXCEPT !.work = w] \in TurnType /\ [t EXCEPT !.work = w].work = w
           /\ Near(t, [t EXCEPT !.work = w]) /\ [t EXCEPT !.work = w].cycles = t.cycles
<1>1. w \in Works
  BY DEF Works
<1> QED
  BY <1>1 DEF TurnType, Near

LEMMA AddIs ==
    ASSUME NEW t \in TurnType, NEW x \in Seq(Messages)
    PROVE  /\ Add(t, x) \in TurnType /\ Add(t, x).work = t.work \o x
           /\ Near(t, Add(t, x)) /\ Add(t, x).cycles = t.cycles
<1>1. t.work \o x \in Seq(Messages)
  BY TurnIs, ConcatProperties
<1> QED
  BY <1>1, WorkIs DEF Add

LEMMA LastFixed ==
    ASSUME NEW t \in TurnType, t.work # <<>>, NEW m \in Messages
    PROVE  LET u == [t EXCEPT !.work[Len(t.work)] = m]
           IN  /\ u \in TurnType /\ u.work = [t.work EXCEPT ![Len(t.work)] = m]
               /\ Near(t, u) /\ u.cycles = t.cycles
<1> DEFINE w == [t.work EXCEPT ![Len(t.work)] = m]
<1>1. w \in Seq(Messages)
  <2>1. PICK l \in Nat : l = Len(t.work)
    BY TurnIs, LenProperties
  <2>2. t.work \in Seq(Messages) /\ l \in 1..l /\ DOMAIN t.work = 1..l
    BY <2>1, TurnIs, LenProperties, EmptySeq
  <2> QED
    BY <2>1, <2>2, ExceptSeq
<1>2. [t EXCEPT !.work[Len(t.work)] = m] = [t EXCEPT !.work = w]
  BY DEF TurnType
<1> HIDE DEF w
<1>3. [t EXCEPT !.work = w] \in TurnType /\ [t EXCEPT !.work = w].work = w
      /\ Near(t, [t EXCEPT !.work = w]) /\ [t EXCEPT !.work = w].cycles = t.cycles
  BY <1>1, WorkIs
<1> QED
  BY <1>2, <1>3 DEF w

LEMMA NoticeFits ==
    ASSUME NEW ms, NEW n, NEW com, NEW done, Around(ms, n, com, done), NEW k \in Nat,
           NEW t, Holds(t, k, ms, n, com, done)
    PROVE  Holds(Add(t, <<Notice>>), k, ms, n, com, done) /\ Near(t, Add(t, <<Notice>>))
<1>1. t \in TurnType /\ t.work \in Seq(Messages) /\ <<Notice>> \in Seq(Messages) /\ Notice \in Messages
  BY NoticesAre, TurnIs DEF Holds
<1>2. /\ Add(t, <<Notice>>) \in TurnType /\ Add(t, <<Notice>>).work = t.work \o <<Notice>>
      /\ Near(t, Add(t, <<Notice>>))
  BY <1>1, AddIs
<1>3. t.work \o <<Notice>> = Append(t.work, Notice)
  BY <1>1, AppendIsConcat
<1>4. Fit(Append(t.work, Notice), ms, n, com \ {}, done)
  BY AppendFits, NoticesAre DEF Around, Holds
<1>5. Count(Append(t.work, Notice)) = Count(t.work)
  BY <1>1, NoticesAre, CountAppend
<1>6. com \ {} = com
  OBVIOUS
<1> QED
  BY <1>2, <1>3, <1>4, <1>5, <1>6 DEF Holds

LEMMA FinalFits ==
    ASSUME NEW ms, NEW n, NEW com, NEW done, Around(ms, n, com, done), NEW k \in Nat,
           NEW t, Holds(t, k, ms, n, com, done)
    PROVE  Holds(AppendFinal(t), k, ms, n, com, done) /\ Near(t, AppendFinal(t))
<1>1. CASE AppendFinal(t) = t
  BY <1>1 DEF Near
<1>2. CASE AppendFinal(t) = Add(t, <<Notice>>)
  BY <1>2, NoticeFits
<1>3. CASE t.work # <<>> /\ IsPlain(Last(t.work))
           /\ AppendFinal(t) = [t EXCEPT !.work[Len(t.work)] = Notice]
  <2> DEFINE w == [t.work EXCEPT ![Len(t.work)] = Notice]
  <2>1. t \in TurnType /\ t.work \in Seq(Messages) /\ Notice \in Messages
    BY NoticesAre, TurnIs DEF Holds
  <2>2. /\ AppendFinal(t) \in TurnType /\ AppendFinal(t).work = w
        /\ Near(t, AppendFinal(t))
    BY <1>3, <2>1, LastFixed
  <2>3. t.work[Len(t.work)].role # "tool"
    <3>1. Last(t.work) \in Messages
      BY <1>3, <2>1, LenProperties, EmptySeq, ElementOfSeq DEF Last
    <3> QED
      BY <1>3, <3>1, MessageIs DEF Last, Around
  <2>4. Fit(w, ms, n, com \ {}, done) /\ Responses(w) \subseteq Responses(t.work)
    BY <1>3, <2>3, ReplaceFits, NoticesAre DEF Around, Holds
  <2>5. com \ {} = com
    OBVIOUS
  <2> HIDE DEF w
  <2>6. Count(w) <= Count(t.work) /\ Count(w) \in Nat /\ Count(t.work) \in Nat
    BY <2>1, <2>4, CountLess, CountIs DEF Fit
  <2> QED
    BY <2>2, <2>4, <2>5, <2>6 DEF Holds
<1> QED
  BY <1>1, <1>2, <1>3 DEF AppendFinal

LEMMA PlaceholderFits ==
    ASSUME NEW ms, NEW n, NEW com, NEW done, Around(ms, n, com, done), NEW k \in Nat,
           NEW t, Holds(t, k, ms, n, com, done)
    PROVE  Holds(AppendPlaceholder(t), k, ms, n, com, done) /\ Near(t, AppendPlaceholder(t))
<1>1. CASE AppendPlaceholder(t) = t
  BY <1>1 DEF Near
<1>2. CASE AppendPlaceholder(t) = Add(t, <<Notice>>)
  BY <1>2, NoticeFits
<1> QED
  BY <1>1, <1>2 DEF AppendPlaceholder

LEMMA AroundLess ==
    ASSUME NEW ms, NEW n, NEW com, NEW done, Around(ms, n, com, done), NEW n2 \in Nat, n <= n2,
           NEW less, less \subseteq com
    PROVE  Around(ms, n2, less, done)
<1>1. Old(ms, n2, less)
  BY OldLess DEF Around
<1> QED
  BY <1>1 DEF Around

LEMMA HoldsLess ==
    ASSUME NEW ms, NEW n, NEW com, NEW done, Around(ms, n, com, done), NEW less, less \subseteq com,
           NEW k, NEW t, Holds(t, k, ms, n, com, done)
    PROVE  Holds(t, k, ms, n, less, done)
<1>1. Old(t.work, n, less)
  BY OldLess DEF Around, Holds, Fit
<1> QED
  BY <1>1 DEF Holds, Fit

LEMMA UserFits ==
    ASSUME NEW ms, NEW n, NEW com, NEW done, Around(ms, n, com, done), NEW k \in Nat,
           NEW t, Holds(t, k, ms, n, com, done), NEW got, got \subseteq com
    PROVE  /\ Holds(Add(t, <<User(got)>>), k, ms, n, com \ got, done)
           /\ Near(t, Add(t, <<User(got)>>)) /\ Add(t, <<User(got)>>).cycles = t.cycles
<1>1. t \in TurnType /\ t.work \in Seq(Messages) /\ got \in SUBSET Inputs
  BY TurnIs DEF Holds, Around
<1>2. User(got) \in Messages /\ <<User(got)>> \in Seq(Messages)
  BY <1>1, UserIs
<1>3. /\ Add(t, <<User(got)>>) \in TurnType
      /\ Add(t, <<User(got)>>).work = t.work \o <<User(got)>>
      /\ Near(t, Add(t, <<User(got)>>)) /\ Add(t, <<User(got)>>).cycles = t.cycles
  BY <1>1, <1>2, AddIs
<1>4. t.work \o <<User(got)>> = Append(t.work, User(got))
  BY <1>1, <1>2, AppendIsConcat
<1>5. /\ User(got).role \notin {"assistant", "tool"} /\ User(got).role # "assistant"
      /\ User(got) # Interruption /\ Carried(User(got)) \subseteq got
  BY <1>1, UserIs
<1>6. Fit(Append(t.work, User(got)), ms, n, com \ got, done)
  BY <1>2, <1>5, AppendFits DEF Around, Holds
<1>7. Count(Append(t.work, User(got))) = Count(t.work)
  BY <1>1, <1>2, <1>5, CountAppend
<1> QED
  BY <1>3, <1>4, <1>6, <1>7 DEF Holds

LEMMA MergeFits ==
    ASSUME NEW ms, NEW n, NEW com, NEW done, Around(ms, n, com, done), NEW k \in Nat,
           NEW t, Holds(t, k, ms, n, com, done), NEW got, got \subseteq com
    PROVE  /\ Holds(Merge(t, got), k, ms, n, com \ got, done) /\ Near(t, Merge(t, got))
           /\ Merge(t, got).cycles = t.cycles
<1>1. t \in TurnType /\ t.work \in Seq(Messages) /\ got \in SUBSET Inputs
  BY TurnIs DEF Holds, Around
<1>2. CASE Merge(t, got) = Add(t, <<User(got)>>)
  <2> QED
    BY <1>2, UserFits
<1>3. CASE Merge(t, got) = [t EXCEPT !.opening = @ \cup got]
  <2>1. t.opening \cup got \in Openings
    BY <1>1, TurnIs DEF Openings
  <2>2. /\ Merge(t, got) \in TurnType /\ Merge(t, got).work = t.work /\ Near(t, Merge(t, got))
        /\ Merge(t, got).cycles = t.cycles
    BY <1>1, <1>3, <2>1 DEF TurnType, Near
  <2>3. Holds(t, k, ms, n, com \ got, done)
    BY HoldsLess
  <2> QED
    BY <2>2, <2>3 DEF Holds
<1>4. CASE /\ t.work # <<>> /\ IsUser(Last(t.work))
           /\ Merge(t, got) = [t EXCEPT !.work[Len(t.work)] = User(got \cup Carried(Last(t.work)))]
  <2>1. t.work[Len(t.work)] \in Messages /\ Last(t.work) = t.work[Len(t.work)]
    BY <1>1, <1>4, LenProperties, EmptySeq, ElementOfSeq DEF Last
  <2>2. /\ Carried(Last(t.work)) \in SUBSET Inputs
        /\ t.work[Len(t.work)].role # "tool"
    BY <1>4, <2>1, MessageIs DEF Around
  <2>3. PICK of \in SUBSET Inputs : of = got \cup Carried(Last(t.work))
    BY <1>1, <2>2
  <2> DEFINE w == [t.work EXCEPT ![Len(t.work)] = User(of)]
  <2>4. /\ User(of) \in Messages /\ User(of).role \notin {"assistant", "tool"}
        /\ User(of) # Interruption /\ Carried(User(of)) \subseteq Carried(t.work[Len(t.work)]) \cup got
    BY <2>1, <2>3, UserIs
  <2>5. /\ Merge(t, got) \in TurnType /\ Merge(t, got).work = w
        /\ Near(t, Merge(t, got)) /\ Merge(t, got).cycles = t.cycles
    BY <1>1, <1>4, <2>3, <2>4, LastFixed
  <2>6. Fit(w, ms, n, com \ got, done) /\ Responses(w) \subseteq Responses(t.work)
    BY <1>4, <2>2, <2>4, ReplaceFits DEF Around, Holds
  <2> HIDE DEF w
  <2>7. Count(w) <= Count(t.work) /\ Count(w) \in Nat /\ Count(t.work) \in Nat
    BY <1>1, <2>6, CountLess, CountIs DEF Fit
  <2> QED
    BY <2>5, <2>6, <2>7 DEF Holds
<1>5. \/ Merge(t, got) = Add(t, <<User(got)>>)
      \/ Merge(t, got) = [t EXCEPT !.opening = @ \cup got]
      \/ /\ t.work # <<>> /\ IsUser(Last(t.work))
         /\ Merge(t, got) = [t EXCEPT !.work[Len(t.work)] = User(got \cup Carried(Last(t.work)))]
  BY DEF Merge, EndsWithUser
<1> QED
  BY <1>2, <1>3, <1>4, <1>5

LEMMA DrainableIs ==
    ASSUME NEW t, NEW got \in Drainable(t)
    PROVE  got \subseteq coming /\ (t.cycles < MaxCycles \/ got = {})
  BY DEF Drainable

LEMMA InjectFits ==
    ASSUME NEW ms, NEW n, NEW com, NEW done, Around(ms, n, com, done), NEW k \in Nat,
           NEW t, Holds(t, k, ms, n, com, done), NEW got, got \subseteq com,
           t.cycles < MaxCycles \/ got = {}
    PROVE  /\ Holds(Inject(t, got), k, ms, n, com \ got, done) /\ Near(t, Inject(t, got))
<1>1. CASE got = {}
  <2>1. Inject(t, got) = t /\ com \ got = com
    BY <1>1 DEF Inject
  <2> QED
    BY <2>1 DEF Near
<1>2. CASE got # {}
  <2> DEFINE u == Merge(t, got)
  <2>1. Holds(u, k, ms, n, com \ got, done) /\ Near(t, u) /\ u.cycles = t.cycles
    BY MergeFits
  <2>2. Inject(t, got) = [u EXCEPT !.cycles = @ + 1]
    BY <1>2 DEF Inject
  <2> HIDE DEF u
  <2>3. u.cycles + 1 \in Cycles
    <3>1. t \in TurnType
      BY DEF Holds
    <3> QED
      BY <1>2, <2>1, <3>1, TurnIs, Limits DEF Cycles
  <2>4. u \in TurnType
    BY <2>1 DEF Holds
  <2>5. /\ Inject(t, got) \in TurnType /\ Inject(t, got).work = u.work /\ Near(u, Inject(t, got))
    BY <2>2, <2>3, <2>4 DEF TurnType, Near
  <2> QED
    BY <2>1, <2>5 DEF Holds, Near
<1> QED
  BY <1>1, <1>2

LEMMA NextFits ==
    ASSUME NEW ms, NEW n, NEW com, NEW done, NEW k, NEW t, Holds(t, k, ms, n, com, done),
           t.iter < MaxIterations
    PROVE  /\ Holds(NextIteration(t), k, ms, n, com, done)
           /\ NextIteration(t).iter = t.iter + 1 /\ NextIteration(t).input = t.input
<1>1. t \in TurnType
  BY DEF Holds
<1>2. t.iter + 1 \in Iters
  BY <1>1, TurnIs, Limits DEF Iters
<1>3. /\ NextIteration(t) \in TurnType /\ NextIteration(t).work = t.work
      /\ NextIteration(t).iter = t.iter + 1 /\ NextIteration(t).input = t.input
  BY <1>1, <1>2 DEF TurnType, NextIteration
<1> QED
  BY <1>3 DEF Holds

LEMMA AnswerIs ==
    ASSUME world \in Worlds, NEW n \in Nat, n + 1 <= world.responses
    PROVE  /\ Answer(n + 1) \in Requests /\ Answer(n + 1) \in Messages
           /\ <<Answer(n + 1)>> \in Seq(Messages)
           /\ Answered(<<Answer(n + 1)>>) /\ Once(<<Answer(n + 1)>>)
           /\ Fresh(<<Answer(n + 1)>>, n + 1)
<1> DEFINE m == Answer(n + 1)
<1>1. m \in Requests
  BY WorldIs DEF Requests, Answer
<1>2. m.role = "assistant" /\ m.calls = 0 /\ m.id = n + 1
  BY DEF Answer, Request
<1> HIDE DEF m
<1>3. m \in Messages /\ Carried(m) = {}
  BY <1>1, RequestIs
<1>4. Answered(<<m>>) /\ Once(<<m>>)
  BY <1>2, <1>3, AnsweredLone, LoneFits
<1>5. Fresh(<<m>>, n + 1)
  <2>1. DOMAIN <<m>> = {1} /\ <<m>>[1] = m
    OBVIOUS
  <2> QED
    BY <1>2, <1>3, <2>1 DEF Fresh
<1> QED
  BY <1>1, <1>3, <1>4, <1>5 DEF m

LEMMA AnswerFits ==
    ASSUME NEW ms, NEW n, NEW com, NEW done, Around(ms, n, com, done), NEW k \in Nat,
           NEW t, Holds(t, k, ms, n, com, done), n + 1 <= world.responses
    PROVE  /\ Holds(Add(t, <<Answer(n + 1)>>), k + 1, ms, n + 1, com, done)
           /\ Near(t, Add(t, <<Answer(n + 1)>>))
           /\ Add(t, <<Answer(n + 1)>>).cycles = t.cycles
<1>1. t \in TurnType /\ t.work \in Seq(Messages) /\ world \in Worlds /\ n \in Nat
  BY TurnIs DEF Holds, Around
<1>2. PICK m \in Messages : m = Answer(n + 1)
  BY <1>1, AnswerIs
<1>3. /\ <<m>> \in Seq(Messages) /\ Answered(<<m>>) /\ Once(<<m>>) /\ Fresh(<<m>>, n + 1)
  BY <1>1, <1>2, AnswerIs
<1>4. /\ Add(t, <<m>>) \in TurnType /\ Add(t, <<m>>).work = t.work \o <<m>>
      /\ Near(t, Add(t, <<m>>)) /\ Add(t, <<m>>).cycles = t.cycles
  BY <1>1, <1>3, AddIs
<1>5. Fit(t.work \o <<m>>, ms, n + 1, com, done)
  BY <1>3, FreshFits DEF Holds, Around
<1>6. t.work \o <<m>> = Append(t.work, m)
  BY <1>1, <1>2, AppendIsConcat
<1>7. Count(Append(t.work, m)) <= Count(t.work) + 1
  BY <1>1, CountAppend
<1>8. Count(Append(t.work, m)) \in Nat /\ Count(t.work) \in Nat
  BY <1>1, <1>4, <1>6, CountIs, TurnIs
<1>9. Count(t.work) <= k
  BY DEF Holds
<1>10. Count(t.work \o <<m>>) <= k + 1
  <2>1. PICK a \in Nat : a = Count(Append(t.work, m))
    BY <1>8
  <2>2. PICK b \in Nat : b = Count(t.work)
    BY <1>8
  <2>3. a <= k + 1
    BY <1>7, <1>9, <2>1, <2>2
  <2> QED
    BY <1>6, <2>1, <2>3
<1>11. Holds(Add(t, <<m>>), k + 1, ms, n + 1, com, done)
  BY <1>4, <1>5, <1>10 DEF Holds
<1> QED
  BY <1>2, <1>4, <1>11

-----------------------------------------------------------------------------
(***************************************************************************)
(* The inductive invariant.                                                *)
(***************************************************************************)
\* What the turn has made, with the results of the tools at work.
Whole(t, p) == IF p = "tools" THEN t.work \o Results(Last(t.work)) ELSE t.work

\* How many responses a turn has had at most.
Allowed(t, p) ==
    IF p = "tools" THEN t.iter + 1 ELSE IF p = "save" THEN MaxIterations ELSE t.iter

Working(t, p, ms, n, com, done) ==
    /\ t \in TurnType
    /\ Fit(Whole(t, p), ms, n, com, done)
    /\ p = "tools" => t.work # <<>> /\ Last(t.work) \in Requests
    /\ p \in {"tools", "retry"} => t.iter < MaxIterations
    /\ Count(t.work) <= Allowed(t, p)

\* The inputs whose turn is over or under way.
Busy == finished \cup ({turn.input} \ {None})

InTurn == {"command", "model", "tools", "retry", "save"}
TurnInv ==
    /\ phase = "idle" => turn = NoTurn
    /\ phase \in {"idle", "build", "command", "built"} => turn.work = <<>>
    /\ phase # "idle" => turn.input \in Inputs /\ turn.input \notin coming \cup finished
    /\ phase \in {"build", "built"} => ~Has(messages, turn.input)
    /\ phase \in InTurn => Has(messages, turn.input)
    /\ Working(turn, phase, messages, made, coming, finished)

SoundInv ==
    /\ Sound(messages, ckpt, pending, made, coming, finished, Busy, unarchived)
    /\ Sound(disk.messages, disk.ckpt, disk.pending, made, coming, finished, Busy, unarchived)

TypeInv ==
    /\ world \in Worlds /\ messages \in Seq(Messages) /\ ckpt \in Checkpoints
    /\ pending \in BOOLEAN /\ disk \in Files /\ phase \in Phases
    /\ made \in Nat /\ made <= world.responses /\ coming \in SUBSET Inputs
    /\ finished \in SUBSET Inputs /\ coming \cap finished = {} /\ unarchived \in BOOLEAN

Inv == TypeInv /\ SoundInv /\ TurnInv

-----------------------------------------------------------------------------
(***************************************************************************)
(* The steps of the loop.                                                  *)
(***************************************************************************)
LEMMA AroundIs ==
    ASSUME Inv
    PROVE  Around(messages, made, coming, finished)
  BY DEF Inv, TypeInv, SoundInv, Sound, Around

LEMMA HoldsMore ==
    ASSUME NEW ms, NEW n, NEW com, NEW done, NEW k \in Nat, NEW l \in Nat, k <= l,
           NEW t, Holds(t, k, ms, n, com, done)
    PROVE  Holds(t, l, ms, n, com, done)
<1>1. Count(t.work) \in Nat
  BY TurnIs, CountIs DEF Holds
<1> QED
  BY <1>1 DEF Holds

\* The turn goes on or is saved.
Goes ==
    /\ phase' \in {"model", "retry", "save"} /\ turn'.input = turn.input
    /\ Working(turn', phase', messages, made', coming', finished)
    /\ coming' \subseteq coming

LEMMA ProceedGoes ==
    ASSUME NEW k \in Nat, NEW u, Holds(u, k, messages, made', coming', finished), Proceed(u),
           u.iter < MaxIterations, k <= u.iter + 1, u.input = turn.input, coming' \subseteq coming
    PROVE  Goes
<1>1. /\ phase' = "model" /\ turn'.iter = u.iter + 1 /\ turn'.input = turn.input
      /\ Holds(turn', k, messages, made', coming', finished)
  BY NextFits DEF Proceed
<1>2. u.iter \in Nat
  BY TurnIs DEF Holds
<1>3. u.iter + 1 \in Nat
  BY <1>2
<1>4. Holds(turn', u.iter + 1, messages, made', coming', finished)
  BY <1>1, <1>3, HoldsMore
<1> QED
  BY <1>1, <1>4 DEF Goes, Working, Whole, Allowed, Holds

LEMMA LeaveGoes ==
    ASSUME NEW k \in Nat, NEW u, Holds(u, k, messages, made', coming', finished), Leave(u),
           k <= MaxIterations, u.input = turn.input, coming' \subseteq coming
    PROVE  Goes
<1>1. Holds(u, MaxIterations, messages, made', coming', finished)
  BY Limits, HoldsMore
<1> QED
  BY <1>1 DEF Goes, Working, Whole, Allowed, Holds, Leave

LEMMA DrainGoes ==
    ASSUME Inv, NEW n, made' = n, Around(messages, n, coming, finished),
           NEW k \in Nat, NEW u, Holds(u, k, messages, n, coming, finished),
           u.iter < MaxIterations, k <= u.iter + 1, u.input = turn.input,
           \/ EndWithDrain(u)
           \/ \E got \in Drainable(u) : coming' = coming \ got /\ Proceed(Inject(u, got))
    PROVE  Goes
<1>1. PICK got \in Drainable(u) :
          /\ coming' = coming \ got
          /\ Proceed(Inject(u, got)) \/ (got = {} /\ Leave(u))
  BY DEF EndWithDrain
<1>2. got \subseteq coming /\ (u.cycles < MaxCycles \/ got = {})
  BY DrainableIs
<1>3. PICK c : c = coming'
  OBVIOUS
<1>4. u.iter \in Nat /\ u.iter <= MaxIterations
  BY TurnIs DEF Holds
<1>5. CASE Proceed(Inject(u, got))
  <2>1. Holds(Inject(u, got), k, messages, n, c, finished) /\ Near(u, Inject(u, got))
    BY <1>1, <1>2, <1>3, InjectFits
  <2>2. /\ Inject(u, got).iter < MaxIterations /\ k <= Inject(u, got).iter + 1
        /\ Inject(u, got).input = turn.input
    BY <2>1 DEF Near
  <2>3. Holds(Inject(u, got), k, messages, made', coming', finished) /\ coming' \subseteq coming
    BY <1>1, <1>3, <2>1
  <2> QED
    BY <1>5, <2>2, <2>3, ProceedGoes
<1>6. CASE got = {} /\ Leave(u)
  <2>1. coming' = coming
    BY <1>1, <1>6
  <2>2. Holds(u, k, messages, made', coming', finished) /\ coming' \subseteq coming
    BY <2>1
  <2>3. k <= MaxIterations
    BY <1>4, Limits
  <2> QED
    BY <1>6, <2>2, <2>3, LeaveGoes
<1> QED
  BY <1>1, <1>5, <1>6

\* A checkpoint of a response that the session's messages do not have.
Noted ==
    /\ UNCHANGED <<messages, pending, unarchived, world>>
    /\ \E m \in Requests, d \in BOOLEAN :
          /\ m.id <= made' /\ ckpt' = Checkpoint(m, d) /\ Apart(messages, Settlement(m, d))
    /\ disk' = Saved(messages, ckpt', pending)

\* The tools of a response begin.
Tools ==
    /\ phase' = "tools" /\ turn'.input = turn.input /\ coming' = coming
    /\ Working(turn', phase', messages, made', coming', finished)

Iterates ==
    /\ phase \in {"model", "tools", "retry"}
    /\ Goes \/ Tools
    /\ finished' = finished /\ made' \in Nat /\ made <= made' /\ made' <= world.responses
    /\ KeepSession \/ Noted

LEMMA AskingIs ==
    ASSUME Inv, Asking \/ phase = "retry"
    PROVE  /\ Holds(turn, turn.iter, messages, made, coming, finished)
           /\ turn.iter < MaxIterations /\ turn.iter \in Nat /\ turn \in TurnType
           /\ phase \in {"model", "tools", "retry"} /\ phase # "tools"
<1>1. phase \in {"model", "retry"}
  BY DEF Asking
<1>2. Working(turn, phase, messages, made, coming, finished)
  BY DEF Inv, TurnInv
<1>3. turn \in TurnType /\ turn.iter < MaxIterations
  BY <1>1, <1>2 DEF Working, Asking
<1>4. Holds(turn, turn.iter, messages, made, coming, finished)
  BY <1>1, <1>2 DEF Working, Whole, Allowed, Holds
<1> QED
  BY <1>1, <1>3, <1>4, TurnIs

LEMMA MadeIs ==
    ASSUME Inv, made' = made
    PROVE  made' \in Nat /\ made <= made' /\ made' <= world.responses
  BY WorldIs DEF Inv, TypeInv

LEMMA MakesIs ==
    ASSUME Inv, made < world.responses, made' = made + 1
    PROVE  /\ made' \in Nat /\ made <= made' /\ made' <= world.responses
           /\ made \in Nat /\ made + 1 <= world.responses
  BY WorldIs DEF Inv, TypeInv

LEMMA TurnTimeoutIterates ==
    ASSUME Inv, TurnTimeout
    PROVE  Iterates
<1>1. /\ Asking /\ Leave(turn) /\ KeepSession
      /\ made' = made /\ coming' = coming /\ finished' = finished
  BY DEF TurnTimeout
<1>2. /\ Holds(turn, turn.iter, messages, made, coming, finished) /\ turn.iter \in Nat
      /\ turn.iter < MaxIterations /\ phase \in {"model", "tools", "retry"}
  BY <1>1, AskingIs
<1>3. Holds(turn, turn.iter, messages, made', coming', finished) /\ coming' \subseteq coming
  BY <1>1, <1>2
<1>4. turn.iter <= MaxIterations
  BY <1>2, Limits
<1>5. Goes
  BY <1>1, <1>2, <1>3, <1>4, LeaveGoes
<1> QED
  BY <1>1, <1>2, <1>5, MadeIs DEF Iterates

LEMMA BudgetExceededIterates ==
    ASSUME Inv, BudgetExceeded
    PROVE  Iterates
<1>1. /\ Asking \/ phase = "retry"
      /\ Leave(AppendFinal(turn)) /\ KeepSession
      /\ made' = made /\ coming' = coming /\ finished' = finished
  BY DEF BudgetExceeded
<1>2. /\ Holds(turn, turn.iter, messages, made, coming, finished) /\ turn.iter \in Nat
      /\ turn.iter < MaxIterations /\ phase \in {"model", "tools", "retry"}
  BY <1>1, AskingIs
<1>3. Holds(AppendFinal(turn), turn.iter, messages, made, coming, finished)
      /\ Near(turn, AppendFinal(turn))
  BY <1>2, AroundIs, FinalFits
<1>4. /\ Holds(AppendFinal(turn), turn.iter, messages, made', coming', finished)
      /\ AppendFinal(turn).input = turn.input /\ coming' \subseteq coming
  BY <1>1, <1>3 DEF Near
<1>5. turn.iter <= MaxIterations
  BY <1>2, Limits
<1>6. Goes
  BY <1>1, <1>2, <1>4, <1>5, LeaveGoes
<1> QED
  BY <1>1, <1>2, <1>6, MadeIs DEF Iterates

LEMMA EmptyResponseIterates ==
    ASSUME Inv, EmptyResponse
    PROVE  Iterates
<1> DEFINE t == [turn EXCEPT !.empties = @ + 1]
<1>1. /\ Asking /\ KeepSession /\ made' = made /\ coming' = coming /\ finished' = finished
      /\ Proceed(t) \/ (turn' = t /\ phase' = "retry")
  BY DEF EmptyResponse
<1>2. /\ Holds(turn, turn.iter, messages, made, coming, finished) /\ turn.iter \in Nat
      /\ turn.iter < MaxIterations /\ phase \in {"model", "tools", "retry"} /\ turn \in TurnType
  BY <1>1, AskingIs
<1>3. t \in TurnType /\ t.work = turn.work /\ t.iter = turn.iter /\ t.input = turn.input
  BY <1>2 DEF TurnType
<1> HIDE DEF t
<1>4. Holds(t, turn.iter, messages, made', coming', finished) /\ coming' \subseteq coming
  BY <1>1, <1>2, <1>3 DEF Holds
<1>5. CASE Proceed(t)
  <2>1. t.iter < MaxIterations /\ turn.iter <= t.iter + 1
    BY <1>2, <1>3
  <2>2. Goes
    BY <1>2, <1>3, <1>4, <1>5, <2>1, ProceedGoes
  <2> QED
    BY <1>1, <1>2, <2>2, MadeIs DEF Iterates
<1>6. CASE turn' = t /\ phase' = "retry"
  <2>1. Goes
    BY <1>1, <1>2, <1>3, <1>4, <1>6 DEF Goes, Working, Whole, Allowed, Holds
  <2> QED
    BY <1>1, <1>2, <2>1, MadeIs DEF Iterates
<1> QED
  BY <1>1, <1>5, <1>6

LEMMA BlankResponseIterates ==
    ASSUME Inv, BlankResponse
    PROVE  Iterates
<1>1. /\ phase = "retry" /\ KeepSession /\ made' = made /\ finished' = finished
      /\ \/ \E got \in Drainable(turn) : coming' = coming \ got /\ Proceed(Inject(turn, got))
         \/ EndWithDrain(AppendFinal(turn))
  BY DEF BlankResponse
<1>2. /\ Holds(turn, turn.iter, messages, made, coming, finished) /\ turn.iter \in Nat
      /\ turn.iter < MaxIterations /\ phase \in {"model", "tools", "retry"}
  BY <1>1, AskingIs
<1>3. Holds(AppendFinal(turn), turn.iter, messages, made, coming, finished)
      /\ Near(turn, AppendFinal(turn))
  BY <1>2, AroundIs, FinalFits
<1>4. turn.iter <= turn.iter + 1
  BY <1>2
<1>5. Goes
  <2>1. CASE \E got \in Drainable(turn) : coming' = coming \ got /\ Proceed(Inject(turn, got))
    BY <1>1, <1>2, <1>4, <2>1, AroundIs, DrainGoes
  <2>2. CASE EndWithDrain(AppendFinal(turn))
    BY <1>1, <1>2, <1>3, <1>4, <2>2, AroundIs, DrainGoes DEF Near
  <2> QED
    BY <1>1, <2>1, <2>2
<1> QED
  BY <1>1, <1>2, <1>5, MadeIs DEF Iterates

LEMMA ErrorResponseIterates ==
    ASSUME Inv, ErrorResponse
    PROVE  Iterates
<1>1. /\ Asking \/ phase = "retry"
      /\ KeepSession /\ made' = made /\ finished' = finished
      /\ \/ \E got \in Drainable(turn) : coming' = coming \ got /\ Proceed(Inject(turn, got))
         \/ EndWithDrain(AppendPlaceholder(turn))
  BY DEF ErrorResponse
<1>2. /\ Holds(turn, turn.iter, messages, made, coming, finished) /\ turn.iter \in Nat
      /\ turn.iter < MaxIterations /\ phase \in {"model", "tools", "retry"}
  BY <1>1, AskingIs
<1>3. Holds(AppendPlaceholder(turn), turn.iter, messages, made, coming, finished)
      /\ Near(turn, AppendPlaceholder(turn))
  BY <1>2, AroundIs, PlaceholderFits
<1>4. turn.iter <= turn.iter + 1
  BY <1>2
<1>5. Goes
  <2>1. CASE \E got \in Drainable(turn) : coming' = coming \ got /\ Proceed(Inject(turn, got))
    BY <1>1, <1>2, <1>4, <2>1, AroundIs, DrainGoes
  <2>2. CASE EndWithDrain(AppendPlaceholder(turn))
    BY <1>1, <1>2, <1>3, <1>4, <2>2, AroundIs, DrainGoes DEF Near
  <2> QED
    BY <1>1, <2>1, <2>2
<1> QED
  BY <1>1, <1>2, <1>5, MadeIs DEF Iterates

LEMMA TruncatedIterates ==
    ASSUME Inv, Truncated
    PROVE  Iterates
<1> DEFINE asked == <<Answer(made'), User({})>>
           t == [Add(turn, asked) EXCEPT !.recoveries = @ + 1]
<1>1. /\ Asking \/ phase = "retry"
      /\ made < world.responses /\ made' = made + 1 /\ turn.recoveries < MaxRecoveries
      /\ Proceed(t) /\ KeepSession /\ coming' = coming /\ finished' = finished
  BY DEF Truncated
<1>2. /\ Holds(turn, turn.iter, messages, made, coming, finished) /\ turn.iter \in Nat
      /\ turn.iter < MaxIterations /\ phase \in {"model", "tools", "retry"} /\ turn \in TurnType
  BY <1>1, AskingIs
<1>3. PICK n \in Nat : n = made /\ n + 1 <= world.responses
  BY <1>1, MakesIs
<1>4. PICK w : w = turn.work \o <<Answer(n + 1)>> \o <<User({})>>
  OBVIOUS
<1>5. PICK u : u = Add(Add(turn, <<Answer(n + 1)>>), <<User({})>>)
  OBVIOUS
<1>6. Holds(u, turn.iter + 1, messages, n + 1, coming, finished) /\ u.work = w
  <2>1. PICK v : v = Add(turn, <<Answer(n + 1)>>)
    OBVIOUS
  <2>2. /\ Holds(v, turn.iter + 1, messages, n + 1, coming, finished)
        /\ v.work = turn.work \o <<Answer(n + 1)>>
    <3>1. <<Answer(n + 1)>> \in Seq(Messages)
      BY <1>3, AnswerIs DEF Inv, TypeInv
    <3>2. Add(turn, <<Answer(n + 1)>>).work = turn.work \o <<Answer(n + 1)>>
      BY <1>2, <3>1, AddIs
    <3>3. Around(messages, n, coming, finished)
      BY <1>3, AroundIs
    <3>4. Holds(Add(turn, <<Answer(n + 1)>>), turn.iter + 1, messages, n + 1, coming, finished)
      BY <1>2, <1>3, <3>3, AnswerFits
    <3> QED
      BY <2>1, <3>2, <3>4
  <2>3. Around(messages, n + 1, coming, finished)
    <3>1. n + 1 \in Nat /\ n <= n + 1 /\ coming \subseteq coming
      OBVIOUS
    <3> QED
      BY <1>3, <3>1, AroundIs, AroundLess
  <2>4. Holds(Add(v, <<User({})>>), turn.iter + 1, messages, n + 1, coming \ {}, finished)
    BY <1>2, <2>2, <2>3, UserFits
  <2>5. v \in TurnType /\ <<User({})>> \in Seq(Messages)
    BY <2>2, UserIs DEF Holds
  <2>6. Add(v, <<User({})>>).work = w
    BY <1>4, <2>2, <2>5, AddIs
  <2>7. coming \ {} = coming
    OBVIOUS
  <2> QED
    BY <1>5, <2>1, <2>4, <2>6, <2>7
<1>7. asked = <<Answer(n + 1), User({})>> /\ asked \in Seq(Messages)
      /\ turn.work \o asked = w
  <2>1. Answer(n + 1) \in Messages /\ User({}) \in Messages
    BY <1>3, AnswerIs, UserIs DEF Inv, TypeInv
  <2>2. asked = <<Answer(n + 1), User({})>>
    BY <1>1, <1>3
  <2>3. turn.work \in Seq(Messages)
    BY <1>2, TurnIs
  <2>4. turn.work \o <<Answer(n + 1), User({})>> = turn.work \o <<Answer(n + 1)>> \o <<User({})>>
    <3>1. PICK a \in Messages, b \in Messages : a = Answer(n + 1) /\ b = User({})
      BY <2>1
    <3>2. <<a, b>> = Append(<<a>>, b)
      OBVIOUS
    <3>3. <<a>> \in Seq(Messages) /\ <<b>> \in Seq(Messages)
      OBVIOUS
    <3>4. Append(<<a>>, b) = <<a>> \o <<b>>
      BY <3>3, AppendIsConcat
    <3>5. turn.work \o (<<a>> \o <<b>>) = (turn.work \o <<a>>) \o <<b>>
      BY <2>3, <3>3, ConcatAssociative
    <3> QED
      BY <3>1, <3>2, <3>4, <3>5
  <2>5. <<Answer(n + 1), User({})>> \in Seq(Messages)
    BY <2>1
  <2> QED
    BY <1>4, <2>2, <2>4, <2>5
<1>8. PICK x : x = Add(turn, asked)
  OBVIOUS
<1>9. x \in TurnType /\ x.work = w /\ x.iter = turn.iter /\ x.input = turn.input
      /\ x.recoveries = turn.recoveries
  <2>1. x \in TurnType /\ x.work = w /\ Near(turn, x)
    BY <1>2, <1>7, <1>8, AddIs
  <2>2. x.recoveries = turn.recoveries
    BY <1>2, <1>8 DEF Add, TurnType
  <2> QED
    BY <2>1, <2>2 DEF Near
<1>10. t = [x EXCEPT !.recoveries = @ + 1]
  BY <1>8
<1>11. turn.recoveries + 1 \in Recoveries
  BY <1>1, <1>2, Limits DEF TurnType, Recoveries
<1> HIDE DEF t
<1>12. t \in TurnType /\ t.work = w /\ t.iter = turn.iter /\ t.input = turn.input
  BY <1>9, <1>10, <1>11 DEF TurnType
<1>13. Holds(t, turn.iter + 1, messages, n + 1, coming, finished)
  BY <1>6, <1>12 DEF Holds
<1>14. Holds(t, turn.iter + 1, messages, made', coming', finished) /\ coming' \subseteq coming
  BY <1>1, <1>3, <1>13
<1>15. t.iter < MaxIterations /\ turn.iter + 1 <= t.iter + 1 /\ turn.iter + 1 \in Nat
  BY <1>2, <1>12
<1>16. Goes
  BY <1>1, <1>12, <1>14, <1>15, ProceedGoes
<1> QED
  BY <1>1, <1>2, <1>16, MakesIs DEF Iterates

LEMMA AnswerNoted ==
    ASSUME Inv, NEW m \in Requests, NEW d \in BOOLEAN, made' \in Nat, made' = made + 1, m.id = made',
           SetCheckpoint(m, d)
    PROVE  Noted
<1>1. world \in Worlds /\ made \in Nat /\ messages \in Seq(Messages)
      /\ Old(messages, made, coming)
  BY DEF Inv, TypeInv, SoundInv, Sound
<1>2. m.id \in Nat /\ m.id <= m.id
  BY RequestIs, <1>1
<1>3. Fresh(Settlement(m, d), made + 1)
  BY <1>1, <1>2, SettlementFits
<1>4. Apart(messages, Settlement(m, d))
  BY <1>1, <1>3, FreshApart
<1>5. /\ UNCHANGED <<messages, pending, unarchived, world>>
      /\ ckpt' = Checkpoint(m, d) /\ disk' = Saved(messages, ckpt', pending)
  BY DEF SetCheckpoint, Persist
<1> QED
  BY <1>2, <1>4, <1>5 DEF Noted

LEMMA FinalResponseIterates ==
    ASSUME Inv, FinalResponse
    PROVE  Iterates
<1>0. PICK t : t = Add(turn, <<Answer(made')>>)
  OBVIOUS
<1>1. PICK got \in Drainable(turn) :
         /\ coming' = coming \ got
         /\ \/ got # {} /\ Proceed(Inject(t, got))
            \/ got = {} /\ (Proceed(Merge(t, {})) \/ Proceed(t) \/ Leave(t))
  BY <1>0 DEF FinalResponse
<1>2. /\ Asking \/ phase = "retry"
      /\ made < world.responses /\ made' = made + 1 /\ finished' = finished
      /\ SetCheckpoint(Answer(made'), TRUE)
  BY DEF FinalResponse
<1>3. /\ Holds(turn, turn.iter, messages, made, coming, finished) /\ turn.iter \in Nat
      /\ turn.iter < MaxIterations /\ phase \in {"model", "tools", "retry"} /\ turn \in TurnType
  BY <1>2, AskingIs
<1>4. PICK n \in Nat : n = made /\ n + 1 <= world.responses
  BY <1>2, MakesIs
<1>5. PICK c : c = coming'
  OBVIOUS
<1>6. /\ got \subseteq coming /\ (turn.cycles < MaxCycles \/ got = {}) /\ c = coming \ got
      /\ coming' \subseteq coming
  BY <1>1, <1>5, DrainableIs
<1>7. PICK k \in Nat : k = turn.iter + 1
  BY <1>3
<1>8. t = Add(turn, <<Answer(n + 1)>>)
  BY <1>0, <1>2, <1>4
<1>9. Around(messages, n, coming, finished) /\ Around(messages, n + 1, coming, finished)
  <2>1. n + 1 \in Nat /\ n <= n + 1 /\ coming \subseteq coming
    OBVIOUS
  <2> QED
    BY <1>4, <2>1, AroundIs, AroundLess
<1>10. /\ Holds(t, k, messages, n + 1, coming, finished) /\ Near(turn, t)
       /\ t.cycles = turn.cycles
  <2>1. Holds(turn, turn.iter, messages, n, coming, finished)
    BY <1>3, <1>4
  <2> QED
    BY <1>3, <1>4, <1>7, <1>8, <1>9, <2>1, AnswerFits
<1>11. t.iter < MaxIterations /\ k <= t.iter + 1 /\ k <= MaxIterations /\ t.input = turn.input
  BY <1>3, <1>7, <1>10, Limits DEF Near
<1>12. Noted
  <2>1. Answer(n + 1) \in Requests /\ Answer(n + 1).id = n + 1
    BY <1>4, AnswerIs DEF Inv, TypeInv, Answer, Request
  <2>2. Answer(made') \in Requests /\ Answer(made').id = made' /\ made' \in Nat
    BY <1>2, <1>4, <2>1
  <2> QED
    BY <1>2, <2>2, AnswerNoted
<1>13. Goes
  <2>1. CASE Proceed(Inject(t, got))
    <3>1. Holds(Inject(t, got), k, messages, n + 1, c, finished) /\ Near(t, Inject(t, got))
      BY <1>6, <1>9, <1>10, InjectFits
    <3>2. Holds(Inject(t, got), k, messages, made', coming', finished)
      BY <1>2, <1>4, <1>5, <3>1
    <3>3. /\ Inject(t, got).iter < MaxIterations /\ k <= Inject(t, got).iter + 1
          /\ Inject(t, got).input = turn.input
      BY <1>11, <3>1 DEF Near
    <3> QED
      BY <1>6, <2>1, <3>2, <3>3, ProceedGoes
  <2>2. CASE got = {} /\ Proceed(Merge(t, {}))
    <3>1. Holds(Merge(t, {}), k, messages, n + 1, coming \ {}, finished) /\ Near(t, Merge(t, {}))
      BY <1>9, <1>10, MergeFits
    <3>2. Holds(Merge(t, {}), k, messages, made', coming', finished)
      BY <1>2, <1>4, <1>5, <1>6, <2>2, <3>1
    <3>3. /\ Merge(t, {}).iter < MaxIterations /\ k <= Merge(t, {}).iter + 1
          /\ Merge(t, {}).input = turn.input
      BY <1>11, <3>1 DEF Near
    <3> QED
      BY <1>6, <2>2, <3>2, <3>3, ProceedGoes
  <2>3. CASE got = {} /\ (Proceed(t) \/ Leave(t))
    <3>1. coming' = coming
      BY <1>1, <2>3
    <3>2. Holds(t, k, messages, made', coming', finished)
      BY <1>2, <1>4, <1>10, <3>1
    <3> QED
      BY <1>6, <1>11, <2>3, <3>2, ProceedGoes, LeaveGoes
  <2> QED
    BY <1>1, <2>1, <2>2, <2>3
<1> QED
  BY <1>2, <1>3, <1>12, <1>13, MakesIs DEF Iterates

LEMMA MaxIterationsIterates ==
    ASSUME Inv, MaxIterationsReached
    PROVE  Iterates
<1>0. PICK t : t = AppendFinal(turn)
  OBVIOUS
<1>1. PICK got \in Drainable(t) : coming' = coming \ got /\ Leave(Inject(t, got))
  BY <1>0 DEF MaxIterationsReached
<1>2. /\ phase = "model" /\ turn.iter = MaxIterations
      /\ KeepSession /\ made' = made /\ finished' = finished
  BY DEF MaxIterationsReached
<1>3. Holds(turn, MaxIterations, messages, made, coming, finished)
  <2>1. Working(turn, phase, messages, made, coming, finished)
    BY DEF Inv, TurnInv
  <2> QED
    BY <1>2, <2>1 DEF Working, Whole, Allowed, Holds
<1>4. Holds(t, MaxIterations, messages, made, coming, finished) /\ Near(turn, t)
  BY <1>0, <1>3, AroundIs, FinalFits, Limits
<1>5. PICK c : c = coming'
  OBVIOUS
<1>6. /\ got \subseteq coming /\ (t.cycles < MaxCycles \/ got = {}) /\ c = coming \ got
      /\ coming' \subseteq coming
  BY <1>1, <1>5, DrainableIs
<1>7. Holds(Inject(t, got), MaxIterations, messages, made, c, finished) /\ Near(t, Inject(t, got))
  BY <1>4, <1>6, AroundIs, InjectFits, Limits
<1>8. /\ Holds(Inject(t, got), MaxIterations, messages, made', coming', finished)
      /\ Inject(t, got).input = turn.input
  BY <1>2, <1>4, <1>5, <1>7 DEF Near
<1>9. Goes
  <2>1. MaxIterations <= MaxIterations /\ MaxIterations \in Nat
    BY Limits
  <2> QED
    BY <1>1, <1>6, <1>8, <2>1, LeaveGoes
<1> QED
  BY <1>2, <1>9, MadeIs DEF Iterates

LEMMA JoinAssociative ==
    \A f, g, h \in Seq(Messages) : (f \o g) \o h = f \o (g \o h)
<1> TAKE f, g, h \in Seq(Messages)
<1> QED
  BY ConcatAssociative

LEMMA ResultsAre ==
    ASSUME world \in Worlds, NEW m \in Requests
    PROVE  /\ Results(m) \in Seq(Messages) /\ \A i \in DOMAIN Results(m) : Results(m)[i].role # "assistant"
           /\ <<m>> \in Seq(Messages) /\ Settlement(m, TRUE) = <<m>> \o Results(m)
<1>1. m \in Messages /\ m.calls \in Nat /\ m.id \in Ids /\ m.calls <= world.calls
  BY RequestIs
<1>2. world.calls \in Nat
  BY WorldIs
<1>3. \A c \in 1..m.calls : Result(m.id, c) \in Messages /\ Result(m.id, c).role = "tool"
  BY <1>1, <1>2, ToolIs
<1>4. Results(m) \in Seq(Messages)
  BY <1>1, <1>3, IsASeq DEF Results
<1>5. \A i \in DOMAIN Results(m) : Results(m)[i].role # "assistant"
  BY <1>3 DEF Results
<1>6. Settlement(m, TRUE) = <<m>> \o Results(m)
  BY DEF Settlement, Results
<1>7. <<m>> \in Seq(Messages)
  BY <1>1
<1> QED
  BY <1>4, <1>5, <1>6, <1>7

LEMMA JoinSplits ==
    ASSUME NEW g \in Seq(Messages), NEW h \in Seq(Messages), NEW f, Apart(f, g \o h)
    PROVE  Apart(f, g) /\ Apart(f, h)
<1>1. PICK r \in Nat : r = Len(g)
  BY LenProperties
<1>2. PICK l \in Nat : l = Len(h)
  BY LenProperties
<1>3. /\ DOMAIN g = 1..r /\ DOMAIN h = 1..l /\ DOMAIN (g \o h) = 1..(r + l)
      /\ \A i \in DOMAIN g : (g \o h)[i] = g[i]
      /\ \A i \in (r + 1)..(r + l) : (g \o h)[i] = h[i - r]
  BY <1>1, <1>2, JoinIs
<1>4. \A i \in 1..r : i \in 1..(r + l)
  OBVIOUS
<1>5. \A i \in 1..l : r + i \in (r + 1)..(r + l) /\ r + i \in 1..(r + l) /\ (r + i) - r = i
  OBVIOUS
<1>6. \A i \in 1..l : (g \o h)[r + i] = h[i]
  BY <1>3, <1>5
<1> QED
  BY <1>3, <1>4, <1>5, <1>6 DEF Apart

LEMMA LastIs ==
    ASSUME NEW S, NEW w \in Seq(S), w # <<>>
    PROVE  Last(w) \in S /\ \E j \in DOMAIN w : Last(w) = w[j]
<1>1. PICK n \in Nat : n = Len(w)
  BY LenProperties
<1>2. n \in 1..n /\ DOMAIN w = 1..n
  BY <1>1, EmptySeq
<1> QED
  BY <1>1, <1>2, ElementOfSeq DEF Last

LEMMA ToolsAre ==
    ASSUME Inv, phase = "tools"
    PROVE  LET m == Last(turn.work)
               t == Add(turn, Results(m))
           IN  /\ Holds(t, turn.iter + 1, messages, made, coming, finished) /\ Near(turn, t)
               /\ turn.iter < MaxIterations /\ turn.iter \in Nat
               /\ m \in Requests /\ m.id <= made /\ Apart(messages, Settlement(m, TRUE))
<1>1. Working(turn, phase, messages, made, coming, finished)
  BY DEF Inv, TurnInv
<1>2. PICK m : m = Last(turn.work)
  OBVIOUS
<1>3. /\ turn \in TurnType /\ turn.work # <<>> /\ m \in Requests /\ turn.iter < MaxIterations
      /\ Fit(turn.work \o Results(m), messages, made, coming, finished)
      /\ Count(turn.work) <= turn.iter + 1
  BY <1>1, <1>2 DEF Working, Whole, Allowed
<1>4. world \in Worlds /\ messages \in Seq(Messages) /\ made \in Nat
  BY DEF Inv, TypeInv
<1>5. turn.work \in Seq(Messages) /\ turn.iter \in Nat
  BY <1>3, TurnIs
<1>6. /\ Results(m) \in Seq(Messages) /\ Settlement(m, TRUE) = <<m>> \o Results(m)
      /\ \A i \in DOMAIN Results(m) : Results(m)[i].role # "assistant"
      /\ <<m>> \in Seq(Messages)
  BY <1>3, <1>4, ResultsAre
<1>7. /\ Add(turn, Results(m)) \in TurnType /\ Near(turn, Add(turn, Results(m)))
      /\ Add(turn, Results(m)).work = turn.work \o Results(m)
  BY <1>3, <1>6, AddIs
<1>8. Count(turn.work \o Results(m)) = Count(turn.work)
  BY <1>5, <1>6, CountJoin
<1>9. Holds(Add(turn, Results(m)), turn.iter + 1, messages, made, coming, finished)
  BY <1>3, <1>7, <1>8 DEF Holds
<1>10. PICK j \in DOMAIN turn.work : m = turn.work[j]
  BY <1>2, <1>3, <1>5, LastIs
<1>11. j \in DOMAIN (turn.work \o Results(m)) /\ (turn.work \o Results(m))[j] = m
  <2>1. /\ DOMAIN turn.work = 1..Len(turn.work) /\ Len(turn.work) \in Nat /\ Len(Results(m)) \in Nat
        /\ DOMAIN (turn.work \o Results(m)) = 1..(Len(turn.work) + Len(Results(m)))
        /\ \A i \in DOMAIN turn.work : (turn.work \o Results(m))[i] = turn.work[i]
    BY <1>5, <1>6, JoinIs
  <2>2. PICK a \in Nat, b \in Nat : a = Len(turn.work) /\ b = Len(Results(m))
    BY <2>1
  <2>3. j \in 1..a /\ DOMAIN (turn.work \o Results(m)) = 1..(a + b)
    BY <1>10, <2>1, <2>2
  <2>4. j \in 1..(a + b)
    BY <2>3
  <2>5. (turn.work \o Results(m))[j] = turn.work[j]
    BY <1>10, <2>1
  <2> QED
    BY <1>10, <2>3, <2>4, <2>5
<1>12. m.role = "assistant"
  BY <1>3, <1>4, RequestIs
<1>13. m.id <= made
  <2>1. Old(turn.work \o Results(m), made, coming)
    BY <1>3 DEF Fit
  <2> QED
    BY <1>11, <1>12, <2>1 DEF Old
<1>14. Apart(messages, turn.work) /\ Apart(messages, Results(m))
  BY <1>3, <1>5, <1>6, JoinSplits DEF Fit
<1>15. Apart(messages, <<m>>)
  <2>1. \A i \in DOMAIN messages : ~Repeats(messages[i], m)
    BY <1>10, <1>14 DEF Apart
  <2> QED
    BY <2>1, LoneFits
<1>16. Apart(messages, <<m>> \o Results(m))
  BY <1>6, <1>14, <1>15, JoinFits
<1> QED
  BY <1>2, <1>3, <1>5, <1>6, <1>7, <1>9, <1>13, <1>16

LEMMA ToolsDoneIterates ==
    ASSUME Inv, ToolsDone
    PROVE  Iterates
<1>1. PICK m : m = Last(turn.work)
  OBVIOUS
<1>2. PICK u : u = Add(turn, Results(m))
  OBVIOUS
<1>3. PICK t : t = [u EXCEPT !.empties = 0, !.recoveries = 0]
  OBVIOUS
<1>4. /\ phase = "tools" /\ SetCheckpoint(m, TRUE) /\ made' = made /\ finished' = finished
      /\ \E got \in Drainable(t) : coming' = coming \ got /\ Proceed(Inject(t, got))
  BY <1>1, <1>2, <1>3 DEF ToolsDone
<1>5. /\ Holds(u, turn.iter + 1, messages, made, coming, finished) /\ Near(turn, u)
      /\ turn.iter < MaxIterations /\ turn.iter \in Nat
      /\ m \in Requests /\ m.id <= made /\ Apart(messages, Settlement(m, TRUE))
  BY <1>1, <1>2, <1>4, ToolsAre
<1>6. t \in TurnType /\ t.work = u.work /\ t.iter = u.iter /\ t.input = u.input
  <2>1. u \in TurnType /\ 0 \in Recoveries
    BY <1>5, Limits DEF Holds, Recoveries
  <2> QED
    BY <1>3, <2>1 DEF TurnType
<1>7. /\ Holds(t, turn.iter + 1, messages, made, coming, finished) /\ t.input = turn.input
      /\ t.iter < MaxIterations /\ turn.iter + 1 <= t.iter + 1 /\ turn.iter + 1 \in Nat
  BY <1>5, <1>6 DEF Holds, Near
<1>8. Goes
  BY <1>4, <1>7, AroundIs, DrainGoes
<1>9. Noted
  <2>1. /\ UNCHANGED <<messages, pending, unarchived, world>>
        /\ ckpt' = Checkpoint(m, TRUE) /\ disk' = Saved(messages, ckpt', pending)
    BY <1>4 DEF SetCheckpoint, Persist
  <2> QED
    BY <1>4, <1>5, <2>1 DEF Noted
<1> QED
  BY <1>4, <1>8, <1>9, MadeIs DEF Iterates

LEMMA ToolsFatalIterates ==
    ASSUME Inv, ToolsFatal
    PROVE  Iterates
<1>1. PICK t : t = Add(turn, Results(Last(turn.work)))
  OBVIOUS
<1>2. /\ phase = "tools" /\ KeepSession /\ made' = made /\ finished' = finished
      /\ (Proceed(t) /\ coming' = coming) \/ EndWithDrain(AppendFinal(t))
  BY <1>1 DEF ToolsFatal
<1>3. /\ Holds(t, turn.iter + 1, messages, made, coming, finished) /\ Near(turn, t)
      /\ turn.iter < MaxIterations /\ turn.iter \in Nat
  BY <1>1, <1>2, ToolsAre
<1>4. PICK k \in Nat : k = turn.iter + 1
  BY <1>3
<1>5. t.iter < MaxIterations /\ k <= t.iter + 1 /\ t.input = turn.input
  BY <1>3, <1>4 DEF Near
<1>6. CASE Proceed(t) /\ coming' = coming
  <2>1. Holds(t, k, messages, made', coming', finished) /\ coming' \subseteq coming
    BY <1>2, <1>3, <1>4, <1>6
  <2>2. Goes
    BY <1>5, <1>6, <2>1, ProceedGoes
  <2> QED
    BY <1>2, <2>2, MadeIs DEF Iterates
<1>7. CASE EndWithDrain(AppendFinal(t))
  <2>1. Holds(AppendFinal(t), k, messages, made, coming, finished) /\ Near(t, AppendFinal(t))
    BY <1>3, <1>4, AroundIs, FinalFits
  <2>2. /\ AppendFinal(t).iter < MaxIterations /\ k <= AppendFinal(t).iter + 1
        /\ AppendFinal(t).input = turn.input
    BY <1>5, <2>1 DEF Near
  <2>3. Goes
    BY <1>2, <1>7, <2>1, <2>2, AroundIs, DrainGoes
  <2> QED
    BY <1>2, <2>3, MadeIs DEF Iterates
<1> QED
  BY <1>2, <1>6, <1>7

LEMMA RequestToolsIterates ==
    ASSUME Inv, NEW k \in 1..world.calls, RequestTools(k)
    PROVE  Iterates
<1>1. /\ Asking /\ made < world.responses /\ made' = made + 1
      /\ turn' = Add(turn, <<Request(made', k)>>) /\ SetCheckpoint(Request(made', k), FALSE)
      /\ phase' = "tools" /\ coming' = coming /\ finished' = finished
  BY DEF RequestTools
<1>2. /\ Holds(turn, turn.iter, messages, made, coming, finished) /\ turn.iter \in Nat
      /\ turn.iter < MaxIterations /\ phase \in {"model", "tools", "retry"} /\ turn \in TurnType
  BY <1>1, AskingIs
<1>3. PICK n \in Nat : n = made /\ n + 1 <= world.responses /\ made' = n + 1
  BY <1>1, MakesIs
<1>4. PICK m : m = Request(n + 1, k)
  OBVIOUS
<1>5. world \in Worlds /\ messages \in Seq(Messages) /\ turn.work \in Seq(Messages)
  BY <1>2, TurnIs DEF Inv, TypeInv
<1>6. m \in Requests /\ m.id = n + 1
  <2>1. n + 1 \in 1..world.responses /\ k \in 0..world.calls
    BY <1>3, <1>5, WorldIs
  <2> QED
    BY <1>4, <2>1 DEF Requests, Request
<1>7. m \in Messages /\ m.role = "assistant"
  BY <1>5, <1>6, RequestIs
<1>8. /\ Results(m) \in Seq(Messages) /\ Settlement(m, TRUE) = <<m>> \o Results(m)
      /\ <<m>> \in Seq(Messages)
  BY <1>5, <1>6, ResultsAre
<1>9. turn' = Add(turn, <<m>>) /\ SetCheckpoint(m, FALSE)
  BY <1>1, <1>3, <1>4
<1>10. PICK u : u = turn'
  OBVIOUS
<1>11. u \in TurnType /\ u.work = turn.work \o <<m>> /\ Near(turn, u)
  BY <1>2, <1>8, <1>9, <1>10, AddIs
<1>12. u.work = Append(turn.work, m)
  BY <1>5, <1>7, <1>11, AppendIsConcat
<1>13. u.work # <<>> /\ Last(u.work) = m
  <2>1. PICK l \in Nat : l = Len(turn.work)
    BY <1>5, LenProperties
  <2>2. Len(u.work) = l + 1 /\ u.work[l + 1] = m
    BY <1>5, <1>7, <1>12, <2>1, AppendProperties
  <2> QED
    BY <2>2 DEF Last
<1>14. PICK x \in Seq(Messages) : x = Settlement(m, TRUE)
  BY <1>5, <1>6, SettlementIs DEF IsSettlement
<1>15. u.work \o Results(m) = turn.work \o x
  <2>1. (turn.work \o <<m>>) \o Results(m) = turn.work \o (<<m>> \o Results(m))
    <3>1. /\ turn.work \in Seq(Messages) /\ <<m>> \in Seq(Messages)
          /\ Results(m) \in Seq(Messages)
      BY <1>5, <1>8
    <3> QED
      BY <3>1, JoinAssociative, Zenon
  <2>2. x = <<m>> \o Results(m)
    BY <1>8, <1>14
  <2> QED
    BY <1>11, <2>1, <2>2
<1>16. Fit(turn.work \o x, messages, n + 1, coming, finished)
  <2>1. Answered(x) /\ Once(x)
    BY <1>5, <1>6, <1>14, SettlementAnswered, SettlementOnce
  <2>2. Fresh(x, n + 1)
    <3>1. n + 1 \in Nat /\ m.id <= n + 1
      BY <1>6
    <3> QED
      BY <1>5, <1>6, <1>14, <3>1, SettlementFits
  <2>3. Fit(turn.work, messages, n, coming, finished) /\ Old(messages, n, coming)
    BY <1>2, <1>3, AroundIs DEF Holds, Around
  <2> QED
    BY <1>5, <2>1, <2>2, <2>3, FreshFits
<1>17. Count(u.work) <= u.iter + 1
  <2>1. Count(u.work) <= Count(turn.work) + 1 /\ Count(turn.work) <= turn.iter
    BY <1>2, <1>5, <1>7, <1>12, CountAppend DEF Holds
  <2>2. Count(u.work) \in Nat /\ Count(turn.work) \in Nat /\ u.iter = turn.iter
    BY <1>5, <1>11, TurnIs, CountIs DEF Near
  <2>3. PICK a \in Nat, b \in Nat : a = Count(u.work) /\ b = Count(turn.work)
    BY <2>2
  <2>4. a <= b + 1 /\ b <= turn.iter
    BY <2>1, <2>3
  <2>5. a <= turn.iter + 1
    BY <1>2, <2>4
  <2> QED
    BY <2>2, <2>3, <2>5
<1>18. Working(u, "tools", messages, n + 1, coming, finished)
  <2>1. Fit(u.work \o Results(m), messages, n + 1, coming, finished)
    BY <1>15, <1>16
  <2>2. u.iter < MaxIterations
    BY <1>2, <1>11 DEF Near
  <2> QED
    BY <1>6, <1>11, <1>13, <1>17, <2>1, <2>2 DEF Working, Whole, Allowed
<1>19. Tools
  BY <1>1, <1>3, <1>10, <1>11, <1>18 DEF Tools, Near
<1>20. Noted
  <2>1. made' \in Nat /\ made' = made + 1 /\ m.id = made'
    BY <1>1, <1>3, <1>6
  <2> QED
    BY <1>6, <1>9, <2>1, AnswerNoted
<1> QED
  BY <1>1, <1>2, <1>19, <1>20, MakesIs DEF Iterates

-----------------------------------------------------------------------------
(***************************************************************************)
(* Every step keeps the invariant.                                         *)
(***************************************************************************)
LEMMA SameMessages ==
    ASSUME world' = world
    PROVE  /\ Messages' = Messages /\ Requests' = Requests /\ Checkpoints' = Checkpoints
           /\ Files' = Files /\ TurnType' = TurnType
<1>1. Requests' = Requests
  BY DEF Requests
<1>2. Messages' = Messages
  BY <1>1 DEF Messages
<1>3. Checkpoints' = Checkpoints
  BY <1>1 DEF Checkpoints
<1>4. TurnType' = TurnType
  BY <1>2 DEF TurnType, Works
<1> QED
  BY <1>1, <1>2, <1>3, <1>4 DEF Files

LEMMA WorkingSame ==
    ASSUME world' = world, NEW t, NEW p, NEW ms, NEW n, NEW com, NEW done,
           Working(t, p, ms, n, com, done)
    PROVE  Working(t, p, ms, n, com, done)'
  BY SameMessages DEF Working, Fit

LEMMA SoundMore ==
    ASSUME world \in Worlds, NEW ms \in Seq(Messages), NEW c \in Checkpoints, NEW p,
           NEW n \in Nat, NEW com, NEW done, NEW busy, NEW torn,
           Sound(ms, c, p, n, com, done, busy, torn),
           NEW n2 \in Nat, n <= n2, NEW less, less \subseteq com, NEW fewer, fewer \subseteq busy
    PROVE  Sound(ms, c, p, n2, less, done, fewer, torn)
<1>1. Old(ms, n2, less)
  BY OldLess DEF Sound
<1>2. NeverFalse(ms, fewer)
  BY NeverFalseLess DEF Sound
<1>3. c # None => c.message.id <= n2
  <2> SUFFICES ASSUME c # None
               PROVE  c.message.id <= n2
    OBVIOUS
  <2>1. c.message \in Requests /\ c.message.id <= n
    BY DEF Checkpoints, Sound
  <2>2. c.message.id \in Nat
    BY <2>1, RequestIs
  <2> QED
    BY <2>1, <2>2
<1> QED
  BY <1>1, <1>2, <1>3 DEF Sound

LEMMA CheckpointIs ==
    ASSUME NEW m \in Requests, NEW d \in BOOLEAN
    PROVE  /\ Checkpoint(m, d) \in Checkpoints /\ Checkpoint(m, d).message = m
           /\ Materialized(Checkpoint(m, d)) = Settlement(m, d)
<1>1. Checkpoint(m, d) \in Checkpoints
  BY DEF Checkpoints, Checkpoint
<1> QED
  BY <1>1 DEF Checkpoint, Materialized, Settlement

LEMMA SoundNoted ==
    ASSUME NEW m \in Requests, NEW d \in BOOLEAN, NEW ms, NEW c, NEW p, NEW n, NEW com,
           NEW done, NEW busy, NEW torn, Sound(ms, c, p, n, com, done, busy, torn),
           m.id <= n, Apart(ms, Settlement(m, d))
    PROVE  Sound(ms, Checkpoint(m, d), p, n, com, done, busy, torn)
  BY CheckpointIs DEF Sound

LEMMA SavedIs ==
    ASSUME NEW ms, NEW c, NEW p
    PROVE  /\ Saved(ms, c, p).messages = ms /\ Saved(ms, c, p).ckpt = c /\ Saved(ms, c, p).pending = p
           /\ ms \in Seq(Messages) /\ c \in Checkpoints /\ p \in BOOLEAN => Saved(ms, c, p) \in Files
  BY DEF Saved, Files

LEMMA FileIs ==
    ASSUME TypeInv
    PROVE  /\ disk.messages \in Seq(Messages) /\ disk.ckpt \in Checkpoints
           /\ disk.pending \in BOOLEAN
  BY DEF TypeInv, Files

LEMMA IterateHolds ==
    ASSUME Inv, Iterates
    PROVE  Inv'
<1>1. /\ phase \in {"model", "tools", "retry"}
      /\ Goes \/ Tools
      /\ finished' = finished
      /\ made' \in Nat /\ made <= made' /\ made' <= world.responses
      /\ UNCHANGED <<messages, pending, unarchived, world>>
  BY DEF Iterates, KeepSession, Noted
<1>2. /\ phase' \in {"model", "tools", "retry", "save"} /\ turn'.input = turn.input
      /\ Working(turn', phase', messages, made', coming', finished)
      /\ coming' \subseteq coming
  BY <1>1 DEF Goes, Tools
<1>3. /\ Messages' = Messages /\ Requests' = Requests /\ Checkpoints' = Checkpoints
      /\ Files' = Files
  BY <1>1, SameMessages
<1>4. /\ world \in Worlds /\ messages \in Seq(Messages) /\ ckpt \in Checkpoints
      /\ pending \in BOOLEAN /\ disk \in Files /\ made \in Nat /\ coming \in SUBSET Inputs
      /\ finished \in SUBSET Inputs /\ coming \cap finished = {} /\ unarchived \in BOOLEAN
  BY DEF Inv, TypeInv
<1>5. Busy' = Busy
  BY <1>1, <1>2 DEF Busy
<1>6. PICK n, com : n = made' /\ com = coming' /\ n \in Nat /\ made <= n /\ com \subseteq coming
  BY <1>1, <1>2
<1>7. /\ Sound(messages, ckpt, pending, n, com, finished, Busy, unarchived)
      /\ Sound(disk.messages, disk.ckpt, disk.pending, n, com, finished, Busy, unarchived)
  <2>1. TypeInv /\ SoundInv /\ Busy \subseteq Busy
    BY DEF Inv
  <2> QED
    BY <1>4, <1>6, <2>1, FileIs, SoundMore DEF SoundInv
<1>8. /\ ckpt' \in Checkpoints /\ disk' \in Files
      /\ Sound(messages, ckpt', pending, n, com, finished, Busy, unarchived)
      /\ Sound(disk'.messages, disk'.ckpt, disk'.pending, n, com, finished, Busy, unarchived)
  <2>1. CASE KeepSession
    BY <1>4, <1>7, <2>1 DEF KeepSession
  <2>2. CASE Noted
    <3>1. PICK m \in Requests, d \in BOOLEAN :
              m.id <= made' /\ ckpt' = Checkpoint(m, d) /\ Apart(messages, Settlement(m, d))
      BY <2>2 DEF Noted
    <3>2. Sound(messages, ckpt', pending, n, com, finished, Busy, unarchived)
      BY <1>6, <1>7, <3>1, SoundNoted
    <3>3. disk' = Saved(messages, ckpt', pending)
      BY <2>2 DEF Noted
    <3>4. ckpt' \in Checkpoints
      BY <3>1, CheckpointIs
    <3>5. /\ disk'.messages = messages /\ disk'.ckpt = ckpt' /\ disk'.pending = pending
          /\ disk' \in Files
      BY <1>4, <3>3, <3>4, SavedIs
    <3> QED
      BY <3>2, <3>4, <3>5
  <2> QED
    BY <2>1, <2>2 DEF Iterates
<1>9. TypeInv'
  BY <1>1, <1>2, <1>3, <1>4, <1>8 DEF TypeInv, Phases
<1>10. SoundInv'
  BY <1>1, <1>5, <1>6, <1>8 DEF SoundInv
<1>11. TurnInv'
  <2>1. PICK t, p : t = turn' /\ p = phase'
    OBVIOUS
  <2>2. Working(t, p, messages, n, com, finished)
    BY <1>2, <1>6, <2>1
  <2>3. PICK ms, done : ms = messages /\ done = finished
    OBVIOUS
  <2>4. Working(t, p, ms, n, com, done)
    BY <2>2, <2>3
  <2>5. Working(t, p, ms, n, com, done)'
    BY <1>1, <2>4, WorkingSame
  <2>6. Working(turn, phase, messages, made, coming, finished)'
    BY <1>1, <1>6, <2>1, <2>3, <2>5
  <2>7. /\ turn.input \in Inputs /\ turn.input \notin coming \cup finished
        /\ Has(messages, turn.input)
    BY <1>1 DEF Inv, TurnInv, InTurn
  <2>8. turn'.input \in Inputs /\ turn'.input \notin coming' \cup finished'
    BY <1>1, <1>2, <2>7
  <2>9. Has(messages', turn'.input)
    BY <1>1, <1>2, <2>7
  <2> QED
    BY <1>2, <2>6, <2>8, <2>9 DEF TurnInv
<1> QED
  BY <1>9, <1>10, <1>11 DEF Inv


LEMMA EmptyTurn ==
    ASSUME NEW t \in TurnType, t.work = <<>>, NEW p, p \notin {"tools", "retry"},
           NEW ms, NEW n, NEW com, NEW done
    PROVE  Working(t, p, ms, n, com, done)
<1>1. DOMAIN t.work = {}
  OBVIOUS
<1>2. Fit(t.work, ms, n, com, done)
  <2>1. t.work \in Seq(Messages)
    BY TurnIs
  <2>2. Answered(t.work) /\ Once(t.work) /\ Apart(ms, t.work) /\ Old(t.work, n, com)
        /\ Plain(t.work, done)
    BY <1>1 DEF Answered, Once, Apart, Old, Plain
  <2> QED
    BY <2>1, <2>2 DEF Fit
<1>3. Count(t.work) = 0
  <2>1. Responses(t.work) = {}
    BY <1>1 DEF Responses
  <2> QED
    BY <2>1, FS_EmptySet DEF Count
<1>4. t.iter >= 0 /\ MaxIterations >= 0
  BY TurnIs, Limits
<1> QED
  BY <1>2, <1>3, <1>4 DEF Working, Whole, Allowed

LEMMA NoTurnIs == NoTurn \in TurnType /\ NoTurn.work = <<>> /\ NoTurn.input = None
<1>1. /\ None \in InputNames /\ 0 \in Bits /\ {} \in Openings /\ <<>> \in Works
      /\ 0 \in Iters /\ 0 \in Cycles /\ 0 \in Nat /\ 0 \in Recoveries
  BY Limits DEF InputNames, Bits, Openings, Works, Iters, Cycles, Recoveries
<1> QED
  BY <1>1 DEF NoTurn, TurnType

LEMMA StepInv ==
    ASSUME Inv, world' = world, messages' \in Seq(Messages), ckpt' \in Checkpoints,
           pending' \in BOOLEAN, disk' \in Files, phase' \in Phases, made' = made,
           coming' \subseteq coming, finished' \in SUBSET Inputs, coming' \cap finished' = {},
           unarchived' \in BOOLEAN,
           Sound(messages', ckpt', pending', made, coming', finished', Busy', unarchived'),
           Sound(disk'.messages, disk'.ckpt, disk'.pending, made, coming', finished', Busy',
                 unarchived'),
           TurnInv'
    PROVE  Inv'
<1>1. /\ Messages' = Messages /\ Requests' = Requests /\ Checkpoints' = Checkpoints
      /\ Files' = Files
  BY SameMessages
<1>2. TypeInv'
  <2>1. /\ world \in Worlds /\ made \in Nat /\ made <= world.responses
        /\ coming \in SUBSET Inputs
    BY DEF Inv, TypeInv
  <2> QED
    BY <1>1, <2>1 DEF TypeInv
<1>3. SoundInv'
  BY DEF SoundInv
<1> QED
  BY <1>2, <1>3 DEF Inv

\* A turn ends.
LEMMA IdleInv ==
    ASSUME Inv, world' = world, messages' \in Seq(Messages), ckpt' \in Checkpoints,
           pending' \in BOOLEAN, disk' \in Files, phase' = "idle", turn' = NoTurn, made' = made,
           coming' = coming, finished' \in SUBSET Inputs, coming \cap finished' = {},
           unarchived' \in BOOLEAN,
           Sound(messages', ckpt', pending', made, coming, finished', finished', unarchived'),
           Sound(disk'.messages, disk'.ckpt, disk'.pending, made, coming, finished', finished',
                 unarchived')
    PROVE  Inv'
<1>1. NoTurn \in TurnType /\ NoTurn.work = <<>> /\ NoTurn.input = None
  BY NoTurnIs
<1>2. Busy' = finished'
  BY <1>1 DEF Busy
<1>3. TurnInv'
  <2>1. PICK t, ms, n, com, done : /\ t = NoTurn /\ ms = messages' /\ n = made' /\ com = coming'
                                   /\ done = finished'
    OBVIOUS
  <2>2. Working(t, "idle", ms, n, com, done)
    BY <1>1, <2>1, EmptyTurn
  <2>3. Working(t, "idle", ms, n, com, done)'
    BY <2>2, WorkingSame
  <2>4. Working(turn, phase, messages, made, coming, finished)'
    BY <2>1, <2>3
  <2> QED
    BY <1>1, <2>4 DEF TurnInv, InTurn
<1>4. "idle" \in Phases
  BY DEF Phases
<1> QED
  BY <1>2, <1>3, <1>4, StepInv

LEMMA LegalSound ==
    ASSUME NEW h, NEW n, NEW com, NEW done, NEW torn, Legal(h, n, com, done, torn)
    PROVE  Sound(h, None, FALSE, n, com, done, done, torn)
  BY DEF Legal, Sound

LEMMA SoundTorn ==
    ASSUME NEW ms, NEW c, NEW p, NEW n, NEW com, NEW done, NEW busy, NEW torn,
           Sound(ms, c, p, n, com, done, busy, torn)
    PROVE  Sound(ms, c, p, n, com, done, busy, TRUE)
  BY DEF Sound

LEMMA SoundNow ==
    ASSUME Inv
    PROVE  /\ Sound(messages, ckpt, pending, made, coming, finished, finished, unarchived)
           /\ Sound(disk.messages, disk.ckpt, disk.pending, made, coming, finished, finished,
                    unarchived)
<1>1. finished \subseteq Busy /\ TypeInv /\ SoundInv /\ made <= made
  BY DEF Busy, Inv, TypeInv
<1> QED
  BY <1>1, FileIs, SoundMore DEF SoundInv, TypeInv

LEMMA FailTurnHolds ==
    ASSUME Inv, FailTurn
    PROVE  Inv'
<1>1. UNCHANGED <<messages, ckpt, pending, disk, made, coming, finished, unarchived, world>>
      /\ phase' = "idle" /\ turn' = NoTurn
  BY DEF FailTurn, Abandon, KeepSession
<1>2. TypeInv
  BY DEF Inv
<1> QED
  BY <1>1, <1>2, SoundNow, IdleInv DEF TypeInv

LEMMA CrashHolds ==
    ASSUME Inv, Crash
    PROVE  Inv'
<1>1. UNCHANGED <<disk, made, coming, finished, unarchived, world>>
      /\ phase' = "idle" /\ turn' = NoTurn
      /\ messages' = disk.messages /\ ckpt' = disk.ckpt /\ pending' = disk.pending
  BY DEF Crash, Abandon
<1>2. TypeInv
  BY DEF Inv
<1>3. disk.messages \in Seq(Messages) /\ disk.ckpt \in Checkpoints /\ disk.pending \in BOOLEAN
  BY <1>2, FileIs
<1> QED
  BY <1>1, <1>2, <1>3, SoundNow, IdleInv DEF TypeInv

LEMMA CancelTurnHolds ==
    ASSUME Inv, CancelTurn
    PROVE  Inv'
<1>1. UNCHANGED <<made, coming, finished, unarchived, world>>
      /\ phase' = "idle" /\ turn' = NoTurn
  BY DEF CancelTurn, Abandon
<1>2. TypeInv
  BY DEF Inv
<1>3. CASE ckpt = None
  <2>1. UNCHANGED <<messages, ckpt, pending, disk>>
    BY <1>3 DEF CancelTurn, KeepSession
  <2> QED
    BY <1>1, <1>2, <2>1, SoundNow, IdleInv DEF TypeInv
<1>4. CASE ckpt # None
  <2>1. messages' = RestoreCheckpoint(messages, ckpt) /\ ckpt' = None /\ pending' = FALSE
        /\ disk' = Saved(messages', ckpt', pending')
    BY <1>4 DEF CancelTurn, Persist
  <2>2. PICK s : s = Saved(messages, ckpt, pending)
    OBVIOUS
  <2>3. s.messages = messages /\ s.ckpt = ckpt /\ s.pending = pending
    BY <2>2, SavedIs
  <2>4. messages' = Restored(s)
    BY <1>4, <2>1, <2>3 DEF Restored
  <2>5. Legal(Restored(s), made, coming, finished, unarchived)
    <3>1. /\ world \in Worlds /\ messages \in Seq(Messages) /\ ckpt \in Checkpoints
          /\ pending \in BOOLEAN /\ made \in Nat /\ finished \subseteq finished
      BY <1>2 DEF TypeInv
    <3> QED
      BY <2>3, <3>1, SoundNow, RestoredIs
  <2>6. PICK h : h = messages' /\ Legal(h, made, coming, finished, unarchived)
    BY <2>4, <2>5
  <2>7. /\ Sound(h, None, FALSE, made, coming, finished, finished, unarchived)
        /\ h \in Seq(Messages) /\ None \in Checkpoints
    BY <2>6, LegalSound DEF Legal, Checkpoints
  <2>8. disk' = [messages |-> h, ckpt |-> None, pending |-> FALSE]
    BY <2>1, <2>6 DEF Saved
  <2>9. /\ disk'.messages = h /\ disk'.ckpt = None /\ disk'.pending = FALSE
        /\ disk' \in Files
    BY <2>7, <2>8 DEF Files
  <2> QED
    BY <1>1, <1>2, <2>1, <2>6, <2>7, <2>9, IdleInv DEF TypeInv
<1> QED
  BY <1>3, <1>4


LEMMA SavedWorkIs ==
    ASSUME Inv, phase = "save"
    PROVE  LET h == messages \o TurnMessages(turn)
           IN  /\ Legal(h, made, coming, Busy, unarchived)
               /\ h # <<>> => \/ h = messages
                              \/ Carried(Last(h)) \cap finished = {}
<1>1. /\ world \in Worlds /\ messages \in Seq(Messages) /\ turn \in TurnType
      /\ turn.input \in Inputs /\ Has(messages, turn.input)
      /\ Fit(turn.work, messages, made, coming, finished)
      /\ Sound(messages, ckpt, pending, made, coming, finished, Busy, unarchived)
  BY DEF Inv, TypeInv, SoundInv, TurnInv, InTurn, Working, Whole
<1>2. Busy = finished \cup {turn.input}
  BY <1>1, Limits DEF Busy
<1>3. PICK a \in {1, 2} : a = 1 + turn.skew
  BY <1>1, TurnIs
<1>4. PICK w : w = turn.work
  OBVIOUS
<1>5. PICK x : x = SubSeq(w, a, Len(w))
  OBVIOUS
<1>6. w \in Seq(Messages) /\ Answered(w) /\ Once(w) /\ Apart(messages, w) /\ Old(w, made, coming)
      /\ Plain(w, finished)
  BY <1>1, <1>4 DEF Fit
<1>7. x \in Seq(Messages)
  BY <1>5, <1>6, PartIs
<1>8. Answered(x) /\ Once(x)
  BY <1>1, <1>5, <1>6, AnsweredPart, OncePart
<1>9. Old(x, made, coming) /\ Plain(x, finished) /\ Apart(messages, x)
  BY <1>5, <1>6, PartFits
<1>10. /\ Answered(messages) /\ NeverFalse(messages, Busy) /\ Old(messages, made, coming)
       /\ ~unarchived => Once(messages)
       /\ \A i \in finished : Has(messages, i)
  BY <1>1 DEF Sound
<1>11. PICK h : h = messages \o x
  OBVIOUS
<1>12. h \in Seq(Messages) /\ Answered(h)
  BY <1>1, <1>7, <1>8, <1>10, <1>11, JoinIs, AnsweredJoin
<1>13. NeverFalse(h, Busy)
  <2>1. \A j \in DOMAIN x : x[j] # Interruption
    BY <1>9 DEF Plain
  <2> QED
    BY <1>1, <1>7, <1>10, <1>11, <2>1, NeverFalseJoin
<1>14. Old(h, made, coming)
  BY <1>1, <1>7, <1>9, <1>10, <1>11, JoinFits
<1>15. \A i \in Busy : Has(h, i)
  <2>1. \A i : Has(messages, i) => Has(h, i)
    BY <1>1, <1>7, <1>11, JoinFits
  <2> QED
    BY <1>1, <1>2, <1>10, <2>1
<1>16. ~unarchived => Once(h)
  BY <1>1, <1>7, <1>8, <1>9, <1>10, <1>11, OnceJoin
<1>17. h = messages \o TurnMessages(turn)
  BY <1>3, <1>4, <1>5, <1>11 DEF TurnMessages
<1>18. h = messages \/ Carried(Last(h)) \cap finished = {}
  <2>1. PICK l \in Nat, k \in Nat : l = Len(messages) /\ k = Len(x)
    BY <1>1, <1>7, LenProperties
  <2>2. CASE k = 0
    <3>1. x = <<>>
      BY <1>7, <2>1, <2>2, EmptySeq
    <3> QED
      BY <1>1, <1>11, <3>1, ConcatEmptySeq
  <2>3. CASE k > 0
    <3>1. k \in DOMAIN x /\ Len(h) = l + k /\ h[l + k] = x[k]
      <4>1. DOMAIN x = 1..k /\ l + k \in (l + 1)..(l + k) /\ (l + k) - l = k
        BY <1>7, <2>1, <2>3, LenProperties
      <4>2. Len(h) = l + k
        BY <1>1, <1>7, <1>11, <2>1, JoinIs
      <4>3. \A i \in (l + 1)..(l + k) : h[i] = x[i - l]
        BY <1>1, <1>7, <1>11, <2>1, JoinIs
      <4> QED
        BY <2>3, <4>1, <4>2, <4>3
    <3> QED
      BY <1>9, <3>1 DEF Last, Plain
  <2> QED
    BY <2>1, <2>2, <2>3
<1> QED
  BY <1>10, <1>12, <1>13, <1>14, <1>15, <1>16, <1>17, <1>18 DEF Legal

LEMMA SaveTurnHolds ==
    ASSUME Inv, SaveTurn
    PROVE  Inv'
<1>1. /\ phase = "save" /\ messages' = messages \o TurnMessages(turn)
      /\ ckpt' = None /\ pending' = FALSE /\ disk' = Saved(messages', ckpt', pending')
      /\ phase' = "idle" /\ turn' = NoTurn /\ finished' = finished \cup {turn.input}
      /\ UNCHANGED <<made, coming, unarchived, world>>
  BY DEF SaveTurn, Persist
<1>2. TypeInv /\ turn.input \in Inputs /\ turn.input \notin coming
  BY <1>1 DEF Inv, TurnInv
<1>3. Busy = finished \cup {turn.input}
  BY <1>2, Limits DEF Busy
<1>4. PICK h : h = messages \o TurnMessages(turn)
  OBVIOUS
<1>5. PICK done : done = finished \cup {turn.input}
  OBVIOUS
<1>6. Legal(h, made, coming, done, unarchived)
  BY <1>1, <1>3, <1>4, <1>5, SavedWorkIs
<1>7. /\ Sound(h, None, FALSE, made, coming, done, done, unarchived)
      /\ h \in Seq(Messages) /\ None \in Checkpoints
  BY <1>6, LegalSound DEF Legal, Checkpoints
<1>8. disk' = [messages |-> h, ckpt |-> None, pending |-> FALSE]
  BY <1>1, <1>4 DEF Saved
<1>9. /\ disk'.messages = h /\ disk'.ckpt = None /\ disk'.pending = FALSE
      /\ disk' \in Files
  BY <1>7, <1>8 DEF Files
<1>10. done \in SUBSET Inputs /\ coming \cap done = {}
  BY <1>2, <1>5 DEF TypeInv
<1> QED
  BY <1>1, <1>2, <1>4, <1>5, <1>7, <1>9, <1>10, IdleInv DEF TypeInv

\* The archive raised: the messages are added, the flags stay.
LEMMA SaveFailsHolds ==
    ASSUME Inv, SaveFails
    PROVE  Inv'
<1>1. /\ phase = "save" /\ messages' = messages \o TurnMessages(turn)
      /\ phase' = "idle" /\ turn' = NoTurn /\ unarchived' = TRUE
      /\ UNCHANGED <<ckpt, pending, disk, made, coming, finished, world>>
  BY DEF SaveFails
<1>2. TypeInv /\ finished \subseteq Busy
  BY DEF Inv, Busy
<1>3. PICK h : h = messages \o TurnMessages(turn)
  OBVIOUS
<1>4. /\ Legal(h, made, coming, Busy, unarchived)
      /\ h # <<>> => h = messages \/ Carried(Last(h)) \cap finished = {}
  BY <1>1, <1>3, SavedWorkIs
<1>5. /\ Sound(messages, ckpt, pending, made, coming, finished, finished, unarchived)
      /\ Sound(disk.messages, disk.ckpt, disk.pending, made, coming, finished, finished, TRUE)
  BY SoundNow, SoundTorn
<1>6. Sound(h, ckpt, pending, made, coming, finished, finished, TRUE)
  <2>1. Answered(h) /\ Old(h, made, coming) /\ h \in Seq(Messages)
    BY <1>4 DEF Legal
  <2>2. NeverFalse(h, finished) /\ \A i \in finished : Has(h, i)
    BY <1>2, <1>4, NeverFalseLess DEF Legal
  <2>3. ckpt # None => ckpt.message.id <= made
    BY <1>5 DEF Sound
  <2>4. pending /\ h # <<>> /\ IsUser(Last(h)) => Carried(Last(h)) \cap finished = {}
    BY <1>4, <1>5 DEF Sound
  <2> QED
    BY <2>1, <2>2, <2>3, <2>4 DEF Sound
<1>7. h \in Seq(Messages)
  BY <1>4 DEF Legal
<1> QED
  BY <1>1, <1>2, <1>3, <1>5, <1>6, <1>7, IdleInv DEF TypeInv

\* A message that is neither a response nor a result is added to a session.
LEMMA SoundAppend ==
    ASSUME world \in Worlds, NEW ms \in Seq(Messages), NEW c \in Checkpoints, NEW p, NEW n, NEW com,
           NEW done, NEW busy, NEW torn, Sound(ms, c, p, n, com, done, busy, torn),
           NEW m \in Messages, m.role \notin {"assistant", "tool"}, m # Interruption,
           Carried(m) \cap com = {}, \A i \in Carried(m) : ~Has(ms, i),
           NEW q, NEW done2, \A i \in done2 : Has(ms, i) \/ i \in Carried(m),
           IsUser(m) => Carried(m) \cap done2 = {}
    PROVE  /\ Append(ms, m) \in Seq(Messages)
           /\ Sound(Append(ms, m), c, q, n, com, done2, busy, torn)
           /\ \A i \in Carried(m) : Has(Append(ms, m), i)
<1>1. PICK x : x = <<m>>
  OBVIOUS
<1>2. PICK h : h = Append(ms, m)
  OBVIOUS
<1>3. x \in Seq(Messages) /\ DOMAIN x = {1} /\ x[1] = m
  BY <1>1
<1>4. h = ms \o x /\ h \in Seq(Messages) /\ h # <<>> /\ Last(h) = m
  <2>1. PICK l \in Nat : l = Len(ms)
    BY LenProperties
  <2>2. h \in Seq(Messages) /\ Len(h) = l + 1 /\ h[l + 1] = m
    BY <1>2, <2>1, AppendProperties
  <2>3. h = ms \o x
    BY <1>1, <1>2, AppendIsConcat
  <2> QED
    BY <2>1, <2>2, <2>3 DEF Last
<1>5. /\ Answered(ms) /\ NeverFalse(ms, busy) /\ Old(ms, n, com)
      /\ c # None => c.message.id <= n
      /\ ~torn => Once(ms)
      /\ ~torn => (c # None => Apart(ms, Materialized(c)))
  BY DEF Sound
<1>6. Answered(h)
  BY <1>1, <1>3, <1>4, <1>5, AnsweredLone, AnsweredJoin
<1>7. NeverFalse(h, busy)
  <2>1. \A j \in DOMAIN x : x[j] # Interruption
    BY <1>3
  <2> QED
    BY <1>3, <1>4, <1>5, <2>1, NeverFalseJoin
<1>8. Old(h, n, com)
  <2>1. Old(x, n, com)
    BY <1>1, LoneFits
  <2> QED
    BY <1>3, <1>4, <1>5, <2>1, JoinFits
<1>9. \A i : Has(ms, i) \/ i \in Carried(m) => Has(h, i)
  <2>1. \A i : Has(ms, i) => Has(h, i)
    BY <1>3, <1>4, JoinFits
  <2>2. Len(h) \in DOMAIN h /\ h[Len(h)] = m
    BY <1>4, LenProperties, EmptySeq DEF Last
  <2> QED
    BY <2>1, <2>2 DEF Has
<1>10. ~torn => Once(h)
  <2>1. Once(x)
    BY <1>1, LoneFits
  <2>2. Apart(ms, x)
    <3>1. \A i \in DOMAIN ms : ~Repeats(ms[i], m)
      BY DEF Has, Repeats
    <3> QED
      BY <1>1, <3>1, LoneFits
  <2> QED
    BY <1>3, <1>4, <1>5, <2>1, <2>2, OnceJoin
<1>11. ~torn => (c # None => Apart(h, Materialized(c)))
  <2> SUFFICES ASSUME ~torn, c # None
               PROVE  Apart(h, Materialized(c))
    OBVIOUS
  <2>1. PICK f : f = Materialized(c)
    OBVIOUS
  <2>2. c \in Kept
    BY DEF Checkpoints, Kept
  <2>3. PICK r \in Requests, d \in BOOLEAN : r = c.message /\ f = Settlement(r, d)
    BY <2>1, <2>2, MaterializedIs
  <2>4. Fresh(f, r.id)
    <3>1. r.id \in Nat /\ r.id <= r.id
      BY <2>3, RequestIs
    <3> QED
      BY <2>3, <3>1, SettlementFits
  <2>5. \A i \in DOMAIN f : ~Repeats(m, f[i])
    BY <2>4 DEF Fresh, Repeats
  <2>6. Apart(x, f)
    BY <1>1, <2>5, LoneFits
  <2>7. Apart(ms, f)
    BY <1>5, <2>1
  <2>8. Apart(h, f)
    BY <1>3, <1>4, <2>6, <2>7, JoinFits
  <2> QED
    BY <2>1, <2>8
<1>12. Sound(h, c, q, n, com, done2, busy, torn)
  BY <1>4, <1>5, <1>6, <1>7, <1>8, <1>9, <1>10, <1>11 DEF Sound
<1> QED
  BY <1>2, <1>4, <1>9, <1>12


LEMMA AnswerCommandHolds ==
    ASSUME Inv, AnswerCommand
    PROVE  Inv'
<1>1. /\ phase = "command" /\ messages' = Append(messages, CommandReply)
      /\ disk' = Saved(messages', ckpt, pending) /\ pending' = FALSE
      /\ phase' = "idle" /\ turn' = NoTurn /\ finished' = finished \cup {turn.input}
      /\ UNCHANGED <<ckpt, made, coming, unarchived, world>>
  BY DEF AnswerCommand
<1>2. TypeInv /\ turn.input \in Inputs /\ turn.input \notin coming /\ Has(messages, turn.input)
  BY <1>1 DEF Inv, TurnInv, InTurn
<1>3. Sound(messages, ckpt, pending, made, coming, finished, Busy, unarchived)
  BY DEF Inv, SoundInv
<1>4. PICK done : done = finished \cup {turn.input}
  OBVIOUS
<1>5. Busy = done /\ done \in SUBSET Inputs /\ coming \cap done = {}
  BY <1>2, <1>4, Limits DEF Busy, TypeInv
<1>6. PICK m, h : m = CommandReply /\ h = Append(messages, m)
  OBVIOUS
<1>7. /\ m \in Messages /\ m.role \notin {"assistant", "tool"} /\ m # Interruption
      /\ Carried(m) = {} /\ ~IsUser(m)
  BY <1>6, NoticesAre
<1>8. \A i \in done : Has(messages, i)
  BY <1>2, <1>3, <1>4 DEF Sound
<1>9. world \in Worlds /\ messages \in Seq(Messages) /\ ckpt \in Checkpoints /\ pending \in BOOLEAN
  BY <1>2 DEF TypeInv
<1>10. \A q : Sound(h, ckpt, q, made, coming, done, done, unarchived)
  <2>1. Carried(m) \cap coming = {} /\ \A i \in Carried(m) : ~Has(messages, i)
    BY <1>7
  <2>2. \A i \in done : Has(messages, i) \/ i \in Carried(m)
    BY <1>8
  <2>3. Sound(messages, ckpt, pending, made, coming, finished, done, unarchived)
    BY <1>3, <1>5
  <2>4. IsUser(m) => Carried(m) \cap done = {}
    BY <1>7
  <2> QED
    BY <1>6, <1>7, <1>9, <2>1, <2>2, <2>3, <2>4, SoundAppend
<1>11. h \in Seq(Messages)
  BY <1>6, <1>7, <1>9, AppendProperties
<1>12. /\ disk'.messages = h /\ disk'.ckpt = ckpt /\ disk'.pending = pending
       /\ disk' \in Files
  <2>1. disk' = Saved(h, ckpt, pending)
    BY <1>1, <1>6
  <2> QED
    BY <1>9, <1>11, <2>1, SavedIs
<1>13. Sound(h, ckpt, pending', made, coming, done, done, unarchived)
  <2>1. PICK q : q = pending'
    OBVIOUS
  <2> QED
    BY <1>10, <2>1
<1>14. Sound(h, ckpt, pending, made, coming, done, done, unarchived)
  BY <1>10
<1>15. messages' = h /\ finished' = done
  BY <1>1, <1>4, <1>6
<1> QED
  BY <1>1, <1>2, <1>5, <1>9, <1>11, <1>12, <1>13, <1>14, <1>15, IdleInv DEF TypeInv

\* An input is recorded at the beginning of its turn.
LEMMA RecordHolds ==
    ASSUME Inv, phase \in {"build", "built"}, NEW m \in Messages,
           m.role \notin {"assistant", "tool"}, m # Interruption, Carried(m) = {turn.input},
           messages' = Append(messages, m), pending' \in BOOLEAN, ckpt' = ckpt,
           disk' = Saved(messages', ckpt', pending'), phase' \in {"command", "model"},
           UNCHANGED <<turn, made, coming, finished, unarchived, world>>
    PROVE  Inv'
<1>1. /\ turn.input \in Inputs /\ turn.input \notin coming \cup finished
      /\ ~Has(messages, turn.input) /\ turn.work = <<>> /\ turn \in TurnType
      /\ Sound(messages, ckpt, pending, made, coming, finished, Busy, unarchived)
  BY DEF Inv, TurnInv, SoundInv, Working
<1>2. /\ world \in Worlds /\ messages \in Seq(Messages) /\ ckpt \in Checkpoints
      /\ pending \in BOOLEAN /\ made \in Nat /\ coming \in SUBSET Inputs
      /\ finished \in SUBSET Inputs /\ coming \cap finished = {} /\ unarchived \in BOOLEAN
  BY DEF Inv, TypeInv
<1>3. PICK h : h = Append(messages, m)
  OBVIOUS
<1>4. \A q : /\ h \in Seq(Messages)
             /\ Sound(h, ckpt, q, made, coming, finished, Busy, unarchived)
             /\ \A i \in Carried(m) : Has(h, i)
  <2>1. Carried(m) \cap coming = {} /\ \A i \in Carried(m) : ~Has(messages, i)
    BY <1>1
  <2>2. \A i \in finished : Has(messages, i) \/ i \in Carried(m)
    BY <1>1 DEF Sound
  <2>3. IsUser(m) => Carried(m) \cap finished = {}
    BY <1>1
  <2> QED
    BY <1>1, <1>2, <1>3, <2>1, <2>2, <2>3, SoundAppend
<1>5. PICK q \in BOOLEAN : q = pending'
  OBVIOUS
<1>6. disk' = Saved(h, ckpt, q)
  BY <1>3, <1>5
<1>7. /\ disk'.messages = h /\ disk'.ckpt = ckpt /\ disk'.pending = q
      /\ disk' \in Files
  BY <1>2, <1>4, <1>6, SavedIs
<1>8. Busy' = Busy
  BY DEF Busy
<1>9. /\ Sound(messages', ckpt', pending', made, coming', finished', Busy', unarchived')
      /\ Sound(disk'.messages, disk'.ckpt, disk'.pending, made, coming', finished', Busy',
               unarchived')
  BY <1>3, <1>4, <1>5, <1>7, <1>8
<1>10. TurnInv'
  <2>1. PICK t, p, n, com, done : /\ t = turn /\ p = phase' /\ n = made /\ com = coming
                                  /\ done = finished
    OBVIOUS
  <2>2. p \notin {"tools", "retry"}
    BY <2>1
  <2>3. Working(t, p, h, n, com, done)
    BY <1>1, <2>1, <2>2, EmptyTurn
  <2>4. Working(t, p, h, n, com, done)'
    BY <2>3, WorkingSame
  <2>5. Working(turn, phase, messages, made, coming, finished)'
    BY <1>3, <2>1, <2>4
  <2>6. Has(messages', turn.input)
    BY <1>1, <1>3, <1>4
  <2> QED
    BY <1>1, <2>5, <2>6 DEF TurnInv
<1>11. phase' \in Phases
  BY DEF Phases
<1> QED
  BY <1>2, <1>3, <1>4, <1>7, <1>9, <1>10, <1>11, StepInv

LEMMA PrepareHolds ==
    ASSUME Inv, RecordCommand \/ PersistUser \/ PersistAnnounce
    PROVE  Inv'
<1>1. pending \in BOOLEAN
  BY DEF Inv, TypeInv
<1>2. phase # "idle" => turn.input \in Inputs
  BY DEF Inv, TurnInv
<1>3. CASE RecordCommand
  <2>1. /\ phase = "build" /\ messages' = Append(messages, Command(turn.input))
        /\ pending' = TRUE /\ ckpt' = ckpt /\ disk' = Saved(messages', ckpt', pending')
        /\ phase' = "command" /\ UNCHANGED <<turn, made, coming, finished, unarchived, world>>
    BY <1>3 DEF RecordCommand, Persist
  <2>2. PICK m : m = Command(turn.input)
    OBVIOUS
  <2>3. /\ m \in Messages /\ m.role \notin {"assistant", "tool"} /\ m # Interruption
        /\ Carried(m) = {turn.input}
    BY <1>2, <2>1, <2>2, RecordsAre
  <2> QED
    BY <2>1, <2>2, <2>3, RecordHolds
<1>4. CASE PersistUser
  <2>1. /\ phase = "built" /\ messages' = Append(messages, User({turn.input}))
        /\ pending' = TRUE /\ ckpt' = ckpt /\ disk' = Saved(messages', ckpt', pending')
        /\ phase' = "model" /\ UNCHANGED <<turn, made, coming, finished, unarchived, world>>
    BY <1>4 DEF PersistUser, Persist
  <2>2. PICK m : m = User({turn.input})
    OBVIOUS
  <2>3. /\ m \in Messages /\ m.role \notin {"assistant", "tool"} /\ m # Interruption
        /\ Carried(m) = {turn.input}
    <3>1. {turn.input} \in SUBSET Inputs
      BY <1>2, <2>1
    <3> QED
      BY <2>2, <3>1, UserIs
  <2> QED
    BY <2>1, <2>2, <2>3, RecordHolds
<1>5. CASE PersistAnnounce
  <2>1. /\ phase = "build" /\ messages' = Append(messages, Announced(turn.input))
        /\ pending' = pending /\ ckpt' = ckpt /\ disk' = Saved(messages', ckpt', pending')
        /\ phase' = "model" /\ UNCHANGED <<turn, made, coming, finished, unarchived, world>>
    BY <1>5 DEF PersistAnnounce, Persist
  <2>2. PICK m : m = Announced(turn.input)
    OBVIOUS
  <2>3. /\ m \in Messages /\ m.role \notin {"assistant", "tool"} /\ m # Interruption
        /\ Carried(m) = {turn.input}
    BY <1>2, <2>1, <2>2, RecordsAre
  <2> QED
    BY <1>1, <2>1, <2>2, <2>3, RecordHolds
<1> QED
  BY <1>3, <1>4, <1>5

LEMMA ReadHistoryHolds ==
    ASSUME Inv, ReadHistory
    PROVE  Inv'
<1>1. /\ phase = "build" /\ turn' = [turn EXCEPT !.skew = Skew, !.opening = {turn.input}]
      /\ phase' = "built"
      /\ UNCHANGED <<messages, ckpt, pending, disk, made, coming, finished, unarchived, world>>
  BY DEF ReadHistory
<1>2. /\ turn.input \in Inputs /\ turn.input \notin coming \cup finished
      /\ ~Has(messages, turn.input) /\ turn.work = <<>> /\ turn \in TurnType
  BY <1>1 DEF Inv, TurnInv, Working
<1>3. TypeInv /\ SoundInv
  BY DEF Inv
<1>4. turn' \in TurnType /\ turn'.input = turn.input /\ turn'.work = <<>>
  <2>1. Skew \in Bits /\ {turn.input} \in Openings
    BY <1>2 DEF Skew, Bits, Openings
  <2> QED
    BY <1>1, <1>2, <2>1 DEF TurnType
<1>5. Busy' = Busy
  BY <1>1, <1>4 DEF Busy
<1>6. TurnInv'
  <2>1. PICK t, p, ms, n, com, done : /\ t = turn' /\ p = phase' /\ ms = messages /\ n = made
                                      /\ com = coming /\ done = finished
    OBVIOUS
  <2>2. Working(t, p, ms, n, com, done)
    BY <1>1, <1>4, <2>1, EmptyTurn
  <2>3. Working(t, p, ms, n, com, done)'
    BY <1>1, <2>2, WorkingSame
  <2>4. Working(turn, phase, messages, made, coming, finished)'
    BY <1>1, <2>1, <2>3
  <2> QED
    BY <1>1, <1>2, <1>4, <2>4 DEF TurnInv, InTurn
<1>7. phase' \in Phases
  BY <1>1 DEF Phases
<1> QED
  BY <1>1, <1>3, <1>5, <1>6, <1>7, StepInv DEF TypeInv, SoundInv

\* The input a turn takes is in no message yet.
LEMMA SoundBusier ==
    ASSUME NEW ms \in Seq(Messages), NEW c, NEW p, NEW n, NEW com, NEW done, NEW torn,
           Sound(ms, c, p, n, com, done, done, torn), NEW i \in com
    PROVE  Sound(ms, c, p, n, com \ {i}, done, done \cup {i}, torn)
<1>1. \A j \in DOMAIN ms : Carried(ms[j]) \cap com = {}
  BY DEF Sound, Old
<1>2. NeverFalse(ms, done \cup {i})
  <2> SUFFICES ASSUME NEW j \in 2..Len(ms), ms[j] = Interruption
               PROVE  Carried(ms[j - 1]) \cap (done \cup {i}) = {}
    BY DEF NeverFalse
  <2>1. Carried(ms[j - 1]) \cap done = {}
    BY DEF Sound, NeverFalse
  <2>2. j - 1 \in DOMAIN ms
    BY LenProperties
  <2> QED
    BY <1>1, <2>1, <2>2
<1>3. Old(ms, n, com \ {i})
  BY <1>1 DEF Sound, Old
<1> QED
  BY <1>2, <1>3 DEF Sound


LEMMA StartTurnHolds ==
    ASSUME Inv, NEW i \in Inputs, StartTurn(i)
    PROVE  Inv'
<1>1. /\ phase = "idle" /\ i \in coming
      /\ messages' = Restored(Saved(messages, ckpt, pending))
      /\ ckpt' = None /\ pending' = FALSE
      /\ IF ckpt # None \/ pending THEN Persist ELSE disk' = disk
      /\ phase' = "build" /\ turn' = [NoTurn EXCEPT !.input = i] /\ coming' = coming \ {i}
      /\ UNCHANGED <<made, finished, unarchived, world>>
  BY DEF StartTurn
<1>2. TypeInv
  BY DEF Inv
<1>3. turn' \in TurnType /\ turn'.input = i /\ turn'.work = <<>>
  <2>1. /\ i \in InputNames /\ 0 \in Bits /\ {} \in Openings /\ <<>> \in Works
        /\ 0 \in Iters /\ 0 \in Cycles /\ 0 \in Nat /\ 0 \in Recoveries
    BY Limits DEF InputNames, Bits, Openings, Works, Iters, Cycles, Recoveries
  <2> QED
    BY <1>1, <2>1 DEF NoTurn, TurnType
<1>4. Busy' = finished \cup {i}
  BY <1>1, <1>3, Limits DEF Busy
<1>5. PICK s : s = Saved(messages, ckpt, pending)
  OBVIOUS
<1>6. s.messages = messages /\ s.ckpt = ckpt /\ s.pending = pending
  BY <1>5, SavedIs
<1>7. Legal(Restored(s), made, coming, finished, unarchived)
  <2>1. /\ world \in Worlds /\ messages \in Seq(Messages) /\ ckpt \in Checkpoints
        /\ pending \in BOOLEAN /\ made \in Nat /\ finished \subseteq finished
    BY <1>2 DEF TypeInv
  <2> QED
    BY <1>6, <2>1, SoundNow, RestoredIs
<1>8. PICK h : h = messages' /\ Legal(h, made, coming, finished, unarchived)
  BY <1>1, <1>5, <1>7
<1>9. h \in Seq(Messages) /\ None \in Checkpoints
  BY <1>8 DEF Legal, Checkpoints
<1>10. PICK done, com : done = finished \cup {i} /\ com = coming \ {i}
  OBVIOUS
<1>11. Sound(h, None, FALSE, made, com, finished, done, unarchived)
  BY <1>1, <1>8, <1>9, <1>10, LegalSound, SoundBusier
<1>12. /\ disk' \in Files
       /\ Sound(disk'.messages, disk'.ckpt, disk'.pending, made, com, finished, done, unarchived)
  <2>1. CASE ckpt # None \/ pending
    <3>1. disk' = [messages |-> h, ckpt |-> None, pending |-> FALSE]
      BY <1>1, <1>8, <2>1 DEF Saved, Persist
    <3>2. /\ disk'.messages = h /\ disk'.ckpt = None /\ disk'.pending = FALSE
          /\ disk' \in Files
      BY <1>9, <3>1 DEF Files
    <3> QED
      BY <1>11, <3>2
  <2>2. CASE ~(ckpt # None \/ pending)
    <3>1. disk' = disk /\ disk \in Files /\ disk.messages \in Seq(Messages)
      BY <1>1, <1>2, <2>2, FileIs DEF TypeInv
    <3>2. Sound(disk.messages, disk.ckpt, disk.pending, made, com, finished, done, unarchived)
      BY <1>1, <1>10, <3>1, SoundNow, SoundBusier
    <3> QED
      BY <3>1, <3>2
  <2> QED
    BY <2>1, <2>2
<1>13. ~Has(h, i)
  BY <1>1, <1>8 DEF Legal, Old, Has
<1>14. TurnInv'
  <2>1. PICK t, p, n, fin : t = turn' /\ p = phase' /\ n = made /\ fin = finished
    OBVIOUS
  <2>2. Working(t, p, h, n, com, fin)
    BY <1>1, <1>3, <2>1, EmptyTurn
  <2>3. Working(t, p, h, n, com, fin)'
    BY <1>1, <2>2, WorkingSame
  <2>4. Working(turn, phase, messages, made, coming, finished)'
    BY <1>1, <1>8, <1>10, <2>1, <2>3
  <2>5. ~Has(messages', turn'.input)
    BY <1>3, <1>8, <1>13
  <2>6. turn'.input \in Inputs /\ turn'.input \notin coming' \cup finished'
    BY <1>1, <1>2, <1>3 DEF TypeInv
  <2> QED
    BY <1>1, <1>3, <2>4, <2>5, <2>6 DEF TurnInv, InTurn
<1>15. /\ messages' \in Seq(Messages) /\ ckpt' \in Checkpoints /\ pending' \in BOOLEAN
       /\ disk' \in Files /\ phase' \in Phases /\ made' = made /\ coming' \subseteq coming
       /\ finished' \in SUBSET Inputs /\ coming' \cap finished' = {} /\ unarchived' \in BOOLEAN
       /\ world' = world
  BY <1>1, <1>2, <1>8, <1>9, <1>12 DEF TypeInv, Phases
<1>16. /\ Sound(messages', ckpt', pending', made, coming', finished', Busy', unarchived')
       /\ Sound(disk'.messages, disk'.ckpt, disk'.pending, made, coming', finished', Busy',
                unarchived')
  BY <1>1, <1>4, <1>8, <1>10, <1>11, <1>12
<1> QED
  BY <1>14, <1>15, <1>16, StepInv

LEMMA Stutters ==
    ASSUME Inv, UNCHANGED vars
    PROVE  Inv'
<1>1. UNCHANGED <<world, messages, ckpt, pending, disk, phase, turn, made, coming, finished,
                  unarchived>>
  BY DEF vars
<1>2. TypeInv /\ SoundInv /\ TurnInv
  BY DEF Inv
<1>3. Busy' = Busy
  BY <1>1 DEF Busy
<1>4. TurnInv'
  <2>1. PICK t, p, ms, n, com, done : /\ t = turn /\ p = phase /\ ms = messages /\ n = made
                                      /\ com = coming /\ done = finished
    OBVIOUS
  <2>2. Working(t, p, ms, n, com, done)
    BY <1>2, <2>1 DEF TurnInv
  <2>3. Working(t, p, ms, n, com, done)'
    BY <1>1, <2>2, WorkingSame
  <2>4. Working(turn, phase, messages, made, coming, finished)'
    BY <1>1, <2>1, <2>3
  <2> QED
    BY <1>1, <1>2, <2>4 DEF TurnInv
<1> QED
  BY <1>1, <1>2, <1>3, <1>4, StepInv DEF TypeInv, SoundInv

LEMMA InitHolds ==
    ASSUME Init
    PROVE  Inv
<1>1. PICK h : h = <<>>
  OBVIOUS
<1>2. /\ messages = h /\ ckpt = None /\ pending = FALSE /\ phase = "idle" /\ turn = NoTurn
      /\ disk = [messages |-> h, ckpt |-> None, pending |-> FALSE]
      /\ made = 0 /\ world \in Worlds /\ coming = world.inputs /\ finished = {}
      /\ unarchived = FALSE
  BY <1>1 DEF Init, Saved
<1>3. h \in Seq(Messages) /\ Len(h) = 0 /\ DOMAIN h = {}
  <2>1. h \in Seq(Messages) /\ Len(h) = 0
    BY <1>1, EmptySeq, Zenon
  <2> QED
    BY <2>1
<1>4. TypeInv
  <2>1. disk \in Files /\ None \in Checkpoints
    BY <1>2, <1>3 DEF Files, Checkpoints
  <2>2. world.responses \in Nat /\ coming \in SUBSET Inputs
    BY <1>2, WorldIs
  <2>3. world \in Worlds /\ messages \in Seq(Messages) /\ ckpt \in Checkpoints
    BY <1>2, <1>3, <2>1
  <2>4. pending \in BOOLEAN /\ phase \in Phases /\ unarchived \in BOOLEAN
    BY <1>2 DEF Phases
  <2>5. made \in Nat /\ made <= world.responses
    BY <1>2, <2>2
  <2>6. finished \in SUBSET Inputs /\ coming \cap finished = {}
    BY <1>2
  <2> QED
    BY <2>1, <2>2, <2>3, <2>4, <2>5, <2>6 DEF TypeInv
<1>5. \A n, com, busy, torn : Sound(h, None, FALSE, n, com, {}, busy, torn)
  <2> SUFFICES ASSUME NEW n, NEW com, NEW busy, NEW torn
               PROVE  Sound(h, None, FALSE, n, com, {}, busy, torn)
    OBVIOUS
  <2>1. Answered(h) /\ Old(h, n, com) /\ Once(h)
    BY <1>3 DEF Answered, Old, Once
  <2>2. NeverFalse(h, busy)
    <3>1. 2..Len(h) = {}
      BY <1>3
    <3> QED
      BY <3>1 DEF NeverFalse
  <2> QED
    BY <2>1, <2>2 DEF Sound
<1>6. SoundInv
  <2>1. messages = h /\ disk.messages = h /\ disk.ckpt = None /\ disk.pending = FALSE
    BY <1>2
  <2> QED
    BY <1>2, <1>5, <2>1 DEF SoundInv
<1>7. TurnInv
  BY <1>2, NoTurnIs, EmptyTurn DEF TurnInv, InTurn
<1> QED
  BY <1>4, <1>6, <1>7 DEF Inv

LEMMA NextHolds ==
    ASSUME Inv, [Next]_vars
    PROVE  Inv'
<1>1. CASE \E i \in Inputs : StartTurn(i)
  BY <1>1, StartTurnHolds
<1>2. CASE Prepare
  BY <1>2, PrepareHolds, AnswerCommandHolds, ReadHistoryHolds DEF Prepare
<1>3. CASE Iterate
  <2> SUFFICES Iterates
    BY IterateHolds
  <2>1. CASE \E k \in 1..world.calls : RequestTools(k)
    BY <2>1, RequestToolsIterates
  <2>2. CASE TurnTimeout \/ BudgetExceeded \/ EmptyResponse \/ BlankResponse
    BY <2>2, TurnTimeoutIterates, BudgetExceededIterates, EmptyResponseIterates,
       BlankResponseIterates
  <2>3. CASE ErrorResponse \/ Truncated \/ FinalResponse \/ MaxIterationsReached
    BY <2>3, ErrorResponseIterates, TruncatedIterates, FinalResponseIterates,
       MaxIterationsIterates
  <2>4. CASE ToolsDone \/ ToolsFatal
    BY <2>4, ToolsDoneIterates, ToolsFatalIterates
  <2> QED
    BY <1>3, <2>1, <2>2, <2>3, <2>4 DEF Iterate
<1>4. CASE SaveTurn
  BY <1>4, SaveTurnHolds
<1>5. CASE SaveFails
  BY <1>5, SaveFailsHolds
<1>6. CASE CancelTurn
  BY <1>6, CancelTurnHolds
<1>7. CASE FailTurn
  BY <1>7, FailTurnHolds
<1>8. CASE Crash
  BY <1>8, CrashHolds
<1>9. CASE UNCHANGED vars
  BY <1>9, Stutters
<1> QED
  BY <1>1, <1>2, <1>3, <1>4, <1>5, <1>6, <1>7, <1>8, <1>9 DEF Next


-----------------------------------------------------------------------------
(***************************************************************************)
(* What the invariant says of a session.                                   *)
(***************************************************************************)
LEMMA HistoriesLegal ==
    ASSUME Inv, NEW h \in Histories
    PROVE  Legal(h, made, coming, finished, unarchived)
<1>1. /\ world \in Worlds /\ messages \in Seq(Messages) /\ ckpt \in Checkpoints
      /\ pending \in BOOLEAN /\ made \in Nat /\ finished \subseteq finished
      /\ disk.messages \in Seq(Messages) /\ disk.ckpt \in Checkpoints /\ disk.pending \in BOOLEAN
  BY FileIs DEF Inv, TypeInv
<1>2. CASE h = messages
  BY <1>1, <1>2, SoundNow DEF Sound, Legal
<1>3. CASE h = Restored(Saved(messages, ckpt, pending))
  <2>1. PICK s : s = Saved(messages, ckpt, pending)
    OBVIOUS
  <2>2. s.messages = messages /\ s.ckpt = ckpt /\ s.pending = pending
    BY <2>1, SavedIs
  <2>3. Legal(Restored(s), made, coming, finished, unarchived)
    BY <1>1, <2>2, SoundNow, RestoredIs
  <2> QED
    BY <1>3, <2>1, <2>3
<1>4. CASE h = Restored(disk)
  <2>1. PICK s, ms, c, p : s = disk /\ ms = disk.messages /\ c = disk.ckpt /\ p = disk.pending
    OBVIOUS
  <2>2. Sound(ms, c, p, made, coming, finished, finished, unarchived)
    BY <2>1, SoundNow
  <2>3. Legal(Restored(s), made, coming, finished, unarchived)
    BY <1>1, <2>1, <2>2, RestoredIs
  <2> QED
    BY <1>4, <2>1, <2>3
<1> QED
  BY <1>2, <1>3, <1>4 DEF Histories

LEMMA InvTypeOK ==
    ASSUME Inv
    PROVE  TypeOK
<1>1. TypeInv /\ turn \in TurnType
  BY DEF Inv, TurnInv, Working
<1>2. turn \in [input : Inputs \cup {None}, skew : 0..1, opening : SUBSET Inputs,
                work : Seq(Messages), iter : 0..MaxIterations, cycles : 0..MaxCycles,
                empties : Nat, recoveries : 0..MaxRecoveries]
  BY <1>1 DEF TurnType, InputNames, Bits, Openings, Works, Iters, Cycles, Recoveries
<1>3. disk \in [messages : Seq(Messages), ckpt : Checkpoints, pending : BOOLEAN]
  BY <1>1 DEF TypeInv, Files
<1>4. made \in 0..world.responses
  <2>1. world.responses \in Nat
    BY <1>1, WorldIs DEF TypeInv
  <2> QED
    BY <1>1, <2>1 DEF TypeInv
<1>5. coming \subseteq Inputs /\ finished \subseteq Inputs \ coming
  BY <1>1 DEF TypeInv
<1> QED
  BY <1>1, <1>2, <1>3, <1>4, <1>5 DEF TypeOK, TypeInv

LEMMA InvBoundedWork ==
    ASSUME Inv
    PROVE  BoundedWork
<1>1. Working(turn, phase, messages, made, coming, finished)
  BY DEF Inv, TurnInv
<1>2. turn.work \in Seq(Messages) /\ turn.iter \in Nat /\ turn.iter <= MaxIterations
  BY <1>1, TurnIs DEF Working
<1>3. PICK k \in Nat, i \in Nat, l \in Nat :
          k = Count(turn.work) /\ i = turn.iter /\ l = MaxIterations
  BY <1>2, CountIs, Limits
<1>4. k <= l
  <2>1. k <= Allowed(turn, phase) /\ i <= l
    BY <1>1, <1>2, <1>3 DEF Working
  <2>2. phase = "tools" => i < l
    BY <1>1, <1>3 DEF Working
  <2> QED
    BY <1>3, <2>1, <2>2 DEF Allowed
<1> QED
  BY <1>3, <1>4 DEF BoundedWork, Count, Responses

LEMMA InvNoFalseInterruption ==
    ASSUME Inv
    PROVE  NoFalseInterruption
  BY HistoriesLegal DEF NoFalseInterruption, Legal, NeverFalse

LEMMA InvCallsAnswered ==
    ASSUME Inv
    PROVE  CallsAnswered
  BY HistoriesLegal DEF CallsAnswered, Legal, Answered

LEMMA InvNothingTwice ==
    ASSUME Inv
    PROVE  NothingTwice
  BY HistoriesLegal DEF NothingTwice, Legal, Once

LEMMA InvAnsweredRecorded ==
    ASSUME Inv
    PROVE  AnsweredRecorded
<1>1. \A i \in finished : Has(disk.messages, i)
  BY DEF Inv, SoundInv, Sound
<1> QED
  BY <1>1 DEF AnsweredRecorded, Has, Elems

-----------------------------------------------------------------------------
\* The invariant holds in every state: wherever a turn is, the session and its file
\* can be restored to a legal history, and what the turn has made so far can be added
\* to it (agent/turn_orchestrator.py, agent/session_turn.py).
THEOREM InvHolds == Spec => []Inv
<1>1. Init => Inv
  BY InitHolds
<1>2. Inv /\ [Next]_vars => Inv'
  BY NextHolds
<1> QED
  BY <1>1, <1>2, PTL DEF Spec

\* Every state has its type; no way round the loop buys a turn more responses than
\* max_iterations allows; and no restore notes an interruption after an input whose
\* turn ran to its reply (agent/runner.py, agent/session_turn.py).
THEOREM TurnConsistentHolds == Spec => []TurnConsistent
<1>1. Inv => TurnConsistent
  BY InvTypeOK, InvBoundedWork, InvNoFalseInterruption DEF TurnConsistent
<1> QED
  BY <1>1, InvHolds, PTL

\* Wherever a turn is cut off, every tool call of the histories a later turn may start
\* from is directly followed by its results (_restore_runtime_checkpoint in
\* agent/session_turn.py).
THEOREM CallsAnsweredHolds == Spec => []CallsAnswered
<1>1. Inv => CallsAnswered
  BY InvCallsAnswered
<1> QED
  BY <1>1, InvHolds, PTL

\* Restoring never repeats a response, a tool result or an input, unless archiving at
\* the file cap raised (_restore_runtime_checkpoint, _save_turn in
\* agent/session_turn.py).
THEOREM NothingTwiceHolds == Spec => []NothingTwice
<1>1. Inv => NothingTwice
  BY InvNothingTwice
<1> QED
  BY <1>1, InvHolds, PTL

\* Every input whose turn came to its reply is in the session file (the save states of
\* agent/turn_orchestrator.py).
THEOREM AnsweredRecordedHolds == Spec => []AnsweredRecorded
<1>1. Inv => AnsweredRecorded
  BY InvAnsweredRecorded
<1> QED
  BY <1>1, InvHolds, PTL
=============================================================================
