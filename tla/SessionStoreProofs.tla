------------------------- MODULE SessionStoreProofs -------------------------
(***************************************************************************)
(* The session store, for any worlds: what was deleted stays deleted, what *)
(* was saved is kept or archived, the consolidation lock has one holder    *)
(* and the cursor of the file is an index.                                 *)
(***************************************************************************)
EXTENDS SessionStore, Integers, SequenceTheorems, FiniteSetTheorems, WellFoundedInduction, TLAPS

Roles == {"user", "call", "tool", "assistant", "delivery"}
Msgs == [role : Roles, of : Nat]
Texts == Seq(Msgs)

-----------------------------------------------------------------------------
(***************************************************************************)
(* Sequences.                                                              *)
(***************************************************************************)
\* A set of naturals that is not empty has a least element.
LEMMA LeastIs ==
    ASSUME NEW S, S \subseteq Nat, S # {}
    PROVE  Least(S) \in S /\ \A y \in S : Least(S) <= y
<1>1. PICK x \in S : \A y \in S : ~(<<y, x>> \in OpToRel(<, Nat))
  BY NatLessThanWellFounded, WFMin
<1>2. ASSUME NEW y \in S PROVE ~(y < x)
  <2>1. <<y, x>> \in Nat \X Nat
    OBVIOUS
  <2> QED
    BY <1>1, <2>1 DEF OpToRel
<1>3. \A y \in S : y \in Nat /\ x \in Nat
  OBVIOUS
<1>4. \A y \in S : x <= y
  BY <1>2, <1>3
<1> QED
  BY <1>4 DEF Least

\* One that is bounded has a greatest.
LEMMA GreatestIs ==
    ASSUME NEW n \in Nat, NEW S, S \subseteq 0 .. n, S # {}
    PROVE  Greatest(S) \in S /\ \A y \in S : y <= Greatest(S)
<1> DEFINE T == {n - y : y \in S}
<1>1. T \subseteq Nat /\ T # {}
  <2>1. \A y \in S : n - y \in Nat
    OBVIOUS
  <2> QED
    BY <2>1
<1>2. Least(T) \in T /\ \A y \in T : Least(T) <= y
  <2> HIDE DEF T
  <2> QED
    BY <1>1, LeastIs
<1>3. PICK x \in S : Least(T) = n - x
  BY <1>2
<1>4. ASSUME NEW y \in S PROVE x >= y
  <2>1. n - x <= n - y
    BY <1>2, <1>3
  <2> QED
    BY <2>1
<1>5. \E x1 \in S : \A y \in S : x1 >= y
  BY <1>4
<1>6. Greatest(S) \in S /\ \A y \in S : Greatest(S) >= y
  BY <1>5 DEF Greatest
<1> QED
  BY <1>6

\* Place i among the last ones of n.
LEMMA Behind ==
    ASSUME NEW n \in Nat, NEW k \in Nat, NEW i \in 1 .. n, i > k
    PROVE  i - k \in 1 .. n - k /\ k + (i - k) = i
OBVIOUS

LEMMA AfterIs ==
    ASSUME NEW M, NEW ms \in Seq(M), NEW n \in 0 .. Len(ms)
    PROVE  /\ After(n, ms) \in Seq(M) /\ Len(After(n, ms)) = Len(ms) - n
           /\ \A i \in 1 .. Len(ms) - n : After(n, ms)[i] = ms[n + i]
<1>1. \A i \in n + 1 .. Len(ms) : ms[i] \in M
  BY ElementOfSeq
<1>2. /\ SubSeq(ms, n + 1, Len(ms)) \in Seq(M)
      /\ Len(SubSeq(ms, n + 1, Len(ms))) = Len(ms) - n
      /\ \A i \in 1 .. Len(ms) - n : SubSeq(ms, n + 1, Len(ms))[i] = ms[n + i]
  OBVIOUS
<1> QED
  BY <1>2 DEF After

LEMMA LastOfIs ==
    ASSUME NEW M, NEW ms \in Seq(M), NEW n \in Nat
    PROVE  \E k \in 0 .. Len(ms) :
              LastOf(n, ms) = After(k, ms) /\ k = (IF n < Len(ms) THEN Len(ms) - n ELSE 0)
<1> DEFINE k == IF n < Len(ms) THEN Len(ms) - n ELSE 0
<1>1. k \in 0 .. Len(ms)
  OBVIOUS
<1>2. LastOf(n, ms) = After(k, ms)
  BY DEF LastOf, After
<1> QED
  BY <1>1, <1>2

LEMMA LegalStartIs ==
    ASSUME NEW M, NEW ms \in Seq(M)
    PROVE  LegalStart(ms) \in 0 .. Len(ms)
<1> DEFINE S == {n \in 0 .. Len(ms) : Legal(ms, n)}
<1>1. Len(ms) \in S /\ S \subseteq Nat
  BY DEF Legal
<1>2. Least(S) \in S /\ \A k \in S : Least(S) <= k
  <2> HIDE DEF S
  <2> QED
    BY <1>1, LeastIs
<1>3. /\ Least(S) \in 0 .. Len(ms) /\ Legal(ms, Least(S))
      /\ \A k \in 0 .. Least(S) - 1 : ~Legal(ms, k)
  <2>1. ASSUME NEW k \in 0 .. Least(S) - 1, Legal(ms, k) PROVE FALSE
    BY <1>1, <1>2, <2>1
  <2> QED
    BY <1>2, <2>1
<1>4. \E n \in 0 .. Len(ms) : Legal(ms, n) /\ \A k \in 0 .. n - 1 : ~Legal(ms, k)
  BY <1>3
<1> QED
  BY <1>4 DEF LegalStart

LEMMA AfterAfter ==
    ASSUME NEW M, NEW ms \in Seq(M), NEW k \in 0 .. Len(ms), NEW j \in 0 .. Len(ms) - k
    PROVE  After(j, After(k, ms)) = After(k + j, ms)
<1>1. /\ After(k, ms) \in Seq(M) /\ Len(After(k, ms)) = Len(ms) - k
      /\ \A i \in 1 .. Len(ms) - k : After(k, ms)[i] = ms[k + i]
  BY AfterIs
<1>2. k + j \in 0 .. Len(ms) /\ j \in 0 .. Len(After(k, ms))
  BY <1>1
<1>3. /\ After(j, After(k, ms)) \in Seq(M) /\ Len(After(j, After(k, ms))) = Len(ms) - k - j
      /\ \A i \in 1 .. Len(ms) - k - j : After(j, After(k, ms))[i] = After(k, ms)[j + i]
  BY <1>1, <1>2, AfterIs
<1>4. /\ After(k + j, ms) \in Seq(M) /\ Len(After(k + j, ms)) = Len(ms) - (k + j)
      /\ \A i \in 1 .. Len(ms) - (k + j) : After(k + j, ms)[i] = ms[k + j + i]
  BY <1>2, AfterIs
<1>5. Len(After(j, After(k, ms))) = Len(After(k + j, ms))
  BY <1>3, <1>4
<1>6. ASSUME NEW i \in 1 .. Len(After(j, After(k, ms)))
      PROVE  After(j, After(k, ms))[i] = After(k + j, ms)[i]
  <2>1. i \in 1 .. Len(ms) - k - j /\ j + i \in 1 .. Len(ms) - k /\ i \in 1 .. Len(ms) - (k + j)
    BY <1>3, <1>6
  <2>2. After(j, After(k, ms))[i] = ms[k + (j + i)]
    BY <1>1, <1>3, <2>1
  <2>3. After(k + j, ms)[i] = ms[k + j + i] /\ k + (j + i) = k + j + i
    BY <1>4, <2>1
  <2> QED
    BY <2>2, <2>3
<1> QED
  BY <1>3, <1>4, <1>5, <1>6, SeqEqual

\* t is made of what ms has.
PartOf(t, ms) == t \in Texts /\ Len(t) <= Len(ms) /\ Elems(t) \subseteq Elems(ms)

LEMMA PartOfPart ==
    ASSUME NEW t, NEW u, NEW ms \in Texts, PartOf(t, u), PartOf(u, ms)
    PROVE  PartOf(t, ms)
<1>1. Len(t) \in Nat /\ Len(u) \in Nat /\ Len(ms) \in Nat
  BY DEF PartOf, Texts
<1> QED
  BY <1>1 DEF PartOf

LEMMA AfterPart ==
    ASSUME NEW ms \in Texts, NEW n \in 0 .. Len(ms)
    PROVE  PartOf(After(n, ms), ms)
<1>1. /\ After(n, ms) \in Texts /\ Len(After(n, ms)) = Len(ms) - n
      /\ \A i \in 1 .. Len(ms) - n : After(n, ms)[i] = ms[n + i]
  BY AfterIs DEF Texts
<1>2. DOMAIN After(n, ms) = 1 .. Len(After(n, ms)) /\ DOMAIN ms = 1 .. Len(ms) /\ Len(ms) \in Nat
  BY <1>1 DEF Texts
<1>3. \A i \in 1 .. Len(ms) - n : n + i \in 1 .. Len(ms)
  BY <1>2
<1>4. Elems(After(n, ms)) \subseteq Elems(ms)
  BY <1>1, <1>2, <1>3 DEF Elems
<1> QED
  BY <1>1, <1>2, <1>4 DEF PartOf

LEMMA FirstPart ==
    ASSUME NEW ms \in Texts, NEW n \in 0 .. Len(ms)
    PROVE  /\ PartOf(SubSeq(ms, 1, n), ms) /\ Len(SubSeq(ms, 1, n)) = n
           /\ \A i \in 1 .. n : SubSeq(ms, 1, n)[i] = ms[i]
<1>1. Len(ms) \in Nat /\ n \in Nat /\ \A i \in 1 .. n : ms[i] \in Msgs
  BY DEF Texts
<1>2. /\ SubSeq(ms, 1, n) \in Seq(Msgs) /\ Len(SubSeq(ms, 1, n)) = n
      /\ \A i \in 1 .. n : SubSeq(ms, 1, n)[i] = ms[i]
  BY <1>1
<1>3. DOMAIN SubSeq(ms, 1, n) = 1 .. n /\ DOMAIN ms = 1 .. Len(ms) /\ 1 .. n \subseteq 1 .. Len(ms)
  BY <1>1, <1>2 DEF Texts
<1>4. Elems(SubSeq(ms, 1, n)) \subseteq Elems(ms)
  BY <1>2, <1>3 DEF Elems
<1> QED
  BY <1>1, <1>2, <1>4 DEF PartOf, Texts

LEMMA UsersAre ==
    ASSUME NEW ms \in Texts
    PROVE  /\ Users(ms) = {i \in 1 .. Len(ms) : ms[i].role = "user"} /\ Users(ms) \subseteq 1 .. Len(ms)
           /\ Users(ms) # {} => Least(Users(ms)) \in Users(ms) /\ Greatest(Users(ms)) \in Users(ms)
<1>1. Users(ms) = {i \in 1 .. Len(ms) : ms[i].role = "user"} /\ Users(ms) \subseteq 1 .. Len(ms)
      /\ Len(ms) \in Nat
  BY DEF Users, Texts
<1>2. Users(ms) \subseteq Nat /\ Users(ms) \subseteq 0 .. Len(ms)
  BY <1>1
<1> QED
  BY <1>1, <1>2, LeastIs, GreatestIs

\* What is kept of a text is a part of it; its end, when a user's message is
\* among the last ones.
LEMMA RetainedIs ==
    ASSUME NEW ms \in Texts, NEW max \in Nat \ {0}
    PROVE  /\ PartOf(Retained(ms, max), ms)
           /\ (\E i \in 1 .. Len(ms) : i > Len(ms) - max /\ ms[i].role = "user") =>
                 \E k \in 0 .. Len(ms) : Retained(ms, max) = After(k, ms)
<1> DEFINE tail == LastOf(max, ms)
           rest == After(Greatest(Users(ms)) - 1, ms)
           n == IF max < Len(rest) THEN max ELSE Len(rest)
           window == IF Users(tail) # {} THEN After(Least(Users(tail)) - 1, tail)
                     ELSE IF Users(ms) # {} THEN SubSeq(rest, 1, n) ELSE tail
<1>0. Len(ms) \in Nat /\ max \in Nat /\ max > 0
  BY DEF Texts
<1>1. PICK k \in 0 .. Len(ms) : tail = After(k, ms) /\ k = (IF max < Len(ms) THEN Len(ms) - max ELSE 0)
  BY <1>0, LastOfIs DEF Texts
<1>2. PartOf(tail, ms) /\ tail \in Texts /\ Len(tail) = Len(ms) - k
      /\ \A i \in 1 .. Len(ms) - k : tail[i] = ms[k + i]
  <2>1. PartOf(After(k, ms), ms)
    BY <1>1, AfterPart
  <2>2. ms \in Seq(Msgs)
    BY DEF Texts
  <2>3. /\ Len(After(k, ms)) = Len(ms) - k
        /\ \A i \in 1 .. Len(ms) - k : After(k, ms)[i] = ms[k + i]
    BY <1>1, <2>2, AfterIs
  <2>4. tail = After(k, ms)
    BY <1>1
  <2> HIDE DEF tail
  <2> QED
    BY <2>1, <2>3, <2>4 DEF PartOf
<1> HIDE DEF tail
<1>3. ASSUME Users(tail) # {}
      PROVE  /\ Least(Users(tail)) - 1 \in 0 .. Len(tail) /\ window = After(Least(Users(tail)) - 1, tail)
             /\ window = After(k + (Least(Users(tail)) - 1), ms)
             /\ k + (Least(Users(tail)) - 1) \in 0 .. Len(ms)
  <2>1. Least(Users(tail)) \in 1 .. Len(tail)
    BY <1>2, <1>3, UsersAre
  <2>2. Least(Users(tail)) - 1 \in 0 .. Len(ms) - k
    BY <1>0, <1>2, <2>1
  <2>3. After(Least(Users(tail)) - 1, tail) = After(k + (Least(Users(tail)) - 1), ms)
    BY <1>1, <2>2, AfterAfter DEF Texts
  <2>4. Least(Users(tail)) - 1 \in 0 .. Len(tail) /\ k + (Least(Users(tail)) - 1) \in 0 .. Len(ms)
    <3> DEFINE j == Least(Users(tail)) - 1
    <3>1. j \in 0 .. Len(ms) - k /\ k \in 0 .. Len(ms) /\ Len(tail) = Len(ms) - k
      BY <1>1, <1>2, <2>2
    <3> HIDE DEF j
    <3>2. j \in 0 .. Len(tail) /\ k + j \in 0 .. Len(ms)
      BY <1>0, <3>1
    <3> QED
      BY <3>2 DEF j
  <2>5. window = After(Least(Users(tail)) - 1, tail)
    BY <1>3
  <2> HIDE DEF window
  <2> QED
    BY <2>3, <2>4, <2>5
<1>4. PartOf(window, ms) /\ window \in Texts
  <2>1. CASE Users(tail) # {}
    BY <1>3, <2>1, AfterPart DEF PartOf
  <2>2. CASE Users(tail) = {} /\ Users(ms) # {}
    <3>1. Greatest(Users(ms)) \in 1 .. Len(ms)
      BY <2>2, UsersAre
    <3>2. Greatest(Users(ms)) - 1 \in 0 .. Len(ms)
      BY <1>0, <3>1
    <3>3. PartOf(rest, ms) /\ rest \in Texts /\ Len(rest) \in Nat
      BY <3>2, AfterPart DEF PartOf, Texts
    <3> HIDE DEF rest
    <3>4. n \in 0 .. Len(rest)
      BY <1>0, <3>3
    <3> HIDE DEF n
    <3>5. PartOf(SubSeq(rest, 1, n), rest)
      BY <3>3, <3>4, FirstPart
    <3>6. window = SubSeq(rest, 1, n)
      BY <2>2
    <3> HIDE DEF window
    <3> QED
      BY <3>3, <3>5, <3>6, PartOfPart DEF PartOf
  <2>3. CASE Users(tail) = {} /\ Users(ms) = {}
    BY <1>2, <2>3
  <2> QED
    BY <2>1, <2>2, <2>3
<1>5. Retained(ms, max) = IF Len(ms) <= max THEN ms ELSE After(LegalStart(window), window)
  BY DEF Retained, tail
<1> HIDE DEF window
<1>6. LegalStart(window) \in 0 .. Len(window) /\ PartOf(After(LegalStart(window), window), window)
  BY <1>4, LegalStartIs, AfterPart DEF Texts
<1>7. PartOf(Retained(ms, max), ms)
  <2>1. PartOf(ms, ms)
    BY <1>0 DEF PartOf
  <2>2. PartOf(After(LegalStart(window), window), ms)
    BY <1>4, <1>6, PartOfPart
  <2> QED
    BY <1>5, <2>1, <2>2
<1>8. ASSUME NEW i \in 1 .. Len(ms), i > Len(ms) - max, ms[i].role = "user"
      PROVE  \E k2 \in 0 .. Len(ms) : Retained(ms, max) = After(k2, ms)
  <2>1. CASE Len(ms) <= max
    <3>1. After(0, ms) = ms
      BY SubSeqFull DEF After, Texts
    <3> QED
      BY <1>0, <1>5, <2>1, <3>1
  <2>2. CASE ~(Len(ms) <= max)
    <3>0. k = Len(ms) - max /\ i - k \in 1 .. Len(ms) - k /\ k + (i - k) = i
      <4>1. k = Len(ms) - max /\ k \in Nat
        BY <1>0, <1>1, <2>2
      <4>2. i > k
        BY <1>8, <4>1
      <4> QED
        BY <1>0, <4>1, <4>2, Behind
    <3>1. i - k \in 1 .. Len(tail) /\ tail[i - k] = ms[i]
      BY <1>2, <3>0
    <3>2. Users(tail) # {}
      BY <1>2, <1>8, <3>1, UsersAre
    <3> DEFINE a == k + (Least(Users(tail)) - 1)
    <3>3. window = After(a, ms) /\ a \in 0 .. Len(ms)
      BY <1>3, <3>2
    <3> HIDE DEF a
    <3>4. Len(window) = Len(ms) - a
      BY <3>3, AfterIs DEF Texts
    <3>5. /\ LegalStart(window) \in 0 .. Len(ms) - a
          /\ a + LegalStart(window) \in 0 .. Len(ms)
      BY <1>0, <1>6, <3>3, <3>4
    <3>6. After(LegalStart(window), window) = After(a + LegalStart(window), ms)
      BY <3>3, <3>5, AfterAfter DEF Texts
    <3> QED
      BY <1>5, <2>2, <3>5, <3>6
  <2> QED
    BY <2>1, <2>2
<1> QED
  BY <1>7, <1>8

\* A slice of a text: what is from a + 1 to b in it.
LEMMA SliceIs ==
    ASSUME NEW ms \in Texts, NEW a \in Nat, NEW b \in 0 .. Len(ms)
    PROVE  /\ SubSeq(ms, a + 1, b) \in Texts
           /\ Elems(SubSeq(ms, a + 1, b)) \subseteq Elems(ms)
           /\ \A i \in a + 1 .. b : ms[i] \in Elems(SubSeq(ms, a + 1, b))
<1> DEFINE t == SubSeq(ms, a + 1, b)
<1>0. Len(ms) \in Nat /\ ms \in Seq(Msgs) /\ DOMAIN ms = 1 .. Len(ms)
  BY DEF Texts
<1>1. CASE a >= b
  <2>1. t = <<>>
    BY <1>0, <1>1, SubSeqEmpty
  <2>2. Elems(t) = {} /\ t \in Texts
    BY <2>1 DEF Elems, Texts
  <2> QED
    BY <1>0, <1>1, <2>2
<1>2. CASE a < b
  <2>1. \A i \in a + 1 .. b : ms[i] \in Msgs
    BY <1>0, <1>2, ElementOfSeq
  <2>2. t \in Seq(Msgs) /\ Len(t) = b - a /\ \A i \in 1 .. b - a : t[i] = ms[a + i]
    BY <1>0, <1>2, <2>1
  <2>3. DOMAIN t = 1 .. b - a
    BY <2>2
  <2> HIDE DEF t
  <2>4. \A i \in 1 .. b - a : a + i \in 1 .. Len(ms)
    BY <1>0, <1>2
  <2>5. Elems(t) \subseteq Elems(ms)
    BY <1>0, <2>2, <2>3, <2>4 DEF Elems
  <2>6. \A i \in a + 1 .. b : i - a \in 1 .. b - a /\ ms[i] = t[i - a]
    <3>1. \A i \in a + 1 .. b : i - a \in 1 .. b - a /\ a + (i - a) = i
      BY <1>0, <1>2
    <3> QED
      BY <2>2, <3>1
  <2>7. \A i \in a + 1 .. b : ms[i] \in Elems(t)
    BY <2>3, <2>6 DEF Elems
  <2> QED
    BY <2>2, <2>5, <2>7 DEF t, Texts
<1> QED
  BY <1>0, <1>1, <1>2

LEMMA TailPart ==
    ASSUME NEW ms \in Texts, NEW n \in Nat
    PROVE  /\ PartOf(After(n, ms), ms)
           /\ n >= Len(ms) => After(n, ms) = <<>>
<1>0. Len(ms) \in Nat /\ ms \in Seq(Msgs)
  BY DEF Texts
<1>1. CASE n <= Len(ms)
  BY <1>0, <1>1, AfterPart, SubSeqEmpty DEF After
<1>2. CASE n > Len(ms)
  <2>1. After(n, ms) = <<>>
    BY <1>0, <1>2, SubSeqEmpty DEF After
  <2> QED
    BY <1>0, <2>1 DEF PartOf, Elems, Texts
<1> QED
  BY <1>0, <1>1, <1>2

\* What the replay window shows is a part of it.
LEMMA ShownIs ==
    ASSUME NEW w \in Texts
    PROVE  Len(Shown(w)) \in 0 .. Len(w)
<1> DEFINE first == IF Users(w) = {} THEN 1 ELSE Least(Users(w))
           from == IF first > 1 /\ w[first - 1].role = "delivery" THEN first - 1 ELSE first
           shown == After(from - 1, w)
<1>0. Len(w) \in Nat
  BY DEF Texts
<1>1. first \in Nat \ {0}
  BY <1>0, UsersAre
<1> HIDE DEF first
<1>2. from - 1 \in Nat
  BY <1>1
<1> HIDE DEF from
<1>3. PartOf(shown, w) /\ shown \in Texts
  BY <1>2, TailPart DEF PartOf
<1> HIDE DEF shown
<1>4. LegalStart(shown) \in 0 .. Len(shown)
  BY <1>3, LegalStartIs DEF Texts
<1>5. PartOf(After(LegalStart(shown), shown), shown)
  BY <1>3, <1>4, AfterPart
<1>6. PartOf(After(LegalStart(shown), shown), w)
  BY <1>3, <1>5, PartOfPart
<1>7. Shown(w) = After(LegalStart(shown), shown)
  BY DEF Shown, shown, from, first
<1> QED
  BY <1>0, <1>6, <1>7 DEF PartOf, Texts

-----------------------------------------------------------------------------
(***************************************************************************)
(* The store.                                                              *)
(***************************************************************************)
Sessions == [messages : Texts, cursor : Nat]
Objects == [messages : Texts, cursor : Nat, gen : Nat]
ObjectLists == Seq(Objects)
Stores == [objs : ObjectLists, cached : Nat, file : Sessions, gen : Nat, tomb : Nat]
Content(x) == [messages |-> x.messages, cursor |-> x.cursor]

StoreOK(s) ==
    /\ s \in Stores
    /\ s.cached \in 0 .. Len(s.objs)
    /\ s.tomb <= s.gen
    /\ \A o \in 1 .. Len(s.objs) : s.objs[o].gen <= s.gen
    /\ s.cached # 0 => s.objs[s.cached].gen >= s.tomb

\* What is in the file, and in the objects from generation g on, is in T.
Holds(s, g, T) ==
    /\ s.file \in T
    /\ \A o \in 1 .. Len(s.objs) : s.objs[o].gen >= g => Content(s.objs[o]) \in T

LEMMA ObjectIs ==
    ASSUME NEW s \in Stores
    PROVE  /\ Len(s.objs) \in Nat /\ s.objs \in Seq(Objects) /\ DOMAIN s.objs = 1 .. Len(s.objs)
           /\ \A o \in 1 .. Len(s.objs) :
                 /\ s.objs[o] \in Objects /\ s.objs[o].messages \in Texts
                 /\ s.objs[o].cursor \in Nat /\ s.objs[o].gen \in Nat
<1>1. s.objs \in Seq(Objects)
  BY DEF Stores, ObjectLists
<1>2. Len(s.objs) \in Nat /\ DOMAIN s.objs = 1 .. Len(s.objs)
      /\ \A o \in 1 .. Len(s.objs) : s.objs[o] \in Objects
  BY <1>1
<1>3. \A x \in Objects : x.messages \in Texts /\ x.cursor \in Nat /\ x.gen \in Nat
  BY DEF Objects
<1> QED
  BY <1>1, <1>2, <1>3

\* Look-ups: what is new are copies of the file, at work from now on.
Looked(s, t) ==
    /\ StoreOK(t)
    /\ t.file = s.file /\ t.tomb = s.tomb
    /\ Len(s.objs) <= Len(t.objs)
    /\ \A i \in 1 .. Len(s.objs) : t.objs[i] = s.objs[i]
    /\ \A i \in 1 .. Len(t.objs) : i > Len(s.objs) =>
          Content(t.objs[i]) = s.file /\ t.objs[i].gen >= s.tomb

LEMMA FetchIs ==
    ASSUME NEW s, StoreOK(s)
    PROVE  /\ Looked(s, Fetch(s)) /\ Fetch(s).cached \in 1 .. Len(Fetch(s).objs)
           /\ s.cached # 0 => Fetch(s) = s
           /\ s.cached = 0 => Content(Fetch(s).objs[Fetch(s).cached]) = s.file
           /\ s.tomb = 0 => Fetch(s).gen = s.gen
<1> DEFINE gen == IF s.tomb # 0 /\ s.tomb >= s.gen THEN s.tomb + 1 ELSE s.gen
           new == [messages |-> s.file.messages, cursor |-> s.file.cursor, gen |-> gen]
           objs == Append(s.objs, new)
           n == Len(s.objs) + 1
           f == [s EXCEPT !.objs = objs, !.cached = n, !.gen = gen]
<1>0. /\ s \in Stores /\ s.file \in Sessions /\ s.gen \in Nat /\ s.tomb \in Nat
      /\ s.objs \in Seq(Objects) /\ Len(s.objs) \in Nat /\ s.tomb <= s.gen
  BY ObjectIs DEF StoreOK, Stores
<1>1. CASE s.cached # 0
  <2>1. Fetch(s) = s
    BY <1>1 DEF Fetch
  <2>2. s.cached \in 1 .. Len(s.objs)
    BY <1>0, <1>1 DEF StoreOK
  <2> QED
    BY <1>0, <1>1, <2>1, <2>2 DEF Looked
<1>2. CASE s.cached = 0
  <2>1. Fetch(s) = f
    BY <1>2 DEF Fetch
  <2>2. gen \in Nat /\ gen >= s.gen /\ gen >= s.tomb /\ (s.tomb = 0 => gen = s.gen)
    BY <1>0
  <2> HIDE DEF gen
  <2>3. new \in Objects /\ new.gen = gen /\ Content(new) = s.file
    BY <1>0, <2>2 DEF Objects, Sessions, Content
  <2> HIDE DEF new
  <2>4. /\ objs \in Seq(Objects) /\ Len(objs) = n /\ objs[n] = new
        /\ \A i \in 1 .. Len(s.objs) : objs[i] = s.objs[i]
    BY <1>0, <2>3, AppendProperties
  <2>5. objs \in ObjectLists /\ n \in Nat
    BY <1>0, <2>4 DEF ObjectLists
  <2> HIDE DEF objs
  <2>6. /\ f \in Stores /\ f.objs = objs /\ f.cached = n /\ f.gen = gen
        /\ f.file = s.file /\ f.tomb = s.tomb
    BY <1>0, <2>2, <2>5 DEF Stores
  <2> HIDE DEF f
  <2>7. \A i \in 1 .. n : i \in 1 .. Len(s.objs) \/ i = n
    BY <1>0
  <2>8. \A i \in 1 .. Len(s.objs) : s.objs[i].gen \in Nat /\ s.objs[i].gen <= s.gen
    BY <1>0, ObjectIs DEF StoreOK
  <2>9. ASSUME NEW i \in 1 .. n PROVE f.objs[i].gen <= f.gen
    <3>1. CASE i \in 1 .. Len(s.objs)
      <4>1. f.objs[i] = s.objs[i] /\ f.gen = gen
        BY <2>4, <2>6, <3>1
      <4>2. s.objs[i].gen \in Nat /\ s.objs[i].gen <= s.gen
        BY <2>8, <3>1
      <4>3. s.gen \in Nat /\ gen \in Nat /\ gen >= s.gen
        BY <1>0, <2>2
      <4>4. s.objs[i].gen <= gen
        BY ONLY <4>2, <4>3
      <4> QED
        BY <4>1, <4>4
    <3>2. CASE i = n
      BY <2>2, <2>3, <2>4, <2>6, <3>2
    <3> QED
      BY <2>7, <3>1, <3>2
  <2>10. StoreOK(f)
    BY <1>0, <2>2, <2>3, <2>4, <2>5, <2>6, <2>9 DEF StoreOK
  <2>11. Looked(s, f)
    BY <1>0, <2>2, <2>3, <2>4, <2>6, <2>7, <2>10 DEF Looked
  <2> QED
    BY <1>0, <1>2, <2>1, <2>2, <2>3, <2>4, <2>5, <2>6, <2>11
<1> QED
  BY <1>1, <1>2

\* One write: [ms, c] goes into the object o, and into the file unless o is
\* from before the delete.
Wrote(s, t, o, ms, c) ==
    /\ StoreOK(t)
    /\ t.tomb = s.tomb /\ t.gen = s.gen /\ Len(t.objs) = Len(s.objs)
    /\ \A i \in 1 .. Len(s.objs) : i # o => t.objs[i] = s.objs[i]
    /\ t.objs[o].gen = s.objs[o].gen
    /\ Content(t.objs[o]) = [messages |-> ms, cursor |-> c]
    /\ IF s.objs[o].gen < s.tomb THEN t.file = s.file /\ t.cached = s.cached
       ELSE /\ t.file = [messages |-> ms, cursor |-> c]
            /\ t.cached = (IF s.cached = 0 THEN o ELSE s.cached)

LEMMA SaveIs ==
    ASSUME NEW s, StoreOK(s), NEW o \in 1 .. Len(s.objs), NEW ms \in Texts, NEW c \in Nat
    PROVE  Wrote(s, Save(Put(s, o, ms, c), o), o, ms, c)
<1> DEFINE x == [messages |-> ms, cursor |-> c, gen |-> s.objs[o].gen]
           objs == [s.objs EXCEPT ![o] = x]
           q == [s EXCEPT !.objs = objs]
           file == [messages |-> ms, cursor |-> c]
           cached == IF s.cached = 0 THEN o ELSE s.cached
           w == [q EXCEPT !.file = file, !.cached = cached]
<1>0. /\ s \in Stores /\ s.file \in Sessions /\ s.gen \in Nat /\ s.tomb \in Nat /\ s.cached \in Nat
      /\ s.objs \in Seq(Objects) /\ Len(s.objs) \in Nat /\ s.tomb <= s.gen
      /\ s.objs[o] \in Objects /\ s.objs[o].gen \in Nat
      /\ s.cached \in 0 .. Len(s.objs)
      /\ s.objs \in [1 .. Len(s.objs) -> Objects]
  BY ObjectIs DEF StoreOK, Stores
<1>1. Put(s, o, ms, c) = q
  <2>1. [[s.objs[o] EXCEPT !.messages = ms] EXCEPT !.cursor = c] \in Objects
    BY <1>0 DEF Objects
  <2>2. x \in Objects
    BY <1>0 DEF Objects
  <2>3. [[s.objs[o] EXCEPT !.messages = ms] EXCEPT !.cursor = c] = x
    <3> DEFINE r == s.objs[o]
               y == [[r EXCEPT !.messages = ms] EXCEPT !.cursor = c]
    <3>1. r \in Objects /\ x.gen = r.gen /\ x.messages = ms /\ x.cursor = c
      BY <1>0
    <3> HIDE DEF r, x
    <3>2. y \in Objects /\ y.messages = ms /\ y.cursor = c /\ y.gen = r.gen
      BY <3>1 DEF Objects
    <3> HIDE DEF y
    <3>3. x = y
      BY <2>2, <3>1, <3>2 DEF Objects
    <3> QED
      BY <3>3 DEF y, r
  <2>4. Put(s, o, ms, c) = [s EXCEPT !.objs = [[s.objs EXCEPT ![o].messages = ms] EXCEPT ![o].cursor = c]]
    BY <1>0 DEF Put, Stores
  <2>5. [[s.objs EXCEPT ![o].messages = ms] EXCEPT ![o].cursor = c] = objs
    BY <1>0, <2>3
  <2> QED
    BY <2>4, <2>5
<1>2. x \in Objects /\ x.gen = s.objs[o].gen /\ Content(x) = file
  BY <1>0 DEF Objects, Content
<1> HIDE DEF x
<1>3. /\ objs \in Seq(Objects) /\ Len(objs) = Len(s.objs) /\ objs[o] = x
      /\ \A i \in 1 .. Len(s.objs) : i # o => objs[i] = s.objs[i]
  BY <1>0, <1>2, ExceptSeq
<1>4. objs \in ObjectLists /\ file \in Sessions /\ cached \in 0 .. Len(s.objs) /\ cached \in Nat
  BY <1>0, <1>3 DEF ObjectLists, Sessions
<1>5. \A i \in 1 .. Len(s.objs) : objs[i].gen = s.objs[i].gen
  BY <1>2, <1>3
<1> HIDE DEF objs
<1>6. /\ q \in Stores /\ q.objs = objs /\ q.cached = s.cached /\ q.gen = s.gen
      /\ q.file = s.file /\ q.tomb = s.tomb
  BY <1>0, <1>4 DEF Stores
<1>7. [q EXCEPT !.file = [messages |-> q.objs[o].messages, cursor |-> q.objs[o].cursor],
                !.cached = IF @ = 0 THEN o ELSE @] = w
  BY <1>2, <1>3, <1>6 DEF Stores, Content
<1> HIDE DEF q, file, cached
<1>8. /\ w \in Stores /\ w.objs = objs /\ w.cached = cached /\ w.gen = s.gen
      /\ w.file = file /\ w.tomb = s.tomb
  BY <1>0, <1>4, <1>6 DEF Stores
<1> HIDE DEF w
<1>9. Save(Put(s, o, ms, c), o) = IF s.objs[o].gen < s.tomb THEN q ELSE w
  BY <1>1, <1>3, <1>5, <1>6, <1>7 DEF Save
<1>10. CASE s.objs[o].gen < s.tomb
  <2>1. StoreOK(q)
    BY <1>0, <1>3, <1>5, <1>6 DEF StoreOK
  <2>2. Wrote(s, q, o, ms, c)
    BY <1>2, <1>3, <1>5, <1>6, <1>10, <2>1 DEF Wrote, file
  <2> QED
    BY <1>9, <1>10, <2>2
<1>11. CASE ~(s.objs[o].gen < s.tomb)
  <2>1. cached # 0 => s.objs[cached].gen >= s.tomb
    BY <1>0, <1>11 DEF StoreOK, cached
  <2>2. StoreOK(w)
    BY <1>0, <1>3, <1>4, <1>5, <1>8, <2>1 DEF StoreOK
  <2>3. Wrote(s, w, o, ms, c)
    BY <1>2, <1>3, <1>5, <1>8, <1>11, <2>2 DEF Wrote, file, cached
  <2> QED
    BY <1>9, <1>11, <2>3
<1> QED
  BY <1>10, <1>11

\* A save alone writes what the object has.
LEMMA SaveOnlyIs ==
    ASSUME NEW s, StoreOK(s), NEW o \in 1 .. Len(s.objs)
    PROVE  Wrote(s, Save(s, o), o, s.objs[o].messages, s.objs[o].cursor)
<1>0. /\ s \in Stores /\ s.objs \in Seq(Objects) /\ s.objs[o] \in Objects
      /\ s.objs[o].messages \in Texts /\ s.objs[o].cursor \in Nat
  BY ObjectIs DEF StoreOK
<1> DEFINE ms == s.objs[o].messages
           c == s.objs[o].cursor
           x == [[s.objs[o] EXCEPT !.messages = ms] EXCEPT !.cursor = c]
<1>1. x = s.objs[o]
  BY <1>0 DEF Objects
<1>2. Put(s, o, ms, c) = [s EXCEPT !.objs = [s.objs EXCEPT ![o] = x]]
  <2>1. Put(s, o, ms, c) = [s EXCEPT !.objs = [[s.objs EXCEPT ![o].messages = ms] EXCEPT ![o].cursor = c]]
    BY <1>0 DEF Put, Stores
  <2>2. [[s.objs EXCEPT ![o].messages = ms] EXCEPT ![o].cursor = c] = [s.objs EXCEPT ![o] = x]
    BY <1>0
  <2> QED
    BY <2>1, <2>2
<1> HIDE DEF x
<1>3. [s.objs EXCEPT ![o] = x] = s.objs
  BY <1>0, <1>1
<1>4. [s EXCEPT !.objs = s.objs] = s
  BY <1>0 DEF Stores
<1>5. Put(s, o, ms, c) = s
  BY <1>2, <1>3, <1>4
<1>6. Wrote(s, Save(Put(s, o, ms, c), o), o, ms, c)
  BY <1>0, SaveIs
<1> QED
  BY <1>5, <1>6

\* The object in the cache is forgotten.
LEMMA ForgetIs ==
    ASSUME NEW s, StoreOK(s)
    PROVE  LET t == [s EXCEPT !.cached = 0]
           IN  /\ Looked(s, t) /\ t.cached = 0 /\ t.objs = s.objs /\ t.gen = s.gen
<1> DEFINE t == [s EXCEPT !.cached = 0]
<1>1. s \in Stores /\ s.tomb \in Nat /\ s.gen \in Nat /\ Len(s.objs) \in Nat
  BY ObjectIs DEF StoreOK, Stores
<1>2. t \in Stores /\ t.cached = 0 /\ t.objs = s.objs /\ t.gen = s.gen /\ t.tomb = s.tomb
      /\ t.file = s.file
  BY <1>1 DEF Stores
<1> HIDE DEF t
<1>3. StoreOK(t)
  BY <1>1, <1>2 DEF StoreOK
<1>4. Looked(s, t)
  BY <1>1, <1>2, <1>3 DEF Looked
<1> QED
  BY <1>2, <1>4 DEF t

LEMMA LookedHolds ==
    ASSUME NEW g \in Nat, NEW T, NEW s, NEW t, StoreOK(s), Looked(s, t), Holds(s, g, T)
    PROVE  Holds(t, g, T)
<1>1. Len(s.objs) \in Nat /\ Len(t.objs) \in Nat
  BY ObjectIs DEF StoreOK, Looked
<1>2. ASSUME NEW o \in 1 .. Len(t.objs), t.objs[o].gen >= g
      PROVE  Content(t.objs[o]) \in T
  <2>1. CASE o \in 1 .. Len(s.objs)
    BY <1>2, <2>1 DEF Looked, Holds
  <2>2. CASE o > Len(s.objs)
    BY <1>2, <2>2 DEF Looked, Holds
  <2> QED
    BY <1>1, <2>1, <2>2
<1> QED
  BY <1>2 DEF Looked, Holds

LEMMA WroteHolds ==
    ASSUME NEW g \in Nat, NEW T, NEW s, NEW t, NEW o \in 1 .. Len(s.objs), NEW ms, NEW c,
           StoreOK(s), Wrote(s, t, o, ms, c), Holds(s, g, T), g <= s.tomb,
           s.objs[o].gen >= g => [messages |-> ms, cursor |-> c] \in T
    PROVE  Holds(t, g, T)
<1>1. Len(s.objs) \in Nat /\ Len(t.objs) \in Nat /\ s.objs[o].gen \in Nat /\ s.tomb \in Nat
  BY ObjectIs DEF StoreOK, Wrote, Stores
<1>2. ASSUME NEW i \in 1 .. Len(t.objs), t.objs[i].gen >= g
      PROVE  Content(t.objs[i]) \in T
  <2>1. CASE i = o
    BY <1>2, <2>1 DEF Wrote, Holds
  <2>2. CASE i # o
    BY <1>2, <2>2 DEF Wrote, Holds
  <2> QED
    BY <2>1, <2>2
<1>3. t.file \in T
  <2>1. CASE s.objs[o].gen < s.tomb
    BY <2>1 DEF Wrote, Holds
  <2>2. CASE ~(s.objs[o].gen < s.tomb)
    BY <1>1, <2>2 DEF Wrote, Holds
  <2> QED
    BY <2>1, <2>2
<1> QED
  BY <1>2, <1>3 DEF Holds

-----------------------------------------------------------------------------
(***************************************************************************)
(* The types.                                                              *)
(***************************************************************************)
TurnSteps == {"idle", "build", "run"}
JobSteps == {"none", "wait", "archive"}
TurnRecords == [step : TurnSteps, obj : Nat, of : Nat]
JobRecords == [step : JobSteps, obj : Nat, chunk : Texts, end : Nat, kept : Texts]

\* Messages of the first n turns and deliveries, and what is made of some messages.
Known(n) == {m \in Msgs : m.of \in 1 .. n}
TextsOf(T) == {x \in Sessions : Elems(x.messages) \subseteq T}

WorldOK == world \in Worlds /\ made \in Nat /\ made <= world.made /\ asked \in Nat

TurnOK ==
    /\ turn \in TurnRecords /\ turn.obj \in 0 .. Len(store.objs)
    /\ turn.step # "idle" => turn.obj \in 1 .. Len(store.objs) /\ turn.of \in 1 .. made

JobsOK ==
    /\ job \in [Jobs -> JobRecords] /\ line \in Seq(Jobs)
    /\ \A p \in Jobs :
          /\ job[p].step = "none" => job[p] = NoJob
          /\ job[p].step = "archive" => job[p].obj \in 1 .. Len(store.objs)
          /\ Elems(job[p].chunk) \subseteq Known(made) /\ Elems(job[p].kept) \subseteq Known(made)

ContentOK ==
    /\ Holds(store, 0, TextsOf(Known(made)))
    /\ archived \subseteq Known(made) /\ deleted \subseteq Known(made)
    /\ cleared \subseteq Known(made)

TypeInv == WorldOK /\ StoreOK(store) /\ TurnOK /\ JobsOK /\ ContentOK

\* The lock: its line has exactly the jobs at work, once each; the first has it.
LockInv ==
    /\ \A i, j \in 1 .. Len(line) : line[i] = line[j] => i = j
    /\ \A p \in Jobs : p \in Elems(line) <=> job[p].step # "none"
    /\ \A p \in Jobs : job[p].step = "archive" => line # <<>> /\ line[1] = p
    /\ "outlast" \notin world.events => job["idle"].step # "wait"

\* A turn that waits for a consolidation is the last of the line, and nobody else
\* works on the session once it is answered.
TurnInv ==
    /\ turn.step = "run" => line = <<>>
    /\ turn.step = "idle" => job["build"].step = "none"
    /\ turn.step = "build" =>
          IF job["build"].step = "none" THEN line = <<>>
          ELSE line # <<>> /\ line[Len(line)] = "build"

\* What was deleted is in no object that is still saved, nor in what a compaction
\* will write to one; what a turn adds to such an object is not of the deleted.
DeletedInv ==
    /\ Holds(store, store.tomb, {x \in Sessions : Elems(x.messages) \cap deleted = {}})
    /\ job["idle"].step = "archive" /\ store.objs[job["idle"].obj].gen >= store.tomb =>
          Elems(job["idle"].kept) \cap deleted = {}
    /\ turn.step # "idle" /\ store.objs[turn.obj].gen >= store.tomb =>
          \A m \in deleted : m.of # turn.of

CursorInv ==
    world.events \cap {"new", "rewind"} = {} =>
        /\ Holds(store, 0, {x \in Sessions : x.cursor <= Len(x.messages)})
        /\ \A p \in Jobs : p # "idle" /\ job[p].step = "archive" =>
              job[p].end <= Len(store.objs[job[p].obj].messages)

SameInv == SameObject

LEMMA WorldIs ==
    ASSUME WorldOK
    PROVE  /\ world.events \subseteq AllEvents /\ world.made \in Nat /\ world.asked \in Nat
           /\ world.suffix \in Nat \ {0} /\ world.cap \in Nat \ {0} /\ world.replay \in Nat \ {0}
<1>1. world \in [events : SUBSET AllEvents, suffix : Nat \ {0}, cap : Nat \ {0},
                 replay : Nat \ {0}, made : Nat, asked : Nat]
  BY StoreAssumption DEF WorldOK
<1> QED
  BY <1>1

LEMMA KnownMonotonic ==
    ASSUME NEW a \in Nat, NEW b \in Nat, a <= b
    PROVE  Known(a) \subseteq Known(b) /\ TextsOf(Known(a)) \subseteq TextsOf(Known(b))
<1>1. \A i \in 1 .. a : i \in 1 .. b
  OBVIOUS
<1>2. Known(a) \subseteq Known(b)
  BY <1>1 DEF Known
<1> QED
  BY <1>2 DEF TextsOf

-----------------------------------------------------------------------------
(***************************************************************************)
(* The lock.                                                               *)
(***************************************************************************)
LEMMA LineElems ==
    ASSUME NEW l \in Seq(Jobs)
    PROVE  /\ Len(l) \in Nat /\ DOMAIN l = 1 .. Len(l) /\ \A i \in 1 .. Len(l) : l[i] \in Jobs
           /\ \A p : p \in Elems(l) <=> \E i \in 1 .. Len(l) : l[i] = p
           /\ l = <<>> <=> Len(l) = 0
<1>1. Len(l) \in Nat /\ DOMAIN l = 1 .. Len(l) /\ \A i \in 1 .. Len(l) : l[i] \in Jobs
  OBVIOUS
<1>2. l = <<>> <=> Len(l) = 0
  OBVIOUS
<1> QED
  BY <1>1, <1>2 DEF Elems

\* Who leaves the line leaves the others in their order.
LEMMA WithoutIs ==
    ASSUME NEW l \in Seq(Jobs), NEW p \in Jobs,
           \A i, j \in 1 .. Len(l) : l[i] = l[j] => i = j
    PROVE  LET w == Without(l, p)
           IN  /\ w \in Seq(Jobs)
               /\ \A i, j \in 1 .. Len(w) : w[i] = w[j] => i = j
               /\ \A q \in Jobs : q \in Elems(w) <=> q \in Elems(l) /\ q # p
               /\ l # <<>> /\ l[1] # p => w # <<>> /\ w[1] = l[1]
               /\ l # <<>> /\ l[Len(l)] # p => w # <<>> /\ w[Len(w)] = l[Len(l)]
               /\ l = <<>> \/ l = <<p>> => w = <<>>
<1> DEFINE at == {i \in DOMAIN l : l[i] = p}
           w == Without(l, p)
<1>0. Len(l) \in Nat /\ DOMAIN l = 1 .. Len(l) /\ \A i \in 1 .. Len(l) : l[i] \in Jobs
  BY LineElems
<1>1. CASE at = {}
  <2>1. w = l
    BY <1>1 DEF Without
  <2>2. p \notin Elems(l) /\ l # <<p>>
    BY <1>0, <1>1, LineElems
  <2> QED
    BY <2>1, <2>2
<1>2. CASE at # {}
  <2> DEFINE k == Least(at)
             a == SubSeq(l, 1, k - 1)
             b == After(k, l)
  <2>1. k \in 1 .. Len(l) /\ l[k] = p
    <3>1. at \subseteq Nat
      BY <1>0
    <3>2. k \in at
      BY <1>2, <3>1, LeastIs
    <3> QED
      BY <1>0, <3>2
  <2>2. w = a \o b
    BY <1>2 DEF Without
  <2> HIDE DEF k, w
  <2>3. a \in Seq(Jobs) /\ Len(a) = k - 1 /\ \A i \in 1 .. k - 1 : a[i] = l[i]
    <3>1. \A i \in 1 .. k - 1 : l[i] \in Jobs
      BY <1>0, <2>1
    <3>2. k - 1 \in Nat
      BY <2>1
    <3> QED
      BY <3>1, <3>2
  <2>4. b \in Seq(Jobs) /\ Len(b) = Len(l) - k /\ \A i \in 1 .. Len(l) - k : b[i] = l[k + i]
    <3>1. k \in 0 .. Len(l)
      BY <1>0, <2>1
    <3> QED
      BY <3>1, AfterIs
  <2> HIDE DEF a, b
  <2>5. /\ w \in Seq(Jobs) /\ Len(w) = Len(l) - 1
        /\ \A i \in 1 .. Len(l) - 1 : w[i] = IF i < k THEN l[i] ELSE l[i + 1]
    <3>1. w \in Seq(Jobs) /\ Len(w) = (k - 1) + (Len(l) - k)
      <4>1. a \o b \in Seq(Jobs) /\ Len(a \o b) = Len(a) + Len(b)
        BY <2>3, <2>4, ConcatProperties
      <4> QED
        BY <2>2, <2>3, <2>4, <4>1
    <3>2. \A i \in 1 .. Len(w) : w[i] = IF i <= k - 1 THEN a[i] ELSE b[i - (k - 1)]
      <4>1. \A i \in 1 .. Len(a) + Len(b) : (a \o b)[i] = IF i <= Len(a) THEN a[i] ELSE b[i - Len(a)]
        BY <2>3, <2>4, ConcatProperties
      <4> QED
        BY <2>2, <2>3, <2>4, <3>1, <4>1
    <3>3. Len(w) = Len(l) - 1
      BY <1>0, <2>1, <3>1
    <3>4. ASSUME NEW i \in 1 .. Len(l) - 1
          PROVE  w[i] = IF i < k THEN l[i] ELSE l[i + 1]
      <4>1. CASE i < k
        BY <1>0, <2>1, <2>3, <3>2, <3>3, <4>1
      <4>2. CASE ~(i < k)
        <5>1. i - (k - 1) \in 1 .. Len(l) - k /\ k + (i - (k - 1)) = i + 1
          BY <1>0, <2>1, <4>2
        <5>2. w[i] = b[i - (k - 1)]
          BY <1>0, <2>1, <3>2, <3>3, <4>2
        <5> QED
          BY <2>4, <4>2, <5>1, <5>2
      <4> QED
        BY <4>1, <4>2
    <3> QED
      BY <3>1, <3>3, <3>4
  <2>6. \A i, j \in 1 .. Len(w) : w[i] = w[j] => i = j
    BY <1>0, <2>1, <2>5
  <2>7. ASSUME NEW q \in Jobs
        PROVE  q \in Elems(w) <=> q \in Elems(l) /\ q # p
    <3>1. q \in Elems(w) <=> \E i \in 1 .. Len(l) - 1 : w[i] = q
      BY <2>5, LineElems
    <3>2. q \in Elems(l) <=> \E i \in 1 .. Len(l) : l[i] = q
      BY LineElems
    <3>3. ASSUME NEW i \in 1 .. Len(l) - 1, w[i] = q
          PROVE  q \in Elems(l) /\ q # p
      BY <1>0, <2>1, <2>5, <3>2, <3>3
    <3>4. ASSUME NEW i \in 1 .. Len(l), l[i] = q, q # p
          PROVE  \E j \in 1 .. Len(l) - 1 : w[j] = q
      <4>1. CASE i < k
        BY <1>0, <2>1, <2>5, <3>4, <4>1
      <4>2. CASE i > k
        <5>1. i - 1 \in 1 .. Len(l) - 1 /\ ~(i - 1 < k) /\ (i - 1) + 1 = i
          BY <1>0, <2>1, <4>2
        <5> QED
          BY <2>5, <3>4, <5>1
      <4> QED
        BY <2>1, <3>4, <4>1, <4>2
    <3> QED
      BY <3>1, <3>2, <3>3, <3>4
  <2>8. l # <<>> /\ l[1] # p => w # <<>> /\ w[1] = l[1]
    <3>1. ASSUME l[1] # p PROVE w # <<>> /\ w[1] = l[1]
      <4>1. k > 1 /\ 1 \in 1 .. Len(l) - 1
        BY <1>0, <2>1, <3>1
      <4> QED
        BY <2>5, <4>1, LineElems
    <3> QED
      BY <3>1
  <2>9. l # <<>> /\ l[Len(l)] # p => w # <<>> /\ w[Len(w)] = l[Len(l)]
    <3>1. ASSUME l[Len(l)] # p PROVE w # <<>> /\ w[Len(w)] = l[Len(l)]
      <4>1. k < Len(l) /\ Len(l) - 1 \in 1 .. Len(l) - 1 /\ ~(Len(l) - 1 < k) /\ (Len(l) - 1) + 1 = Len(l)
        BY <1>0, <2>1, <3>1
      <4> QED
        BY <2>5, <4>1, LineElems
    <3> QED
      BY <3>1
  <2>10. l = <<>> \/ l = <<p>> => w = <<>>
    BY <1>0, <2>1, <2>5, LineElems
  <2> QED
    BY <2>5, <2>6, <2>7, <2>8, <2>9, <2>10 DEF w
<1> QED
  BY <1>1, <1>2

-----------------------------------------------------------------------------
(***************************************************************************)
(* What the jobs do when they get the lock.                                *)
(***************************************************************************)
Holder(p) == IF line = <<>> THEN <<p>> ELSE line

LockLeft(p) == line' = Without(line, p) /\ job' = [job EXCEPT ![p] = NoJob]
LockWait(p) == line' = Append(line, p) /\ job' = [job EXCEPT ![p].step = "wait"]
LockWork(p, w) == line' = Holder(p) /\ job' = [job EXCEPT ![p] = w]

Work(o, chunk, end, kept) ==
    [step |-> "archive", obj |-> o, chunk |-> chunk, end |-> end, kept |-> kept]

\* A round up to end of the object o, which is x.
RoundWork(x, o, end) == Work(o, SubSeq(x.messages, x.cursor + 1, end), end, <<>>)

RoundStep(p, s, o) ==
    /\ store' = s
    /\ \/ LockLeft(p)
       \/ \E end \in 0 .. Len(s.objs[o].messages) : LockWork(p, RoundWork(s.objs[o], o, end))

\* A compaction: what it keeps of the messages that are not consolidated.
Unread(s) == After(s.file.cursor, s.file.messages)
Suffix(s) == Retained(Unread(s), world.suffix)
Cut(s) == Len(Unread(s)) - Len(Suffix(s))
Reloaded(s) == Fetch([s EXCEPT !.cached = 0])
IdleWork(s, o) == Work(o, SubSeq(Unread(s), 1, Cut(s)), 0, Suffix(s))

IdleStep(s, f, o) ==
    \/ Cut(s) > 0 /\ store' = f /\ LockWork("idle", IdleWork(s, o))
    \/ Cut(s) = 0 /\ LockLeft("idle") /\ Wrote(f, store', o, Suffix(s), 0)
    \/ Unread(s) = <<>> /\ LockLeft("idle") /\ Wrote(f, store', o, s.file.messages, s.file.cursor)

LEMMA LeaveIs ==
    ASSUME NEW p \in Jobs, NEW s, line \in Seq(Jobs),
           \A i, j \in 1 .. Len(line) : line[i] = line[j] => i = j,
           Leave(p, s, Holder(p))
    PROVE  store' = s /\ LockLeft(p)
<1>1. store' = s /\ line' = Without(Holder(p), p) /\ job' = [job EXCEPT ![p] = NoJob]
  BY DEF Leave
<1>2. CASE line = <<>>
  <2> DEFINE l == <<p>>
  <2>1. Holder(p) = l
    BY <1>2 DEF Holder
  <2>2. l \in Seq(Jobs) /\ l = <<p>> /\ \A i, j \in 1 .. Len(l) : l[i] = l[j] => i = j
    OBVIOUS
  <2> HIDE DEF l
  <2>3. Without(l, p) = <<>>
    BY <2>2, WithoutIs
  <2>4. Without(line, p) = <<>>
    BY <1>2, WithoutIs
  <2> QED
    BY <1>1, <2>1, <2>3, <2>4 DEF LockLeft
<1>3. CASE line # <<>>
  BY <1>1, <1>3 DEF Holder, LockLeft
<1> QED
  BY <1>2, <1>3

LEMMA MoreRoundsIs ==
    ASSUME NEW p \in Jobs, NEW s, StoreOK(s), NEW o \in 1 .. Len(s.objs), line \in Seq(Jobs),
           \A i, j \in 1 .. Len(line) : line[i] = line[j] => i = j,
           MoreRounds(p, s, Holder(p), o)
    PROVE  RoundStep(p, s, o)
<1>0. s.objs[o].messages \in Texts /\ Len(s.objs[o].messages) \in Nat /\ s.objs[o].cursor \in Nat
  BY ObjectIs DEF StoreOK, Texts
<1>1. ASSUME NEW end \in Boundaries(s.objs[o])
      PROVE  end \in 0 .. Len(s.objs[o].messages)
  <2>1. PICK i \in Users(s.objs[o].messages) \cap
                     ((s.objs[o].cursor + 2) .. Len(s.objs[o].messages)) : end = i - 1
    BY <1>1 DEF Boundaries
  <2> DEFINE len == Len(s.objs[o].messages)
             c == s.objs[o].cursor
  <2>2. len \in Nat /\ c \in Nat /\ i \in (c + 2) .. len /\ end = i - 1
    BY <1>0, <2>1
  <2> HIDE DEF len, c
  <2>3. end \in 0 .. len
    BY <2>2
  <2> QED
    BY <2>3 DEF len
<1>2. CASE BeginRound(p, s, Holder(p), o, Boundaries(s.objs[o]))
  <2>1. PICK end \in Boundaries(s.objs[o]) : Archiving(p, s, Holder(p), o,
              SubSeq(s.objs[o].messages, s.objs[o].cursor + 1, end), end, <<>>)
    BY <1>2 DEF BeginRound
  <2> QED
    BY <1>1, <2>1 DEF Archiving, RoundStep, LockWork, RoundWork, Work
<1>3. CASE Leave(p, s, Holder(p))
  BY <1>3, LeaveIs DEF RoundStep
<1> QED
  BY <1>2, <1>3 DEF MoreRounds

LEMMA BeginConsolidationIs ==
    ASSUME NEW p \in Jobs, NEW s, StoreOK(s), NEW o \in 1 .. Len(s.objs), line \in Seq(Jobs),
           \A i, j \in 1 .. Len(line) : line[i] = line[j] => i = j, WorldOK,
           BeginConsolidation(p, s, Holder(p), o)
    PROVE  RoundStep(p, s, o)
<1> DEFINE x == s.objs[o]
           tail == After(x.cursor, x.messages)
           window == LastOf(world.replay, tail)
           end == Len(x.messages) - Len(Shown(window))
<1>0. x.messages \in Texts /\ Len(x.messages) \in Nat /\ x.cursor \in Nat /\ world.replay \in Nat
  <2>1. x.messages \in Texts /\ x.cursor \in Nat
    BY ObjectIs DEF StoreOK
  <2>2. world.replay \in Nat
    BY WorldIs
  <2> HIDE DEF x
  <2> QED
    BY <2>1, <2>2 DEF Texts
<1>1. CASE BeginRound(p, s, Holder(p), o, {end})
  <2>1. Archiving(p, s, Holder(p), o, SubSeq(x.messages, x.cursor + 1, end), end, <<>>)
    BY <1>1 DEF BeginRound
  <2>2. PartOf(tail, x.messages) /\ tail \in Texts
    BY <1>0, TailPart DEF PartOf
  <2> HIDE DEF tail
  <2>3. PartOf(window, tail)
    <3>1. PICK k \in 0 .. Len(tail) : window = After(k, tail)
      BY <1>0, <2>2, LastOfIs DEF Texts
    <3> HIDE DEF window
    <3>2. k \in Nat
      OBVIOUS
    <3> QED
      BY <2>2, <3>1, <3>2, TailPart
  <2> HIDE DEF window
  <2>4. PartOf(window, x.messages)
    BY <1>0, <2>2, <2>3, PartOfPart
  <2>5. Len(Shown(window)) \in 0 .. Len(window)
    BY <2>4, ShownIs DEF PartOf
  <2>6. Len(window) <= Len(x.messages) /\ Len(window) \in Nat
    BY <2>4 DEF PartOf, Texts
  <2>7. end \in 0 .. Len(x.messages)
    BY <1>0, <2>5, <2>6
  <2> HIDE DEF end, x
  <2> QED
    BY <2>1, <2>7 DEF Archiving, RoundStep, LockWork, RoundWork, Work, x
<1>2. CASE MoreRounds(p, s, Holder(p), o)
  BY <1>2, MoreRoundsIs
<1> QED
  BY <1>1, <1>2 DEF BeginConsolidation

LEMMA UnreadIs ==
    ASSUME NEW s, StoreOK(s), WorldOK
    PROVE  /\ s.file \in Sessions /\ s.file.messages \in Texts /\ s.file.cursor \in Nat
           /\ PartOf(Unread(s), s.file.messages) /\ Unread(s) \in Texts
           /\ PartOf(Suffix(s), Unread(s)) /\ Suffix(s) \in Texts
           /\ Cut(s) \in 0 .. Len(Unread(s))
           /\ Unread(s) = <<>> => Suffix(s) = <<>> /\ Cut(s) = 0
<1>1. s.file \in Sessions /\ s.file.messages \in Texts /\ s.file.cursor \in Nat
  BY DEF StoreOK, Stores, Sessions
<1>2. PartOf(Unread(s), s.file.messages) /\ Unread(s) \in Texts
  BY <1>1, TailPart DEF Unread, PartOf
<1>3. world.suffix \in Nat \ {0}
  BY WorldIs
<1>4. PartOf(Suffix(s), Unread(s)) /\ Suffix(s) \in Texts
  BY <1>2, <1>3, RetainedIs DEF Suffix, PartOf
<1>5. Len(Unread(s)) \in Nat /\ Len(Suffix(s)) \in Nat /\ Len(Suffix(s)) <= Len(Unread(s))
  BY <1>2, <1>4 DEF PartOf, Texts
<1>6. Cut(s) \in 0 .. Len(Unread(s))
  BY <1>5 DEF Cut
<1>7. Unread(s) = <<>> => Suffix(s) = <<>> /\ Cut(s) = 0
  <2>1. ASSUME Unread(s) = <<>> PROVE Suffix(s) = <<>> /\ Cut(s) = 0
    <3>1. Len(Unread(s)) = 0
      BY <2>1
    <3>2. Len(Suffix(s)) = 0 /\ Suffix(s) \in Seq(Msgs) /\ Cut(s) = 0
      BY <1>4, <1>5, <3>1 DEF Cut, Texts
    <3> QED
      BY <3>2
  <2> QED
    BY <2>1
<1> QED
  BY <1>1, <1>2, <1>4, <1>6, <1>7

\* The object that a compaction loads is the file.
LEMMA ReloadedIs ==
    ASSUME NEW s, StoreOK(s)
    PROVE  /\ Looked(s, Reloaded(s)) /\ StoreOK(Reloaded(s))
           /\ Reloaded(s).cached = Len(s.objs) + 1 /\ Len(Reloaded(s).objs) = Len(s.objs) + 1
           /\ Content(Reloaded(s).objs[Reloaded(s).cached]) = s.file
           /\ s.tomb = 0 => Reloaded(s).gen = s.gen
<1> DEFINE u == [s EXCEPT !.cached = 0]
           f == Fetch(u)
<1>1. Looked(s, u) /\ u.cached = 0 /\ u.objs = s.objs /\ u.gen = s.gen
  BY ForgetIs
<1>2. StoreOK(u) /\ u.file = s.file /\ u.tomb = s.tomb /\ Len(s.objs) \in Nat
  BY <1>1, ObjectIs DEF Looked, StoreOK
<1>3. f = Reloaded(s)
  BY DEF Reloaded
<1>4. f.cached = Len(s.objs) + 1 /\ Len(f.objs) = Len(s.objs) + 1
  <2> DEFINE gen == IF u.tomb # 0 /\ u.tomb >= u.gen THEN u.tomb + 1 ELSE u.gen
             new == [messages |-> u.file.messages, cursor |-> u.file.cursor, gen |-> gen]
  <2>1. u \in Stores /\ u.file \in Sessions /\ gen \in Nat
    BY <1>2 DEF StoreOK, Stores
  <2>2. new \in Objects
    BY <2>1 DEF Objects, Sessions
  <2>3. f = [u EXCEPT !.objs = Append(u.objs, new), !.cached = Len(u.objs) + 1, !.gen = gen]
    BY <1>1 DEF Fetch
  <2> HIDE DEF new, gen, u, f
  <2>4. f.objs = Append(u.objs, new) /\ f.cached = Len(u.objs) + 1
    BY <2>1, <2>3 DEF Stores
  <2>5. Len(Append(u.objs, new)) = Len(u.objs) + 1
    BY <2>1, <2>2, ObjectIs, AppendProperties
  <2> QED
    BY <1>1, <2>4, <2>5
<1> HIDE DEF u
<1>5. /\ Looked(u, f) /\ f.cached \in 1 .. Len(f.objs)
      /\ Content(f.objs[f.cached]) = s.file /\ (s.tomb = 0 => f.gen = s.gen)
  BY <1>1, <1>2, FetchIs
<1> HIDE DEF f
<1>6. Looked(s, f)
  BY <1>1, <1>2, <1>5 DEF Looked
<1> QED
  BY <1>3, <1>4, <1>5, <1>6 DEF Looked

LEMMA BeginIdleIs ==
    ASSUME NEW s, StoreOK(s), line \in Seq(Jobs), WorldOK,
           \A i, j \in 1 .. Len(line) : line[i] = line[j] => i = j,
           BeginIdle(s, Holder("idle"))
    PROVE  IdleStep(s, Reloaded(s), Reloaded(s).cached)
<1> DEFINE f == Reloaded(s)
           o == f.cached
           l == Holder("idle")
           tail == After(f.objs[o].cursor, f.objs[o].messages)
           kept == Retained(tail, world.suffix)
           cut == Len(tail) - Len(kept)
           t == Save(IF tail = <<>> THEN f ELSE Put(f, o, kept, 0), o)
<1>0. StoreOK(f) /\ o \in 1 .. Len(f.objs) /\ Content(f.objs[o]) = s.file
  BY ReloadedIs, ObjectIs DEF StoreOK
<1>1. /\ s.file.messages \in Texts /\ Suffix(s) \in Texts /\ Cut(s) \in 0 .. Len(Unread(s))
      /\ Unread(s) \in Texts /\ s.file.cursor \in Nat
  BY UnreadIs
<1>2. /\ f.objs[o].messages = s.file.messages /\ f.objs[o].cursor = s.file.cursor
      /\ tail = Unread(s) /\ kept = Suffix(s) /\ cut = Cut(s)
  <2>1. f.objs[o].messages = s.file.messages /\ f.objs[o].cursor = s.file.cursor
    BY <1>0 DEF Content
  <2>2. tail = Unread(s)
    BY <2>1 DEF Unread
  <2> HIDE DEF tail
  <2>3. kept = Suffix(s)
    BY <2>2 DEF Suffix
  <2> HIDE DEF kept
  <2> QED
    BY <2>1, <2>2, <2>3 DEF Cut
<1>3. IF cut > 0 THEN Archiving("idle", f, l, o, SubSeq(tail, 1, cut), 0, kept)
      ELSE Leave("idle", t, l)
  BY DEF BeginIdle, Reloaded
<1> HIDE DEF f, o, tail, kept, cut
<1>4. CASE cut > 0
  BY <1>2, <1>3, <1>4 DEF Archiving, IdleStep, LockWork, IdleWork, Work, f, o
<1>5. CASE ~(cut > 0)
  <2>1. Cut(s) = 0
    BY <1>1, <1>2, <1>5
  <2>2. "idle" \in Jobs
    BY DEF Jobs
  <2>3. Leave("idle", t, l)
    BY <1>3, <1>5
  <2> HIDE DEF t
  <2>4. store' = t /\ LockLeft("idle")
    BY <2>2, <2>3, LeaveIs
  <2>5. CASE tail = <<>>
    <3>1. t = Save(f, o)
      BY <2>5 DEF t
    <3>2. Wrote(f, t, o, s.file.messages, s.file.cursor)
      BY <1>0, <1>2, <3>1, SaveOnlyIs
    <3> QED
      BY <1>2, <2>4, <2>5, <3>2 DEF IdleStep, f, o
  <2>6. CASE tail # <<>>
    <3>1. t = Save(Put(f, o, kept, 0), o)
      BY <2>6 DEF t
    <3>2. Wrote(f, t, o, kept, 0)
      BY <1>0, <1>1, <1>2, <3>1, SaveIs
    <3> QED
      BY <1>2, <2>1, <2>4, <3>2 DEF IdleStep, f, o
  <2> QED
    BY <2>5, <2>6
<1> QED
  BY <1>4, <1>5

BeginStep(p, s) ==
    IF p = "idle" THEN IdleStep(s, Reloaded(s), Reloaded(s).cached)
    ELSE RoundStep(p, Fetch(s), Fetch(s).cached)

EnterStep(p, s) == IF line = <<>> THEN BeginStep(p, s) ELSE store' = s /\ LockWait(p)

LEMMA BeginIs ==
    ASSUME NEW p \in Jobs, NEW s, StoreOK(s), line \in Seq(Jobs), WorldOK,
           \A i, j \in 1 .. Len(line) : line[i] = line[j] => i = j,
           Begin(p, s, Holder(p))
    PROVE  BeginStep(p, s)
<1>1. CASE p = "idle"
  BY <1>1, BeginIdleIs DEF Begin, BeginStep
<1>2. CASE p # "idle"
  <2> DEFINE f == Fetch(s)
  <2>1. StoreOK(f) /\ f.cached \in 1 .. Len(f.objs)
    BY FetchIs DEF Looked
  <2>2. BeginConsolidation(p, f, Holder(p), f.cached)
    BY <1>2 DEF Begin
  <2> HIDE DEF f
  <2>3. RoundStep(p, f, f.cached)
    BY <2>1, <2>2, BeginConsolidationIs
  <2> QED
    BY <1>2, <2>3 DEF BeginStep, f
<1> QED
  BY <1>1, <1>2

LEMMA EnterIs ==
    ASSUME NEW p \in Jobs, NEW s, StoreOK(s), line \in Seq(Jobs), WorldOK,
           \A i, j \in 1 .. Len(line) : line[i] = line[j] => i = j,
           Enter(p, s)
    PROVE  EnterStep(p, s)
<1>1. CASE line = <<>>
  <2>1. Begin(p, s, Holder(p))
    BY <1>1 DEF Enter, Holder
  <2> QED
    BY <1>1, <2>1, BeginIs DEF EnterStep
<1>2. CASE line # <<>>
  BY <1>2 DEF Enter, EnterStep, Wait, LockWait
<1> QED
  BY <1>1, <1>2

-----------------------------------------------------------------------------
(***************************************************************************)
(* What a step does to the store and to the lock.                          *)
(***************************************************************************)
\* ms is made of the object o and of K; its cursor is an index if that of o was;
\* and no round is under way that could mind it, if it is shorter.
Rewrite(f, o, ms, c, K) ==
    /\ Elems(ms) \subseteq Elems(f.objs[o].messages) \cup K
    /\ f.objs[o].cursor <= Len(f.objs[o].messages) => c <= Len(ms)
    /\ \/ Len(ms) >= Len(f.objs[o].messages)
       \/ world.events \cap {"new", "rewind"} # {}
       \/ \A p \in Jobs : p # "idle" => job'[p].step # "archive"

Of(n) == {m \in Msgs : m.of = n}

Source(f, o, ms, c) ==
    \/ Rewrite(f, o, ms, c, {})
    \/ turn.step # "idle" /\ o = turn.obj /\ Rewrite(f, o, ms, c, Of(turn.of))
    \/ made' = made + 1 /\ Rewrite(f, o, ms, c, Of(made + 1))
    \/ /\ f = store
       /\ \E p \in Jobs : /\ p # "idle" /\ job[p].step = "archive" /\ o = job[p].obj
                          /\ ms = f.objs[o].messages /\ c = job[p].end
    \/ /\ f = store /\ job["idle"].step = "archive" /\ o = job["idle"].obj
       /\ ms = job["idle"].kept /\ c = 0
       /\ \A p \in Jobs : p # "idle" => job'[p].step # "archive"

Writes(f, t, o, ms, c) ==
    /\ Looked(store, f) /\ Wrote(f, t, o, ms, c) /\ Looked(t, store')
    /\ o \in 1 .. Len(f.objs) /\ ms \in Texts /\ c \in Nat
    /\ Source(f, o, ms, c)

StoreEffect ==
    \/ Looked(store, store')
    \/ \E f, t, o, ms, c : Writes(f, t, o, ms, c)

HasLock(p) == line = <<>> \/ line[1] = p

WorkOK(p, w) ==
    /\ w \in JobRecords /\ w.step = "archive" /\ w.obj \in 1 .. Len(store'.objs)
    /\ Elems(w.chunk) \subseteq Known(made) /\ Elems(w.kept) \subseteq Known(made)
    /\ p = "idle" => Elems(w.kept) \subseteq Elems(store.file.messages)
    /\ p # "idle" => w.end <= Len(store'.objs[w.obj].messages)

LockEffect ==
    \/ UNCHANGED <<line, job>>
    \/ \E p \in Jobs :
          \/ LockLeft(p)
          \/ LockWait(p) /\ job[p] = NoJob /\ (p = "idle" => "outlast" \in world.events)
          \/ \E w : LockWork(p, w) /\ HasLock(p) /\ WorkOK(p, w)

Effects == world' = world /\ made' \in {made, made + 1} /\ made' <= world.made /\ asked' \in Nat
           /\ StoreEffect /\ LockEffect

LEMMA LookedSame ==
    ASSUME NEW s, StoreOK(s)
    PROVE  Looked(s, s) /\ Len(s.objs) \in Nat
BY ObjectIs DEF StoreOK, Looked, Stores

LEMMA NoOthers ==
    ASSUME JobsOK, LockInv, NEW p \in Jobs, HasLock(p), NEW q \in Jobs, q # p
    PROVE  job[q].step # "archive"
BY DEF HasLock, LockInv

LEMMA JobIs ==
    ASSUME JobsOK
    PROVE  /\ \A p \in Jobs : /\ job[p] \in JobRecords /\ job[p].step \in JobSteps /\ job[p].obj \in Nat
                              /\ job[p].chunk \in Texts /\ job[p].end \in Nat /\ job[p].kept \in Texts
           /\ DOMAIN job = Jobs
<1>1. \A w \in JobRecords : /\ w.step \in JobSteps /\ w.obj \in Nat /\ w.chunk \in Texts
                            /\ w.end \in Nat /\ w.kept \in Texts
  BY DEF JobRecords
<1>2. \A p \in Jobs : job[p] \in JobRecords
  BY DEF JobsOK
<1> QED
  BY <1>1, <1>2 DEF JobsOK

LEMMA HeldTexts ==
    ASSUME TypeInv, NEW s, StoreOK(s), Looked(store, s)
    PROVE  Elems(s.file.messages) \subseteq Known(made)
           /\ \A o \in 1 .. Len(s.objs) : Elems(s.objs[o].messages) \subseteq Known(made)
<1>1. Holds(s, 0, TextsOf(Known(made)))
  BY LookedHolds DEF TypeInv, ContentOK
<1>2. \A o \in 1 .. Len(s.objs) : s.objs[o].gen \in Nat
  BY ObjectIs DEF StoreOK
<1>3. \A o \in 1 .. Len(s.objs) : Content(s.objs[o]).messages = s.objs[o].messages
  BY DEF Content
<1>4. \A o \in 1 .. Len(s.objs) : Content(s.objs[o]) \in TextsOf(Known(made))
  BY <1>1, <1>2 DEF Holds
<1>5. \A x \in TextsOf(Known(made)) : Elems(x.messages) \subseteq Known(made)
  BY DEF TextsOf
<1> QED
  BY <1>1, <1>3, <1>4, <1>5 DEF Holds

LEMMA RoundEffect ==
    ASSUME TypeInv, LockInv, NEW p \in Jobs, p # "idle", HasLock(p),
           NEW s, StoreOK(s), NEW o \in 1 .. Len(s.objs), RoundStep(p, s, o),
           Elems(s.objs[o].messages) \subseteq Known(made)
    PROVE  LockEffect
<1>1. CASE LockLeft(p)
  BY <1>1 DEF LockEffect
<1>2. ASSUME NEW end \in 0 .. Len(s.objs[o].messages), LockWork(p, RoundWork(s.objs[o], o, end))
      PROVE  LockEffect
  <2> DEFINE w == RoundWork(s.objs[o], o, end)
             chunk == SubSeq(s.objs[o].messages, s.objs[o].cursor + 1, end)
  <2>1. s.objs[o].messages \in Texts /\ s.objs[o].cursor \in Nat /\ Len(s.objs[o].messages) \in Nat
        /\ Len(s.objs) \in Nat
    BY ObjectIs DEF StoreOK, Texts
  <2>2. chunk \in Texts /\ Elems(chunk) \subseteq Elems(s.objs[o].messages)
    BY <2>1, SliceIs
  <2>3. w = Work(o, chunk, end, <<>>)
    BY DEF RoundWork
  <2> HIDE DEF w, chunk
  <2>4. <<>> \in Texts /\ Elems(<<>>) = {} /\ o \in Nat /\ end \in Nat
    BY <2>1 DEF Texts, Elems
  <2>5. w \in JobRecords /\ w.step = "archive" /\ w.obj = o /\ w.chunk = chunk /\ w.end = end
        /\ w.kept = <<>>
    BY <2>2, <2>3, <2>4 DEF Work, JobRecords, JobSteps
  <2>6. store' = s
    BY DEF RoundStep
  <2>7. end <= Len(s.objs[o].messages)
    BY <2>1
  <2>8. WorkOK(p, w)
    BY <2>2, <2>4, <2>5, <2>6, <2>7 DEF WorkOK
  <2> QED
    BY <1>2, <2>8 DEF LockEffect, w
<1> QED
  BY <1>1, <1>2 DEF RoundStep

LEMMA IdleEffect ==
    ASSUME TypeInv, LockInv, HasLock("idle"),
           IdleStep(store, Reloaded(store), Reloaded(store).cached)
    PROVE  StoreEffect /\ LockEffect
<1> DEFINE f == Reloaded(store)
           o == f.cached
<1>0. /\ StoreOK(store) /\ WorldOK /\ "idle" \in Jobs /\ Len(store.objs) \in Nat
      /\ \A q \in Jobs : q # "idle" => job[q].step # "archive"
  BY NoOthers, LookedSame DEF TypeInv, Jobs
<1>1. /\ Looked(store, f) /\ StoreOK(f) /\ o = Len(store.objs) + 1 /\ Len(f.objs) = Len(store.objs) + 1
      /\ Content(f.objs[o]) = store.file
  BY <1>0, ReloadedIs
<1>2. o \in 1 .. Len(f.objs) /\ o \in Nat
  BY <1>0, <1>1
<1>3. f.objs[o].messages = store.file.messages /\ f.objs[o].cursor = store.file.cursor
  BY <1>1 DEF Content
<1>4. /\ store.file.messages \in Texts /\ store.file.cursor \in Nat
      /\ PartOf(Unread(store), store.file.messages) /\ Unread(store) \in Texts
      /\ PartOf(Suffix(store), Unread(store)) /\ Suffix(store) \in Texts
      /\ Cut(store) \in 0 .. Len(Unread(store))
  BY <1>0, UnreadIs
<1>5. PartOf(Suffix(store), store.file.messages)
  BY <1>4, PartOfPart
<1>6. Elems(store.file.messages) \subseteq Known(made)
  BY <1>0, HeldTexts, LookedSame
<1> HIDE DEF f, o
<1>7. CASE /\ Cut(store) > 0 /\ store' = f /\ LockWork("idle", IdleWork(store, o))
  <2> DEFINE w == IdleWork(store, o)
             chunk == SubSeq(Unread(store), 1, Cut(store))
  <2>1. PartOf(chunk, Unread(store))
    BY <1>4, FirstPart
  <2>2. PartOf(chunk, store.file.messages)
    BY <1>4, <2>1, PartOfPart
  <2>3. w = Work(o, chunk, 0, Suffix(store))
    BY DEF IdleWork
  <2> HIDE DEF w, chunk
  <2>4. chunk \in Texts /\ Elems(chunk) \subseteq Known(made)
        /\ Elems(Suffix(store)) \subseteq Elems(store.file.messages)
    BY <1>5, <1>6, <2>2 DEF PartOf
  <2>5. w \in JobRecords /\ w.step = "archive" /\ w.obj = o /\ w.chunk = chunk /\ w.kept = Suffix(store)
    BY <1>2, <1>4, <2>3, <2>4 DEF Work, JobRecords, JobSteps
  <2>6. WorkOK("idle", w)
    BY <1>2, <1>6, <1>7, <2>4, <2>5 DEF WorkOK
  <2>7. LockEffect
    BY <1>0, <1>7, <2>6 DEF LockEffect, w
  <2> QED
    BY <1>1, <1>7, <2>7 DEF StoreEffect
<1>8. ASSUME LockLeft("idle"), NEW ms \in Texts, NEW c \in Nat, Wrote(f, store', o, ms, c),
             Elems(ms) \subseteq Elems(store.file.messages),
             store.file.cursor <= Len(store.file.messages) => c <= Len(ms)
      PROVE  StoreEffect /\ LockEffect
  <2>1. \A q \in Jobs : q # "idle" => job'[q].step # "archive"
    BY <1>0, <1>8 DEF LockLeft, TypeInv, JobsOK
  <2>2. Rewrite(f, o, ms, c, {})
    BY <1>3, <1>8, <2>1 DEF Rewrite
  <2>3. StoreOK(store') /\ Looked(store', store')
    BY <1>8, LookedSame DEF Wrote
  <2>4. Source(f, o, ms, c)
    BY <2>2 DEF Source
  <2>5. Writes(f, store', o, ms, c)
    BY <1>1, <1>2, <1>8, <2>3, <2>4 DEF Writes
  <2> QED
    BY <1>0, <1>8, <2>5 DEF StoreEffect, LockEffect
<1>9. CASE Cut(store) = 0 /\ LockLeft("idle") /\ Wrote(f, store', o, Suffix(store), 0)
  <2>1. Elems(Suffix(store)) \subseteq Elems(store.file.messages) /\ 0 <= Len(Suffix(store)) /\ 0 \in Nat
    BY <1>4, <1>5 DEF PartOf, Texts
  <2> QED
    BY <1>4, <1>8, <1>9, <2>1
<1>10. CASE LockLeft("idle") /\ Wrote(f, store', o, store.file.messages, store.file.cursor)
  BY <1>4, <1>8, <1>10
<1> QED
  BY <1>7, <1>9, <1>10 DEF IdleStep, f, o

History ==
    /\ archived' \subseteq archived \cup Known(made')
    /\ deleted' = deleted
    /\ cleared' \subseteq cleared \cup Known(made')

TurnEffect ==
    \/ turn' = turn
    \/ turn' = NoTurn
    \/ turn' = [step |-> "build", obj |-> Fetch(store).cached, of |-> made + 1] /\ made' = made + 1
       /\ Fetch(store).cached \in 1 .. Len(store'.objs)
    \/ turn.step = "build" /\ turn' = [turn EXCEPT !.step = "run"]

Safe == TypeInv /\ LockInv /\ TurnInv
StepOK == Effects /\ History /\ TurnEffect

\* What a holder does when its turn comes.
LEMMA BeginEffect ==
    ASSUME Safe, NEW p \in Jobs, HasLock(p), BeginStep(p, store)
    PROVE  StoreEffect /\ LockEffect
<1>0. StoreOK(store)
  BY DEF Safe, TypeInv
<1>1. CASE p = "idle"
  BY <1>1, IdleEffect DEF BeginStep, Safe
<1>2. CASE p # "idle"
  <2> DEFINE f == Fetch(store)
  <2>1. Looked(store, f) /\ StoreOK(f) /\ f.cached \in 1 .. Len(f.objs)
    BY <1>0, FetchIs DEF Looked
  <2>2. Elems(f.objs[f.cached].messages) \subseteq Known(made)
    <3> HIDE DEF f
    <3> QED
      BY <2>1, HeldTexts DEF Safe
  <2>3. RoundStep(p, f, f.cached)
    BY <1>2 DEF BeginStep
  <2> HIDE DEF f
  <2>4. LockEffect
    BY <1>2, <2>1, <2>2, <2>3, RoundEffect DEF Safe
  <2> QED
    BY <2>1, <2>3, <2>4 DEF RoundStep, StoreEffect
<1> QED
  BY <1>1, <1>2

LEMMA AtRest ==
    ASSUME Safe, line = <<>>
    PROVE  \A p \in Jobs : job[p] = NoJob
<1>1. \A p : p \notin Elems(line)
  BY DEF Elems
<1>2. \A p \in Jobs : job[p].step \in JobSteps
  BY JobIs DEF Safe, TypeInv
<1>3. \A p \in Jobs : job[p].step = "none"
  BY <1>1 DEF Safe, LockInv
<1> QED
  BY <1>3 DEF Safe, TypeInv, JobsOK

LEMMA ResumeEffect ==
    ASSUME Safe, NEW p \in Jobs, Resume(p)
    PROVE  StepOK /\ line # <<>> /\ line[1] = p /\ BeginStep(p, store)
<1>0. line \in Seq(Jobs) /\ StoreOK(store) /\ WorldOK
      /\ \A i, j \in 1 .. Len(line) : line[i] = line[j] => i = j
  BY DEF Safe, TypeInv, JobsOK, LockInv
<1>1. p \in Elems(line)
  BY DEF Resume, Safe, LockInv
<1>2. line # <<>> /\ line[1] = p
  BY <1>0, <1>1, LineElems DEF Resume, Elems
<1>3. Begin(p, store, Holder(p))
  BY <1>2 DEF Resume, Holder
<1>4. BeginStep(p, store)
  BY <1>0, <1>3, BeginIs
<1>5. StoreEffect /\ LockEffect
  BY <1>2, <1>4, BeginEffect DEF HasLock
<1> QED
  BY <1>0, <1>2, <1>4, <1>5 DEF Resume, StepOK, Effects, History, TurnEffect, WorldOK

LEMMA EndRoundEffect ==
    ASSUME Safe, NEW p \in Jobs, EndRound(p)
    PROVE  /\ StepOK /\ line # <<>> /\ line[1] = p /\ p # "idle"
           /\ LET o == job[p].obj
                  s == Save(Put(store, o, store.objs[o].messages, job[p].end), o)
              IN  /\ o \in 1 .. Len(store.objs)
                  /\ Wrote(store, s, o, store.objs[o].messages, job[p].end) /\ RoundStep(p, s, o)
<1> DEFINE o == job[p].obj
           ms == store.objs[o].messages
           s == Save(Put(store, o, ms, job[p].end), o)
<1>0. line \in Seq(Jobs) /\ StoreOK(store) /\ WorldOK
      /\ \A i, j \in 1 .. Len(line) : line[i] = line[j] => i = j
  BY DEF Safe, TypeInv, JobsOK, LockInv
<1>1. p # "idle" /\ job[p].step = "archive" /\ line # <<>> /\ line[1] = p /\ o \in 1 .. Len(store.objs)
  BY DEF EndRound, Safe, TypeInv, JobsOK, LockInv
<1>2. job[p].end \in Nat /\ Elems(job[p].chunk) \subseteq Known(made) /\ ms \in Texts
  BY <1>0, <1>1, JobIs, ObjectIs DEF Safe, TypeInv, JobsOK, StoreOK
<1>3. Wrote(store, s, o, ms, job[p].end)
  BY <1>0, <1>1, <1>2, SaveIs
<1>4. MoreRounds(p, s, Holder(p), o)
  BY <1>1 DEF EndRound, Holder
<1> HIDE DEF s
<1>5. StoreOK(s) /\ o \in 1 .. Len(s.objs) /\ s.objs[o].messages = ms
  BY <1>1, <1>3 DEF Wrote, Content
<1>6. RoundStep(p, s, o)
  BY <1>0, <1>4, <1>5, MoreRoundsIs
<1>7. Looked(store, store) /\ Looked(s, s)
  BY <1>0, <1>5, LookedSame
<1>8. Elems(ms) \subseteq Known(made)
  BY <1>0, <1>1, <1>7, HeldTexts DEF Safe
<1>9. LockEffect
  BY <1>1, <1>5, <1>6, <1>8, RoundEffect DEF HasLock, Safe
<1>10. Source(store, o, ms, job[p].end)
  BY <1>1 DEF Source
<1>11. Writes(store, s, o, ms, job[p].end)
  BY <1>1, <1>2, <1>3, <1>6, <1>7, <1>10 DEF Writes, RoundStep
<1>12. StoreEffect
  BY <1>11 DEF StoreEffect
<1>14. StepOK
  BY <1>0, <1>2, <1>9, <1>12 DEF EndRound, StepOK, Effects, History, TurnEffect, WorldOK
<1> QED
  BY <1>1, <1>3, <1>6, <1>14 DEF s

LEMMA EndIdleEffect ==
    ASSUME Safe, EndIdle
    PROVE  /\ StepOK /\ line # <<>> /\ line[1] = "idle" /\ LockLeft("idle")
           /\ LET o == job["idle"].obj
                  s == Save(Put(store, o, job["idle"].kept, 0), o)
              IN  o \in 1 .. Len(store.objs) /\ Wrote(store, s, o, job["idle"].kept, 0)
                  /\ store' \in {s, Fetch(s)}
<1> DEFINE o == job["idle"].obj
           ms == job["idle"].kept
           s == Save(Put(store, o, ms, 0), o)
<1>0. line \in Seq(Jobs) /\ StoreOK(store) /\ WorldOK /\ "idle" \in Jobs
  BY DEF Safe, TypeInv, JobsOK, LockInv, Jobs
<1>1. job["idle"].step = "archive" /\ line # <<>> /\ line[1] = "idle" /\ o \in 1 .. Len(store.objs)
  BY <1>0 DEF EndIdle, Safe, TypeInv, JobsOK, LockInv
<1>2. Elems(job["idle"].chunk) \subseteq Known(made) /\ ms \in Texts
  BY <1>0, JobIs DEF Safe, TypeInv, JobsOK
<1>3. Wrote(store, s, o, ms, 0)
  BY <1>0, <1>1, <1>2, SaveIs
<1>4. store' \in {s, Fetch(s)} /\ LockLeft("idle")
  BY DEF EndIdle, Leave, LockLeft
<1> HIDE DEF s
<1>5. StoreOK(s)
  BY <1>3 DEF Wrote
<1>6. Looked(store, store) /\ Looked(s, s) /\ Looked(s, store')
  BY <1>0, <1>4, <1>5, LookedSame, FetchIs
<1>7. \A p \in Jobs : p # "idle" => job'[p].step # "archive"
  <2>1. \A p \in Jobs : p # "idle" => job[p].step # "archive"
    BY <1>0, <1>1, NoOthers DEF HasLock, Safe, TypeInv
  <2> QED
    BY <1>0, <1>4, <2>1 DEF LockLeft, Safe, TypeInv, JobsOK
<1>8. Source(store, o, ms, 0)
  BY <1>1, <1>7 DEF Source
<1>9. Writes(store, s, o, ms, 0)
  BY <1>1, <1>2, <1>3, <1>6, <1>8 DEF Writes
<1>10. StoreEffect /\ LockEffect
  BY <1>0, <1>4, <1>9 DEF StoreEffect, LockEffect
<1>11. StepOK
  BY <1>0, <1>2, <1>10 DEF EndIdle, StepOK, Effects, History, TurnEffect, WorldOK
<1> QED
  BY <1>1, <1>3, <1>4, <1>11 DEF s

LEMMA ArchiveRaisesEffect ==
    ASSUME Safe, NEW p \in Jobs, ArchiveRaises(p)
    PROVE  StepOK /\ line # <<>> /\ line[1] = p /\ store' = store /\ LockLeft(p)
<1>0. StoreOK(store) /\ WorldOK
  BY DEF Safe, TypeInv
<1>1. line # <<>> /\ line[1] = p
  BY DEF ArchiveRaises, Safe, LockInv
<1>2. store' = store /\ LockLeft(p)
  BY DEF ArchiveRaises, Leave, LockLeft
<1>3. StoreEffect /\ LockEffect
  BY <1>0, <1>2, LookedSame DEF StoreEffect, LockEffect
<1> QED
  BY <1>0, <1>1, <1>2, <1>3 DEF ArchiveRaises, StepOK, Effects, History, TurnEffect, WorldOK

LEMMA ExpireEffect ==
    ASSUME Safe, Expire
    PROVE  /\ StepOK /\ turn.step = "idle" /\ job["idle"] = NoJob
           /\ \/ line # <<>> /\ "outlast" \in world.events /\ store' = store /\ LockWait("idle")
              \/ line = <<>> /\ IdleStep(store, Reloaded(store), Reloaded(store).cached)
<1>0. line \in Seq(Jobs) /\ StoreOK(store) /\ WorldOK /\ "idle" \in Jobs
      /\ \A i, j \in 1 .. Len(line) : line[i] = line[j] => i = j
  BY DEF Safe, TypeInv, JobsOK, LockInv, Jobs
<1>1. EnterStep("idle", store)
  BY <1>0, EnterIs DEF Expire, ExpireActive
<1>2. StoreEffect /\ LockEffect
  <2>1. CASE line = <<>>
    BY <1>0, <1>1, <2>1, BeginEffect DEF EnterStep, HasLock
  <2>2. CASE line # <<>>
    <3>1. "outlast" \in world.events /\ job["idle"] = NoJob
      BY <2>2 DEF Expire, ExpireActive
    <3>2. store' = store /\ LockWait("idle")
      BY <1>1, <2>2 DEF EnterStep
    <3> QED
      BY <1>0, <3>1, <3>2, LookedSame DEF StoreEffect, LockEffect
  <2> QED
    BY <2>1, <2>2
<1>3. asked' \in Nat
  BY <1>0 DEF Expire, ExpireActive, WorldOK
<1>4. StepOK
  BY <1>0, <1>2, <1>3 DEF Expire, ExpireActive, StepOK, Effects, History, TurnEffect, WorldOK
<1> QED
  BY <1>1, <1>4 DEF Expire, ExpireActive, EnterStep, BeginStep

LEMMA StartTurnEffect ==
    ASSUME Safe, StartTurn
    PROVE  /\ StepOK /\ turn.step = "idle" /\ job["build"] = NoJob /\ made' = made + 1
           /\ turn' = [step |-> "build", obj |-> Fetch(store).cached, of |-> made + 1]
           /\ archived' = archived /\ store' = Fetch(store)
           /\ \/ line # <<>> /\ LockWait("build")
              \/ line = <<>> /\ RoundStep("build", Fetch(store), Fetch(store).cached)
<1> DEFINE f == Fetch(store)
<1>0. line \in Seq(Jobs) /\ StoreOK(store) /\ WorldOK /\ "build" \in Jobs /\ world.made \in Nat
      /\ \A i, j \in 1 .. Len(line) : line[i] = line[j] => i = j
  BY WorldIs DEF Safe, TypeInv, JobsOK, LockInv, Jobs
<1>1. Looked(store, f) /\ StoreOK(f) /\ f.cached \in 1 .. Len(f.objs)
  BY <1>0, FetchIs DEF Looked
<1>2. Fetch(f) = f
  <2> HIDE DEF f
  <2>1. f.cached # 0
    BY <1>1, LookedSame
  <2> QED
    BY <1>1, <2>1, FetchIs
<1>3. Enter("build", f)
  BY DEF StartTurn
<1>4. job["build"] = NoJob
  BY <1>0 DEF StartTurn, Safe, TurnInv, TypeInv, JobsOK
<1> HIDE DEF f
<1>5. EnterStep("build", f)
  BY <1>0, <1>1, <1>3, EnterIs
<1>6. IF line = <<>> THEN RoundStep("build", f, f.cached) ELSE store' = f /\ LockWait("build")
  BY <1>2, <1>5 DEF EnterStep, BeginStep
<1>7. store' = f
  BY <1>6 DEF RoundStep
<1>8. LockEffect
  <2>1. CASE line = <<>>
    <3>1. Elems(f.objs[f.cached].messages) \subseteq Known(made)
      BY <1>1, HeldTexts DEF Safe
    <3> QED
      BY <1>0, <1>1, <1>6, <2>1, <3>1, RoundEffect DEF HasLock, Safe
  <2>2. CASE line # <<>>
    BY <1>0, <1>4, <1>6, <2>2 DEF LockEffect
  <2> QED
    BY <2>1, <2>2
<1>9. StoreEffect
  BY <1>1, <1>7 DEF StoreEffect
<1>10. made' = made + 1 /\ made' <= world.made /\ turn.step = "idle"
       /\ turn' = [step |-> "build", obj |-> f.cached, of |-> made + 1]
  BY <1>0 DEF StartTurn, WorldOK, f
<1>11. StepOK
  BY <1>0, <1>1, <1>7, <1>8, <1>9, <1>10 DEF StartTurn, StepOK, Effects, History, TurnEffect, WorldOK, f
<1> QED
  BY <1>4, <1>6, <1>7, <1>10, <1>11 DEF StartTurn, f

\* A message added at the end.
LEMMA AddedIs ==
    ASSUME NEW ms \in Texts, NEW m \in Msgs
    PROVE  /\ Append(ms, m) \in Texts /\ Len(Append(ms, m)) = Len(ms) + 1 /\ Len(ms) \in Nat
           /\ Elems(Append(ms, m)) = Elems(ms) \cup {m}
           /\ \A i \in 1 .. Len(ms) : Append(ms, m)[i] = ms[i]
           /\ Append(ms, m)[Len(ms) + 1] = m
<1> DEFINE a == Append(ms, m)
<1>1. /\ a \in Seq(Msgs) /\ Len(a) = Len(ms) + 1 /\ Len(ms) \in Nat /\ ms \in Seq(Msgs)
      /\ \A i \in 1 .. Len(ms) : a[i] = ms[i]
      /\ a[Len(ms) + 1] = m
  BY AppendProperties DEF Texts
<1>2. DOMAIN a = 1 .. Len(ms) + 1 /\ DOMAIN ms = 1 .. Len(ms)
  BY <1>1
<1> HIDE DEF a
<1>3. \A i \in 1 .. Len(ms) + 1 : i \in 1 .. Len(ms) \/ i = Len(ms) + 1
  BY <1>1
<1>4. Elems(a) = Elems(ms) \cup {m}
  BY <1>1, <1>2, <1>3 DEF Elems
<1> QED
  BY <1>1, <1>4 DEF a, Texts

LEMMA JoinedIs ==
    ASSUME NEW ms \in Texts, NEW new \in Texts
    PROVE  /\ ms \o new \in Texts /\ Len(ms \o new) = Len(ms) + Len(new) /\ Len(ms) \in Nat
           /\ Len(new) \in Nat
           /\ Elems(ms \o new) = Elems(ms) \cup Elems(new)
           /\ \A i \in 1 .. Len(ms) : (ms \o new)[i] = ms[i]
<1> DEFINE a == ms \o new
<1>1. /\ a \in Seq(Msgs) /\ Len(a) = Len(ms) + Len(new) /\ Len(ms) \in Nat /\ Len(new) \in Nat
      /\ ms \in Seq(Msgs) /\ new \in Seq(Msgs)
  BY ConcatProperties DEF Texts
<1>2. \A i \in 1 .. Len(ms) + Len(new) : a[i] = IF i <= Len(ms) THEN ms[i] ELSE new[i - Len(ms)]
  BY <1>1, ConcatProperties
<1>3. DOMAIN a = 1 .. Len(ms) + Len(new) /\ DOMAIN ms = 1 .. Len(ms) /\ DOMAIN new = 1 .. Len(new)
  BY <1>1
<1> HIDE DEF a
<1>4. \A i \in 1 .. Len(ms) : a[i] = ms[i] /\ i \in 1 .. Len(ms) + Len(new)
  BY <1>1, <1>2
<1>5. \A i \in 1 .. Len(new) : a[Len(ms) + i] = new[i] /\ Len(ms) + i \in 1 .. Len(ms) + Len(new)
  <2>1. ASSUME NEW i \in 1 .. Len(new)
        PROVE  Len(ms) + i \in 1 .. Len(ms) + Len(new) /\ ~(Len(ms) + i <= Len(ms))
               /\ (Len(ms) + i) - Len(ms) = i
    BY <1>1
  <2> QED
    BY <1>2, <2>1
<1>6. \A i \in 1 .. Len(ms) + Len(new) : i \in 1 .. Len(ms) \/ \E j \in 1 .. Len(new) : i = Len(ms) + j
  <2>1. ASSUME NEW i \in 1 .. Len(ms) + Len(new), i \notin 1 .. Len(ms)
        PROVE  i - Len(ms) \in 1 .. Len(new) /\ i = Len(ms) + (i - Len(ms))
    BY <1>1, <2>1
  <2> QED
    BY <2>1
<1>7. Elems(a) \subseteq Elems(ms) \cup Elems(new)
  <2>1. ASSUME NEW i \in 1 .. Len(ms) + Len(new)
        PROVE  a[i] \in Elems(ms) \cup Elems(new)
    <3>1. CASE i \in 1 .. Len(ms)
      BY <1>3, <1>4, <3>1 DEF Elems
    <3>2. CASE \E j \in 1 .. Len(new) : i = Len(ms) + j
      BY <1>3, <1>5, <3>2 DEF Elems
    <3> QED
      BY <1>6, <3>1, <3>2
  <2> QED
    BY <1>3, <2>1 DEF Elems
<1>8. Elems(ms) \subseteq Elems(a) /\ Elems(new) \subseteq Elems(a)
  BY <1>3, <1>4, <1>5 DEF Elems
<1> QED
  BY <1>1, <1>4, <1>7, <1>8 DEF a, Texts

LEMMA MessageIs ==
    ASSUME NEW role \in Roles, NEW of \in Nat
    PROVE  Message(role, of) \in Of(of) /\ Message(role, of) \in Msgs
BY DEF Message, Msgs, Of

\* One write, and nothing else in the store.
LEMMA WriteEffect ==
    ASSUME NEW f, Looked(store, f), NEW o \in 1 .. Len(f.objs), NEW ms \in Texts, NEW c \in Nat,
           Wrote(f, store', o, ms, c), Source(f, o, ms, c)
    PROVE  StoreEffect
<1>1. Looked(store', store')
  BY LookedSame DEF Wrote
<1>2. Writes(f, store', o, ms, c)
  BY <1>1 DEF Writes
<1> QED
  BY <1>2 DEF StoreEffect

LEMMA PersistUserEffect ==
    ASSUME Safe, PersistUser
    PROVE  /\ StepOK /\ turn.step = "build" /\ line = <<>> /\ turn.obj \in 1 .. Len(store.objs)
           /\ Wrote(store, store', turn.obj,
                    Append(store.objs[turn.obj].messages, Message("user", turn.of)),
                    store.objs[turn.obj].cursor)
<1> DEFINE o == turn.obj
           ms == Append(store.objs[o].messages, Message("user", turn.of))
<1>0. StoreOK(store) /\ WorldOK /\ turn.step = "build" /\ job["build"] = NoJob
      /\ o \in 1 .. Len(store.objs) /\ turn.of \in Nat /\ Looked(store, store)
  BY LookedSame DEF PersistUser, Safe, TypeInv, TurnOK, TurnRecords
<1>1. line = <<>>
  BY <1>0 DEF Safe, TurnInv, NoJob
<1>2. store.objs[o].messages \in Texts /\ store.objs[o].cursor \in Nat
  BY <1>0, ObjectIs DEF StoreOK
<1>3. Message("user", turn.of) \in Of(turn.of) /\ Message("user", turn.of) \in Msgs
  BY <1>0, MessageIs DEF Roles
<1>4. /\ ms \in Texts /\ Len(ms) = Len(store.objs[o].messages) + 1 /\ Len(store.objs[o].messages) \in Nat
      /\ Elems(ms) = Elems(store.objs[o].messages) \cup {Message("user", turn.of)}
  BY <1>2, <1>3, AddedIs
<1>5. store' = Save(Put(store, o, ms, store.objs[o].cursor), o)
  BY DEF PersistUser
<1> HIDE DEF ms
<1>6. Wrote(store, store', o, ms, store.objs[o].cursor)
  BY <1>0, <1>2, <1>4, <1>5, SaveIs
<1>7. Rewrite(store, o, ms, store.objs[o].cursor, Of(turn.of))
  <2>1. Elems(ms) \subseteq Elems(store.objs[o].messages) \cup Of(turn.of)
    BY <1>3, <1>4
  <2>2. Len(ms) >= Len(store.objs[o].messages)
        /\ (store.objs[o].cursor <= Len(store.objs[o].messages) => store.objs[o].cursor <= Len(ms))
    <3> DEFINE n == Len(store.objs[o].messages)
               k == store.objs[o].cursor
    <3>1. n \in Nat /\ k \in Nat /\ Len(ms) = n + 1
      BY <1>2, <1>4
    <3> HIDE DEF n, k
    <3>2. Len(ms) >= n /\ (k <= n => k <= Len(ms))
      BY <3>1
    <3> QED
      BY <3>2 DEF n, k
  <2> QED
    BY <2>1, <2>2 DEF Rewrite
<1>8. Source(store, o, ms, store.objs[o].cursor)
  BY <1>0, <1>7 DEF Source
<1>9. StoreEffect
  BY <1>0, <1>2, <1>4, <1>6, <1>8, WriteEffect
<1>10. StepOK
  BY <1>0, <1>9 DEF PersistUser, StepOK, Effects, LockEffect, History, TurnEffect, WorldOK
<1> QED
  BY <1>0, <1>1, <1>6, <1>10 DEF ms

LEMMA EmitCheckpointEffect ==
    ASSUME Safe, EmitCheckpoint
    PROVE  /\ StepOK /\ turn.step = "run" /\ turn.obj \in 1 .. Len(store.objs)
           /\ Wrote(store, store', turn.obj, store.objs[turn.obj].messages, store.objs[turn.obj].cursor)
<1> DEFINE o == turn.obj
           ms == store.objs[o].messages
<1>0. StoreOK(store) /\ WorldOK /\ turn.step = "run" /\ o \in 1 .. Len(store.objs) /\ Looked(store, store)
  BY LookedSame DEF EmitCheckpoint, Safe, TypeInv, TurnOK
<1>2. ms \in Texts /\ store.objs[o].cursor \in Nat /\ Len(ms) \in Nat
  <2>1. ms \in Texts /\ store.objs[o].cursor \in Nat
    BY <1>0, ObjectIs DEF StoreOK
  <2> HIDE DEF ms
  <2> QED
    BY <2>1 DEF Texts
<1>6. Wrote(store, store', o, ms, store.objs[o].cursor)
  BY <1>0, SaveOnlyIs DEF EmitCheckpoint
<1>7. Rewrite(store, o, ms, store.objs[o].cursor, {})
  BY <1>2 DEF Rewrite
<1>8. Source(store, o, ms, store.objs[o].cursor)
  BY <1>7 DEF Source
<1>9. StoreEffect
  BY <1>0, <1>2, <1>6, <1>8, WriteEffect
<1>10. StepOK
  BY <1>0, <1>9 DEF EmitCheckpoint, StepOK, Effects, LockEffect, History, TurnEffect, WorldOK
<1> QED
  BY <1>0, <1>6, <1>10

LEMMA AdditionIs ==
    ASSUME NEW of \in Nat, NEW new \in Additions(of)
    PROVE  /\ new \in Texts /\ Elems(new) \subseteq Of(of)
           /\ Len(new) \in 1 .. 3 /\ ("tools" \notin world.events => Len(new) = 1)
<1> DEFINE a == Message("assistant", of)
           c == Message("call", of)
           t == Message("tool", of)
<1>1. {a, c, t} \subseteq Of(of) /\ {a, c, t} \subseteq Msgs
  BY MessageIs DEF Roles
<1>2. new = <<a>> \/ ("tools" \in world.events /\ new = <<c, t, a>>)
  BY DEF Additions
<1> HIDE DEF a, c, t
<1>3. CASE new = <<a>>
  <2>1. new \in Seq(Msgs) /\ Len(new) = 1 /\ DOMAIN new = 1 .. 1 /\ new[1] = a
    BY <1>1, <1>3
  <2> QED
    BY <1>1, <2>1 DEF Texts, Elems
<1>4. CASE "tools" \in world.events /\ new = <<c, t, a>>
  <2>1. new \in Seq(Msgs) /\ Len(new) = 3 /\ DOMAIN new = 1 .. 3
        /\ new[1] = c /\ new[2] = t /\ new[3] = a
    BY <1>1, <1>4
  <2>2. \A i \in 1 .. 3 : i = 1 \/ i = 2 \/ i = 3
    OBVIOUS
  <2>3. Elems(new) \subseteq Of(of)
    BY <1>1, <2>1, <2>2 DEF Elems
  <2> QED
    BY <1>4, <2>1, <2>3 DEF Texts
<1> QED
  BY <1>2, <1>3, <1>4

\* What the cap leaves of a text, and what it hands to the history.
LEMMA CappedIs ==
    ASSUME NEW ms \in Texts, NEW c \in Nat, NEW max \in Nat \ {0}
    PROVE  /\ PartOf(Retained(ms, max), ms) /\ Retained(ms, max) \in Texts
           /\ Dropped(ms, max) \in 0 .. Len(ms)
           /\ Len(Retained(ms, max)) = Len(ms) - Dropped(ms, max) /\ Len(ms) \in Nat
           /\ RetainedCursor(ms, c, max) = (IF Dropped(ms, max) < c THEN c - Dropped(ms, max) ELSE 0)
           /\ RetainedCursor(ms, c, max) \in Nat
           /\ c <= Len(ms) => RetainedCursor(ms, c, max) <= Len(Retained(ms, max))
           /\ CapArchive(ms, c, max) \subseteq Elems(ms)
           /\ \A i \in c + 1 .. Dropped(ms, max) : ms[i] \in CapArchive(ms, c, max)
<1>1. PartOf(Retained(ms, max), ms) /\ Retained(ms, max) \in Texts
  BY RetainedIs DEF PartOf
<1>2. Len(ms) \in Nat /\ Len(Retained(ms, max)) \in Nat /\ Len(Retained(ms, max)) <= Len(ms)
  BY <1>1 DEF PartOf, Texts
<1>3. Dropped(ms, max) \in 0 .. Len(ms) /\ Len(Retained(ms, max)) = Len(ms) - Dropped(ms, max)
  BY <1>2 DEF Dropped
<1>4. /\ CapArchive(ms, c, max) \subseteq Elems(ms)
      /\ \A i \in c + 1 .. Dropped(ms, max) : ms[i] \in CapArchive(ms, c, max)
  BY <1>3, SliceIs DEF CapArchive
<1>5. RetainedCursor(ms, c, max) = (IF Dropped(ms, max) < c THEN c - Dropped(ms, max) ELSE 0)
  BY DEF RetainedCursor
<1>6. RetainedCursor(ms, c, max) \in Nat /\ (c <= Len(ms) => RetainedCursor(ms, c, max) <= Len(Retained(ms, max)))
  BY <1>2, <1>3, <1>5
<1> QED
  BY <1>1, <1>2, <1>3, <1>4, <1>5, <1>6

LEMMA SaveTurnEffect ==
    ASSUME Safe, SaveTurn
    PROVE  /\ StepOK /\ turn.step = "run" /\ line = <<>> /\ turn.obj \in 1 .. Len(store.objs)
           /\ turn' = NoTurn /\ LockWait("background") /\ job["background"] = NoJob
           /\ \E new \in Additions(turn.of) :
                LET x == store.objs[turn.obj]
                    all == x.messages \o new
                IN  /\ archived' = archived \cup CapArchive(all, x.cursor, world.cap)
                    /\ Wrote(store, store', turn.obj, Retained(all, world.cap),
                             RetainedCursor(all, x.cursor, world.cap))
<1> DEFINE o == turn.obj
           x == store.objs[o]
<1>0. StoreOK(store) /\ WorldOK /\ turn.step = "run" /\ o \in 1 .. Len(store.objs)
      /\ turn.of \in Nat /\ turn.of \in 1 .. made /\ Looked(store, store)
  BY LookedSame DEF SaveTurn, Safe, TypeInv, TurnOK, TurnRecords
<1>1. line = <<>>
  BY <1>0 DEF Safe, TurnInv
<1>2. x.messages \in Texts /\ x.cursor \in Nat /\ Len(x.messages) \in Nat /\ world.cap \in Nat \ {0}
  <2>1. x.messages \in Texts /\ x.cursor \in Nat
    BY <1>0, ObjectIs DEF StoreOK
  <2>2. world.cap \in Nat \ {0}
    BY <1>0, WorldIs
  <2> QED
    BY <2>1, <2>2 DEF Texts
<1>3. PICK new \in Additions(turn.of) :
        /\ archived' = archived \cup CapArchive(x.messages \o new, x.cursor, world.cap)
        /\ Wait("background", Save(Put(store, o, Retained(x.messages \o new, world.cap),
                    RetainedCursor(x.messages \o new, x.cursor, world.cap)), o))
  BY DEF SaveTurn
<1> DEFINE all == x.messages \o new
           ms == Retained(all, world.cap)
           c == RetainedCursor(all, x.cursor, world.cap)
<1>4. new \in Texts /\ Elems(new) \subseteq Of(turn.of)
  BY <1>0, AdditionIs
<1>5. /\ all \in Texts /\ Elems(all) = Elems(x.messages) \cup Elems(new)
      /\ Len(all) = Len(x.messages) + Len(new) /\ Len(new) \in Nat
  BY <1>2, <1>4, JoinedIs
<1>6. /\ archived' = archived \cup CapArchive(all, x.cursor, world.cap)
      /\ store' = Save(Put(store, o, ms, c), o) /\ LockWait("background")
  BY <1>3 DEF Wait, LockWait
<1> HIDE DEF all
<1>7. /\ PartOf(ms, all) /\ ms \in Texts /\ c \in Nat
      /\ x.cursor <= Len(all) => c <= Len(ms)
      /\ CapArchive(all, x.cursor, world.cap) \subseteq Elems(all)
  BY <1>2, <1>5, CappedIs
<1> HIDE DEF ms, c
<1>8. Wrote(store, store', o, ms, c)
  BY <1>0, <1>6, <1>7, SaveIs
<1>9. \A p \in Jobs : job[p] = NoJob
  BY <1>1, AtRest
<1>10. \A p \in Jobs : job'[p].step # "archive"
  BY <1>6, <1>9 DEF LockWait, NoJob
<1>11. Rewrite(store, o, ms, c, Of(turn.of))
  <2>1. Elems(ms) \subseteq Elems(x.messages) \cup Of(turn.of)
    BY <1>4, <1>5, <1>7 DEF PartOf
  <2>2. x.cursor <= Len(x.messages) => c <= Len(ms)
    BY <1>2, <1>5, <1>7
  <2> QED
    BY <1>10, <2>1, <2>2 DEF Rewrite
<1>12. Source(store, o, ms, c)
  BY <1>0, <1>11 DEF Source
<1>13. StoreEffect
  BY <1>0, <1>7, <1>8, <1>12, WriteEffect
<1>14. LockEffect
  BY <1>6, <1>9 DEF LockEffect, Jobs
<1>15. archived' \subseteq archived \cup Known(made)
  <2>1. Elems(x.messages) \subseteq Known(made)
    BY <1>0, HeldTexts DEF Safe
  <2>2. Of(turn.of) \subseteq Known(made)
    BY <1>0 DEF Of, Known
  <2> QED
    BY <1>4, <1>5, <1>6, <1>7, <2>1, <2>2
<1>16. StepOK
  BY <1>0, <1>13, <1>14, <1>15 DEF SaveTurn, StepOK, Effects, History, TurnEffect, WorldOK
<1>17. turn' = NoTurn /\ job["background"] = NoJob
  BY <1>9 DEF SaveTurn, Jobs
<1> QED
  BY <1>0, <1>1, <1>6, <1>8, <1>16, <1>17 DEF all, ms, c

LEMMA AbandonTurnEffect ==
    ASSUME Safe, AbandonTurn
    PROVE  /\ StepOK /\ turn' = NoTurn /\ store' \in {store, Fetch(store)} /\ archived' = archived
           /\ IF turn.step = "build" THEN LockLeft("build") ELSE turn.step = "run" /\ UNCHANGED <<line, job>>
<1>0. StoreOK(store) /\ WorldOK /\ Looked(store, store) /\ Looked(store, Fetch(store))
      /\ turn.step \in TurnSteps
  BY LookedSame, FetchIs DEF Safe, TypeInv, TurnOK, TurnRecords
<1>1. store' \in {store, Fetch(store)} /\ turn' = NoTurn
  BY DEF AbandonTurn, Leave
<1>2. IF turn.step = "build" THEN LockLeft("build") ELSE UNCHANGED <<line, job>>
  BY DEF AbandonTurn, Leave, LockLeft
<1>3. turn.step # "build" => turn.step = "run"
  BY <1>0 DEF AbandonTurn, TurnSteps
<1>4. StoreEffect /\ LockEffect
  BY <1>0, <1>1, <1>2 DEF StoreEffect, LockEffect, Jobs
<1>5. StepOK
  BY <1>0, <1>1, <1>4 DEF AbandonTurn, StepOK, Effects, History, TurnEffect, WorldOK
<1> QED
  BY <1>1, <1>2, <1>3, <1>5 DEF AbandonTurn

LEMMA DeliverEffect ==
    ASSUME Safe, Deliver
    PROVE  StepOK /\ "deliver" \in world.events /\ UNCHANGED <<turn, line, job>>
           /\ (store.cached # 0 => store'.cached = store.cached)
<1> DEFINE f == Fetch(store)
           o == f.cached
           m == Message("delivery", made + 1)
           ms == Append(f.objs[o].messages, m)
           c == f.objs[o].cursor
<1>0. StoreOK(store) /\ WorldOK /\ made \in Nat /\ world.made \in Nat /\ asked \in Nat
  BY WorldIs DEF Safe, TypeInv, WorldOK
<1>1. /\ Looked(store, f) /\ StoreOK(f) /\ o \in 1 .. Len(f.objs)
      /\ store.cached # 0 => f.cached = store.cached
  BY <1>0, FetchIs DEF Looked
<1>2. /\ "deliver" \in world.events /\ made < world.made /\ made' = made + 1 /\ asked' = asked + 1
      /\ store' = Save(Put(f, o, ms, c), o)
  BY DEF Deliver
<1> HIDE DEF f
<1>3. f.objs[o].messages \in Texts /\ c \in Nat
  BY <1>1, ObjectIs DEF StoreOK
<1>4. m \in Of(made + 1) /\ m \in Msgs
  <2>1. made + 1 \in Nat
    BY <1>0
  <2> QED
    BY <2>1, MessageIs DEF Roles
<1> HIDE DEF m
<1>5. /\ ms \in Texts /\ Len(ms) = Len(f.objs[o].messages) + 1 /\ Len(f.objs[o].messages) \in Nat
      /\ Elems(ms) = Elems(f.objs[o].messages) \cup {m}
  BY <1>3, <1>4, AddedIs
<1> HIDE DEF ms
<1>6. Wrote(f, store', o, ms, c)
  BY <1>1, <1>2, <1>3, <1>5, SaveIs
<1>7. Rewrite(f, o, ms, c, Of(made + 1))
  <2>1. Elems(ms) \subseteq Elems(f.objs[o].messages) \cup Of(made + 1)
    BY <1>4, <1>5
  <2> HIDE DEF c
  <2> DEFINE len == Len(f.objs[o].messages)
             more == Len(ms)
  <2>0. len \in Nat /\ more = len + 1 /\ c \in Nat
    BY <1>3, <1>5
  <2> HIDE DEF len, more
  <2>2. more >= len /\ (c <= len => c <= more)
    BY <2>0
  <2> USE DEF len, more
  <2> QED
    BY <2>1, <2>2 DEF Rewrite, c
<1>8. Source(f, o, ms, c)
  BY <1>2, <1>7 DEF Source
<1>9. StoreEffect
  BY <1>1, <1>3, <1>5, <1>6, <1>8, WriteEffect
<1>10. made' <= world.made /\ asked' \in Nat /\ UNCHANGED <<world, turn, job, line, archived, deleted, cleared>>
  BY <1>0, <1>2 DEF Deliver
<1>11. StepOK
  BY <1>2, <1>9, <1>10 DEF StepOK, Effects, LockEffect, History, TurnEffect
<1>12. store.cached # 0 => store'.cached = store.cached
  <2>1. o # 0
    BY <1>1, LookedSame
  <2> QED
    BY <1>1, <1>6, <2>1 DEF Wrote
<1> QED
  BY <1>2, <1>10, <1>11, <1>12

LEMMA NewSessionEffect ==
    ASSUME Safe, NewSession
    PROVE  StepOK /\ "new" \in world.events /\ UNCHANGED <<turn, line, job>>
<1> DEFINE f == Fetch(store)
           o == f.cached
           s == Save(Put(f, o, <<>>, 0), o)
           x == f.objs[o]
<1>0. StoreOK(store) /\ WorldOK /\ asked \in Nat
  BY DEF Safe, TypeInv, WorldOK
<1>1. Looked(store, f) /\ StoreOK(f) /\ o \in 1 .. Len(f.objs) /\ f.file = store.file
  BY <1>0, FetchIs DEF Looked
<1>2. /\ "new" \in world.events /\ asked' = asked + 1
      /\ archived' = archived \cup Elems(After(x.cursor, x.messages))
      /\ cleared' = cleared \cup Elems(x.messages) \cup Elems(f.file.messages)
      /\ store' = [s EXCEPT !.cached = 0]
      /\ UNCHANGED <<world, turn, job, line, deleted, made>>
  BY DEF NewSession
<1> HIDE DEF f
<1>3. x.messages \in Texts /\ x.cursor \in Nat /\ <<>> \in Texts /\ Len(<<>>) = 0 /\ Elems(<<>>) = {}
  BY <1>1, ObjectIs DEF StoreOK, Texts, Elems
<1>4. Wrote(f, s, o, <<>>, 0)
  BY <1>1, <1>3, SaveIs
<1> HIDE DEF s
<1>5. Looked(s, store')
  BY <1>2, <1>4, ForgetIs DEF Wrote
<1>6. Rewrite(f, o, <<>>, 0, {})
  BY <1>2, <1>3 DEF Rewrite
<1>7. Source(f, o, <<>>, 0)
  BY <1>6 DEF Source
<1>8. Writes(f, s, o, <<>>, 0)
  BY <1>1, <1>3, <1>4, <1>5, <1>7 DEF Writes
<1>9. StoreEffect
  BY <1>8 DEF StoreEffect
<1>10. Elems(x.messages) \subseteq Known(made) /\ Elems(f.file.messages) \subseteq Known(made)
  BY <1>1, HeldTexts DEF Safe
<1>11. Elems(After(x.cursor, x.messages)) \subseteq Elems(x.messages)
  BY <1>3, TailPart DEF PartOf
<1>12. made' \in {made, made + 1} /\ made' <= world.made /\ asked' \in Nat /\ world' = world
  BY <1>0, <1>2 DEF WorldOK
<1>13. History
  BY <1>2, <1>10, <1>11 DEF History
<1> QED
  BY <1>2, <1>9, <1>12, <1>13 DEF StepOK, Effects, LockEffect, TurnEffect

LEMMA RewindEffect ==
    ASSUME Safe, Rewind
    PROVE  StepOK /\ "rewind" \in world.events /\ turn.step # "run" /\ UNCHANGED <<turn, line, job>>
           /\ (store.cached # 0 => store'.cached = store.cached)
<1> DEFINE f == Fetch(store)
           o == f.cached
           x == f.objs[o]
<1>0. StoreOK(store) /\ WorldOK /\ asked \in Nat
  BY DEF Safe, TypeInv, WorldOK
<1>1. /\ Looked(store, f) /\ StoreOK(f) /\ o \in 1 .. Len(f.objs)
      /\ store.cached # 0 => f.cached = store.cached
  BY <1>0, FetchIs DEF Looked
<1>2. /\ "rewind" \in world.events /\ turn.step # "run" /\ asked' = asked + 1
      /\ UNCHANGED <<world, turn, job, line, archived, deleted, made>>
  BY DEF Rewind
<1>3. PICK i \in Users(x.messages) :
        /\ store' = Save(Put(f, o, SubSeq(x.messages, 1, i - 1),
                             IF x.cursor < i THEN x.cursor ELSE i - 1), o)
        /\ cleared' = cleared \cup Elems(After(i - 1, x.messages))
  BY DEF Rewind
<1> DEFINE ms == SubSeq(x.messages, 1, i - 1)
           c == IF x.cursor < i THEN x.cursor ELSE i - 1
<1> HIDE DEF f
<1>4. x.messages \in Texts /\ x.cursor \in Nat /\ Len(x.messages) \in Nat
  BY <1>1, ObjectIs DEF StoreOK, Texts
<1> HIDE DEF x
<1>5. i \in 1 .. Len(x.messages)
  BY <1>3, <1>4, UsersAre
<1>6. i - 1 \in 0 .. Len(x.messages) /\ c \in Nat /\ c <= i - 1
  BY <1>4, <1>5
<1>7. PartOf(ms, x.messages) /\ Len(ms) = i - 1
  BY <1>4, <1>6, FirstPart
<1>8. PartOf(After(i - 1, x.messages), x.messages)
  BY <1>4, <1>6, AfterPart
<1> HIDE DEF ms, c
<1>9. store' = Save(Put(f, o, ms, c), o)
  BY <1>3 DEF ms, c
<1>10. ms \in Texts
  BY <1>7 DEF PartOf
<1>11. Wrote(f, store', o, ms, c)
  BY <1>1, <1>6, <1>9, <1>10, SaveIs
<1>12. Rewrite(f, o, ms, c, {})
  BY <1>2, <1>6, <1>7 DEF Rewrite, PartOf, x
<1>13. Source(f, o, ms, c)
  BY <1>12 DEF Source
<1>14. StoreEffect
  BY <1>1, <1>6, <1>10, <1>11, <1>13, WriteEffect
<1>15. Elems(x.messages) \subseteq Known(made)
  BY <1>1, HeldTexts DEF Safe, x
<1>16. History
  BY <1>2, <1>3, <1>8, <1>15 DEF History, PartOf
<1>17. made' \in {made, made + 1} /\ made' <= world.made /\ asked' \in Nat /\ world' = world
  BY <1>0, <1>2 DEF WorldOK
<1>18. StepOK
  BY <1>2, <1>14, <1>16, <1>17 DEF StepOK, Effects, LockEffect, TurnEffect
<1>19. store.cached # 0 => store'.cached = store.cached
  <2>1. o # 0
    BY <1>1, LookedSame
  <2> QED
    BY <1>1, <1>11, <2>1 DEF Wrote
<1> QED
  BY <1>2, <1>18, <1>19

LEMMA EvictEffect ==
    ASSUME Safe, Evict
    PROVE  StepOK /\ "evict" \in world.events /\ UNCHANGED <<turn, line, job>>
<1>0. StoreOK(store) /\ WorldOK /\ asked \in Nat
  BY DEF Safe, TypeInv, WorldOK
<1>1. Looked(store, store')
  BY <1>0, ForgetIs DEF Evict
<1> QED
  BY <1>0, <1>1 DEF Evict, StepOK, Effects, StoreEffect, LockEffect, History, TurnEffect, WorldOK

\* A delete leaves the objects alone and makes all of them dead.
LEMMA DeleteEffect ==
    ASSUME Safe, Delete
    PROVE  /\ StoreOK(store') /\ store'.objs = store.objs /\ store'.file = NoFile
           /\ store'.tomb = store.gen + 1 /\ store'.cached = 0
           /\ "delete" \in world.events /\ asked' \in Nat
           /\ UNCHANGED <<world, turn, job, line, archived, cleared, made>>
           /\ deleted' = deleted \cup (UNION {Elems(store.objs[o].messages) : o \in DOMAIN store.objs})
                                 \cup Elems(store.file.messages)
<1>0. /\ StoreOK(store) /\ store \in Stores /\ asked \in Nat /\ store.gen \in Nat
      /\ Len(store.objs) \in Nat
  BY ObjectIs DEF Safe, TypeInv, WorldOK, StoreOK, Stores
<1> DEFINE g == store.gen + 1
           t == [store EXCEPT !.cached = 0, !.file = NoFile, !.gen = g, !.tomb = g]
<1>1. store' = t
  BY DEF Delete
<1>2. NoFile \in Sessions /\ g \in Nat
  BY <1>0 DEF NoFile, Sessions, Texts
<1> HIDE DEF g
<1>3. /\ t \in Stores /\ t.objs = store.objs /\ t.file = NoFile /\ t.tomb = g /\ t.gen = g /\ t.cached = 0
  BY <1>0, <1>2 DEF Stores
<1> HIDE DEF t
<1>4. \A o \in 1 .. Len(store.objs) : store.objs[o].gen \in Nat /\ store.objs[o].gen <= g
  BY <1>0, ObjectIs DEF StoreOK, g
<1>5. StoreOK(t)
  BY <1>0, <1>2, <1>3, <1>4 DEF StoreOK
<1> QED
  BY <1>0, <1>1, <1>3, <1>5 DEF Delete, g

-----------------------------------------------------------------------------
(***************************************************************************)
(* The types hold, and the lock has one holder.                            *)
(***************************************************************************)
LEMMA StepEffect ==
    ASSUME Safe, Next
    PROVE  StepOK \/ Delete
<1>1. CASE JobStep
  <2>1. ASSUME NEW p \in Jobs, ArchiveRaises(p) \/ Resume(p) \/ EndRound(p) PROVE StepOK
    BY <2>1, ArchiveRaisesEffect, ResumeEffect, EndRoundEffect
  <2> QED
    BY <1>1, <2>1, EndIdleEffect DEF JobStep
<1>2. CASE Expire
  BY <1>2, ExpireEffect
<1>3. CASE StartTurn
  BY <1>3, StartTurnEffect
<1>4. CASE PersistUser \/ EmitCheckpoint
  BY <1>4, PersistUserEffect, EmitCheckpointEffect
<1>5. CASE SaveTurn \/ AbandonTurn
  BY <1>5, SaveTurnEffect, AbandonTurnEffect
<1>6. CASE Deliver \/ NewSession \/ Rewind \/ Evict
  BY <1>6, DeliverEffect, NewSessionEffect, RewindEffect, EvictEffect
<1> QED
  BY <1>1, <1>2, <1>3, <1>4, <1>5, <1>6 DEF Next

\* Objects stay where they are and of the generation that they are of.
LEMMA StoreSteps ==
    ASSUME StoreOK(store), StoreEffect
    PROVE  /\ StoreOK(store') /\ Len(store.objs) <= Len(store'.objs)
           /\ Len(store.objs) \in Nat /\ Len(store'.objs) \in Nat
           /\ store'.tomb = store.tomb
           /\ \A o \in 1 .. Len(store.objs) : store'.objs[o].gen = store.objs[o].gen
<1>0. Len(store.objs) \in Nat
  BY LookedSame
<1>1. CASE Looked(store, store')
  <2>1. StoreOK(store')
    BY <1>1 DEF Looked
  <2> QED
    BY <1>0, <1>1, <2>1, LookedSame DEF Looked
<1>2. ASSUME NEW f, NEW t, NEW o, NEW ms, NEW c, Writes(f, t, o, ms, c)
      PROVE  /\ StoreOK(store') /\ Len(store.objs) <= Len(store'.objs) /\ store'.tomb = store.tomb
             /\ \A i \in 1 .. Len(store.objs) : store'.objs[i].gen = store.objs[i].gen
             /\ Len(store'.objs) \in Nat
  <2>1. Looked(store, f) /\ Wrote(f, t, o, ms, c) /\ Looked(t, store') /\ StoreOK(f) /\ StoreOK(t)
        /\ StoreOK(store')
    BY <1>2 DEF Writes, Looked, Wrote
  <2>2. Len(f.objs) \in Nat /\ Len(t.objs) \in Nat /\ Len(store'.objs) \in Nat
    BY <2>1, LookedSame
  <2>3. /\ Len(store.objs) <= Len(f.objs) /\ Len(t.objs) = Len(f.objs) /\ Len(t.objs) <= Len(store'.objs)
        /\ f.tomb = store.tomb /\ t.tomb = f.tomb /\ store'.tomb = t.tomb
    BY <2>1 DEF Looked, Wrote
  <2>4. ASSUME NEW i \in 1 .. Len(store.objs) PROVE store'.objs[i].gen = store.objs[i].gen
    <3>1. i \in 1 .. Len(f.objs) /\ i \in 1 .. Len(t.objs)
      BY <1>0, <2>2, <2>3
    <3>2. f.objs[i] = store.objs[i] /\ t.objs[i].gen = f.objs[i].gen /\ store'.objs[i] = t.objs[i]
      BY <2>1, <3>1 DEF Looked, Wrote
    <3> QED
      BY <3>2
  <2> QED
    BY <1>0, <2>1, <2>2, <2>3, <2>4
<1> QED
  BY <1>0, <1>1, <1>2 DEF StoreEffect

\* What the store holds from a generation on, after a step: T has what it held and
\* what was written.
LEMMA EffectHolds ==
    ASSUME StoreOK(store), StoreEffect, NEW g \in Nat, NEW T, Holds(store, g, T), g <= store.tomb,
           \A f, o, ms, c : Looked(store, f) /\ Holds(f, g, T) /\ o \in 1 .. Len(f.objs)
                            /\ ms \in Texts /\ c \in Nat /\ Source(f, o, ms, c) /\ f.objs[o].gen >= g
                               => [messages |-> ms, cursor |-> c] \in T
    PROVE  Holds(store', g, T)
<1>1. CASE Looked(store, store')
  BY <1>1, LookedHolds
<1>2. ASSUME NEW f, NEW t, NEW o, NEW ms, NEW c, Writes(f, t, o, ms, c)
      PROVE  Holds(store', g, T)
  <2>1. Looked(store, f) /\ Wrote(f, t, o, ms, c) /\ Looked(t, store') /\ StoreOK(f) /\ StoreOK(t)
        /\ o \in 1 .. Len(f.objs) /\ Source(f, o, ms, c) /\ ms \in Texts /\ c \in Nat
    BY <1>2 DEF Writes, Looked, Wrote
  <2>2. Holds(f, g, T)
    BY <2>1, LookedHolds
  <2>3. f.objs[o].gen >= g => [messages |-> ms, cursor |-> c] \in T
    BY <2>1, <2>2
  <2>4. g <= f.tomb
    BY <2>1 DEF Looked
  <2>5. Holds(t, g, T)
    BY <2>1, <2>2, <2>3, <2>4, WroteHolds
  <2> QED
    BY <2>1, <2>5, LookedHolds
<1> QED
  BY <1>1, <1>2 DEF StoreEffect

LEMMA SourceTexts ==
    ASSUME TypeInv, Effects, NEW f, Looked(store, f), NEW o \in 1 .. Len(f.objs), NEW ms, NEW c,
           Source(f, o, ms, c)
    PROVE  Elems(ms) \subseteq Known(made')
<1>0. made \in Nat /\ made' \in Nat /\ made <= made' /\ StoreOK(store) /\ StoreOK(f)
  BY DEF TypeInv, WorldOK, Effects, Looked
<1>1. Known(made) \subseteq Known(made')
  BY <1>0, KnownMonotonic
<1>2. Elems(f.objs[o].messages) \subseteq Known(made)
  BY <1>0, HeldTexts
<1>3. CASE Rewrite(f, o, ms, c, {})
  BY <1>1, <1>2, <1>3 DEF Rewrite
<1>4. CASE turn.step # "idle" /\ Rewrite(f, o, ms, c, Of(turn.of))
  <2>1. Of(turn.of) \subseteq Known(made)
    BY <1>4 DEF TypeInv, TurnOK, Of, Known
  <2> QED
    BY <1>1, <1>2, <1>4, <2>1 DEF Rewrite
<1>5. CASE made' = made + 1 /\ Rewrite(f, o, ms, c, Of(made + 1))
  <2>1. made + 1 \in 1 .. made'
    BY <1>0, <1>5
  <2>2. Of(made + 1) \subseteq Known(made')
    BY <2>1 DEF Of, Known
  <2> QED
    BY <1>1, <1>2, <1>5, <2>2 DEF Rewrite
<1>6. CASE ms = f.objs[o].messages
  BY <1>1, <1>2, <1>6
<1>7. CASE ms = job["idle"].kept
  BY <1>1, <1>7 DEF TypeInv, JobsOK, Jobs
<1> QED
  BY <1>3, <1>4, <1>5, <1>6, <1>7 DEF Source

LEMMA ContentStep ==
    ASSUME TypeInv, Effects, History
    PROVE  ContentOK'
<1>0. made \in Nat /\ made' \in Nat /\ made <= made' /\ StoreOK(store) /\ StoreEffect /\ store.tomb \in Nat
  BY DEF TypeInv, WorldOK, Effects, StoreOK, Stores
<1>1. Known(made) \subseteq Known(made') /\ TextsOf(Known(made)) \subseteq TextsOf(Known(made'))
  BY <1>0, KnownMonotonic
<1> DEFINE T == TextsOf(Known(made'))
<1>2. Holds(store, 0, T)
  BY <1>1 DEF TypeInv, ContentOK, Holds
<1>3. ASSUME NEW f, NEW o, NEW ms, NEW c, Looked(store, f), o \in 1 .. Len(f.objs),
             ms \in Texts, c \in Nat, Source(f, o, ms, c)
      PROVE  [messages |-> ms, cursor |-> c] \in T
  <2>1. Elems(ms) \subseteq Known(made')
    BY <1>3, SourceTexts
  <2> QED
    BY <1>3, <2>1 DEF TextsOf, Sessions
<1> HIDE DEF T
<1>4. Holds(store', 0, T)
  BY <1>0, <1>2, <1>3, EffectHolds
<1>5. /\ archived' \subseteq Known(made') /\ deleted' \subseteq Known(made') /\ cleared' \subseteq Known(made')
  BY <1>1 DEF History, TypeInv, ContentOK
<1> QED
  BY <1>4, <1>5 DEF ContentOK, T

LEMMA NoJobIs == NoJob \in JobRecords /\ NoJob.step = "none" /\ Elems(NoJob.chunk) = {} /\ Elems(NoJob.kept) = {}
BY DEF NoJob, JobRecords, JobSteps, Texts, Elems

LEMMA JobsStep ==
    ASSUME Safe, Effects
    PROVE  JobsOK'
<1>0. /\ made \in Nat /\ made' \in Nat /\ made <= made' /\ job \in [Jobs -> JobRecords] /\ line \in Seq(Jobs)
      /\ \A i, j \in 1 .. Len(line) : line[i] = line[j] => i = j
      /\ StoreOK(store) /\ StoreEffect /\ LockEffect
  BY DEF Safe, TypeInv, WorldOK, JobsOK, LockInv, Effects
<1>1. Known(made) \subseteq Known(made')
  BY <1>0, KnownMonotonic
<1> DEFINE Good(w) == /\ w.step = "none" => w = NoJob
                      /\ w.step = "archive" => w.obj \in 1 .. Len(store'.objs)
                      /\ Elems(w.chunk) \subseteq Known(made') /\ Elems(w.kept) \subseteq Known(made')
<1>2. \A p \in Jobs : job[p] \in JobRecords /\ Good(job[p])
  <2>1. \A i \in 1 .. Len(store.objs) : i \in 1 .. Len(store'.objs)
    BY <1>0, StoreSteps
  <2> QED
    BY <1>0, <1>1, <2>1 DEF Safe, TypeInv, JobsOK
<1>3. Good(NoJob)
  BY NoJobIs
<1> HIDE DEF Good
<1>4. ASSUME NEW p \in Jobs, NEW w \in JobRecords, Good(w), job' = [job EXCEPT ![p] = w],
             line' \in Seq(Jobs)
      PROVE  JobsOK'
  <2>1. job' \in [Jobs -> JobRecords] /\ \A q \in Jobs : Good(job'[q])
    BY <1>0, <1>2, <1>4
  <2> QED
    BY <1>4, <2>1 DEF JobsOK, Good
<1>5. CASE UNCHANGED <<line, job>>
  BY <1>0, <1>2, <1>5 DEF JobsOK, Good
<1>6. ASSUME NEW p \in Jobs, LockLeft(p) PROVE JobsOK'
  BY <1>0, <1>3, <1>4, <1>6, NoJobIs, WithoutIs DEF LockLeft
<1>7. ASSUME NEW p \in Jobs, LockWait(p) PROVE JobsOK'
  <2> DEFINE w == [job[p] EXCEPT !.step = "wait"]
  <2>1. job' = [job EXCEPT ![p] = w]
    BY <1>7 DEF LockWait
  <2>2. w \in JobRecords /\ w.step = "wait" /\ w.chunk = job[p].chunk /\ w.kept = job[p].kept
    BY <1>2 DEF JobRecords, JobSteps
  <2> HIDE DEF w
  <2>3. Good(w)
    BY <1>2, <2>2 DEF Good
  <2>4. line' \in Seq(Jobs)
    BY <1>0, <1>7 DEF LockWait
  <2> QED
    BY <1>4, <2>1, <2>2, <2>3, <2>4
<1>8. ASSUME NEW p \in Jobs, NEW w, LockWork(p, w), WorkOK(p, w) PROVE JobsOK'
  <2>1. Good(w) /\ w \in JobRecords
    BY <1>1, <1>8 DEF WorkOK, Good
  <2>2. line' \in Seq(Jobs)
    BY <1>0, <1>8 DEF LockWork, Holder
  <2> QED
    BY <1>4, <1>8, <2>1, <2>2 DEF LockWork
<1> QED
  BY <1>0, <1>5, <1>6, <1>7, <1>8 DEF LockEffect

LEMMA TypeStep ==
    ASSUME Safe, StepOK
    PROVE  TypeInv'
<1>0. /\ made \in Nat /\ made' \in Nat /\ made <= made' /\ StoreOK(store) /\ StoreEffect
      /\ turn \in TurnRecords /\ turn.obj \in 0 .. Len(store.objs) /\ TypeInv /\ Effects /\ History
      /\ turn.step # "idle" => turn.obj \in 1 .. Len(store.objs) /\ turn.of \in 1 .. made
  BY DEF Safe, TypeInv, WorldOK, TurnOK, StepOK, Effects
<1>1. WorldOK'
  BY <1>0 DEF Effects, TypeInv, WorldOK
<1>2. StoreOK(store')
  BY <1>0, StoreSteps
<1>3. JobsOK' /\ ContentOK'
  BY <1>0, JobsStep, ContentStep
<1>4. TurnOK'
  <2>1. /\ Len(store.objs) \in Nat /\ Len(store'.objs) \in Nat /\ Len(store.objs) <= Len(store'.objs)
    BY <1>0, StoreSteps
  <2>2. /\ \A i \in 0 .. Len(store.objs) : i \in 0 .. Len(store'.objs)
        /\ \A i \in 1 .. Len(store.objs) : i \in 1 .. Len(store'.objs)
        /\ \A i \in 1 .. made : i \in 1 .. made'
    BY <1>0, <2>1
  <2>3. CASE turn' = turn
    BY <1>0, <2>2, <2>3 DEF TurnOK
  <2>4. CASE turn' = NoTurn
    BY <2>1, <2>4 DEF TurnOK, NoTurn, TurnRecords, TurnSteps
  <2>5. CASE /\ turn' = [step |-> "build", obj |-> Fetch(store).cached, of |-> made + 1] /\ made' = made + 1
             /\ Fetch(store).cached \in 1 .. Len(store'.objs)
    <3> DEFINE o == Fetch(store).cached
    <3>1. o \in 1 .. Len(store'.objs) /\ o \in Nat /\ made + 1 \in Nat /\ made + 1 \in 1 .. made'
      BY <1>0, <2>1, <2>5
    <3> HIDE DEF o
    <3>2. turn' = [step |-> "build", obj |-> o, of |-> made + 1]
      BY <2>5 DEF o
    <3>3. turn' \in TurnRecords /\ turn'.obj = o /\ turn'.of = made + 1
      BY <3>1, <3>2 DEF TurnRecords, TurnSteps
    <3> QED
      BY <2>1, <3>1, <3>3 DEF TurnOK
  <2>6. CASE turn.step = "build" /\ turn' = [turn EXCEPT !.step = "run"]
    <3>1. turn' \in TurnRecords /\ turn'.obj = turn.obj /\ turn'.of = turn.of
      BY <1>0, <2>6 DEF TurnRecords, TurnSteps
    <3> QED
      BY <1>0, <2>2, <2>6, <3>1 DEF TurnOK
  <2> QED
    BY <2>3, <2>4, <2>5, <2>6 DEF StepOK, TurnEffect
<1> QED
  BY <1>1, <1>2, <1>3, <1>4 DEF TypeInv

LEMMA TypeDelete ==
    ASSUME Safe, Delete
    PROVE  TypeInv'
<1>0. /\ made \in Nat /\ StoreOK(store) /\ TypeInv
  BY DEF Safe, TypeInv, WorldOK
<1>1. /\ StoreOK(store') /\ store'.objs = store.objs /\ store'.file = NoFile
      /\ asked' \in Nat /\ UNCHANGED <<world, turn, job, line, archived, cleared, made>>
      /\ deleted' = deleted \cup (UNION {Elems(store.objs[o].messages) : o \in DOMAIN store.objs})
                            \cup Elems(store.file.messages)
  BY DeleteEffect
<1>2. WorldOK' /\ TurnOK' /\ JobsOK'
  BY <1>0, <1>1 DEF TypeInv, WorldOK, TurnOK, JobsOK
<1>3. /\ Elems(store.file.messages) \subseteq Known(made)
      /\ \A o \in DOMAIN store.objs : Elems(store.objs[o].messages) \subseteq Known(made)
  BY <1>0, HeldTexts, LookedSame, ObjectIs DEF StoreOK
<1>4. deleted' \subseteq Known(made)
  <2> DEFINE U == UNION {Elems(store.objs[o].messages) : o \in DOMAIN store.objs}
  <2>1. U \subseteq Known(made)
    BY <1>3
  <2>2. deleted' = deleted \cup U \cup Elems(store.file.messages)
    BY <1>1
  <2> HIDE DEF U
  <2>3. deleted \subseteq Known(made)
    BY <1>0 DEF TypeInv, ContentOK
  <2> QED
    BY <1>3, <2>1, <2>2, <2>3
<1>5. NoFile \in TextsOf(Known(made))
  BY DEF NoFile, TextsOf, Sessions, Texts, Elems
<1>6. ContentOK'
  BY <1>0, <1>1, <1>4, <1>5 DEF TypeInv, ContentOK, Holds
<1> QED
  BY <1>1, <1>2, <1>6 DEF TypeInv

LEMMA LockStep ==
    ASSUME Safe, LockEffect, world' = world
    PROVE  LockInv'
<1>0. /\ job \in [Jobs -> JobRecords] /\ line \in Seq(Jobs) /\ LockInv
      /\ \A i, j \in 1 .. Len(line) : line[i] = line[j] => i = j
      /\ \A p \in Jobs : p \in Elems(line) <=> job[p].step # "none"
      /\ \A p \in Jobs : job[p].step = "archive" => line # <<>> /\ line[1] = p
  BY DEF Safe, TypeInv, JobsOK, LockInv
<1>a. CASE UNCHANGED <<line, job>>
  BY <1>0, <1>a DEF LockInv
<1>1. ASSUME NEW p \in Jobs, LockLeft(p) PROVE LockInv'
  <2>1. /\ \A i, j \in 1 .. Len(line') : line'[i] = line'[j] => i = j
        /\ \A q \in Jobs : q \in Elems(line') <=> q \in Elems(line) /\ q # p
        /\ line # <<>> /\ line[1] # p => line' # <<>> /\ line'[1] = line[1]
    BY <1>0, <1>1, WithoutIs DEF LockLeft
  <2>2. job'[p] = NoJob /\ job'[p].step = "none" /\ \A q \in Jobs : q # p => job'[q] = job[q]
    BY <1>0, <1>1, NoJobIs DEF LockLeft
  <2>3. \A q \in Jobs : q \in Elems(line') <=> job'[q].step # "none"
    BY <1>0, <2>1, <2>2
  <2>4. \A q \in Jobs : job'[q].step = "archive" => line' # <<>> /\ line'[1] = q
    BY <1>0, <2>1, <2>2
  <2>5. job'["idle"].step = "wait" => job["idle"].step = "wait"
    BY <2>2 DEF Jobs
  <2> QED
    BY <1>0, <2>1, <2>3, <2>4, <2>5 DEF LockInv
<1>2. ASSUME NEW p \in Jobs, LockWait(p), job[p] = NoJob, p = "idle" => "outlast" \in world.events
      PROVE  LockInv'
  <2>1. line' = Append(line, p) /\ Len(line) \in Nat
    BY <1>0, <1>2 DEF LockWait
  <2>2. /\ line' \in Seq(Jobs) /\ Len(line') = Len(line) + 1 /\ line'[Len(line) + 1] = p
        /\ \A i \in 1 .. Len(line) : line'[i] = line[i]
    BY <1>0, <2>1, AppendProperties
  <2>3. p \notin Elems(line) /\ \A i \in 1 .. Len(line) : line[i] # p
    BY <1>0, <1>2, NoJobIs, LineElems
  <2>4. \A i \in 1 .. Len(line') : i \in 1 .. Len(line) \/ i = Len(line) + 1
    BY <2>1, <2>2
  <2>5. \A i, j \in 1 .. Len(line') : line'[i] = line'[j] => i = j
    BY <1>0, <2>2, <2>3, <2>4
  <2>6. job'[p].step = "wait" /\ \A q \in Jobs : q # p => job'[q] = job[q]
    BY <1>0, <1>2 DEF LockWait, JobRecords
  <2>7. \A q \in Jobs : q \in Elems(line') <=> q \in Elems(line) \/ q = p
    <3>1. \A q : q \in Elems(line') <=> \E i \in 1 .. Len(line') : line'[i] = q
      BY <2>2, LineElems
    <3>2. \A q : q \in Elems(line) <=> \E i \in 1 .. Len(line) : line[i] = q
      BY <1>0, LineElems
    <3>3. Len(line) + 1 \in 1 .. Len(line') /\ \A i \in 1 .. Len(line) : i \in 1 .. Len(line')
      BY <2>1, <2>2
    <3> QED
      BY <2>2, <2>4, <3>1, <3>2, <3>3
  <2>8. \A q \in Jobs : q \in Elems(line') <=> job'[q].step # "none"
    BY <1>0, <2>6, <2>7
  <2>9. line # <<>> => line' # <<>> /\ line'[1] = line[1]
    <3>1. line # <<>> => 1 \in 1 .. Len(line)
      BY <1>0, LineElems
    <3>2. line' # <<>>
      BY <2>1, <2>2, LineElems
    <3> QED
      BY <2>2, <3>1, <3>2
  <2>10. \A q \in Jobs : job'[q].step = "archive" => line' # <<>> /\ line'[1] = q
    BY <1>0, <2>6, <2>9
  <2>11. "outlast" \notin world.events => job'["idle"].step # "wait"
    BY <1>0, <1>2, <2>6 DEF LockInv, Jobs
  <2> QED
    BY <2>5, <2>8, <2>10, <2>11 DEF LockInv
<1>3. ASSUME NEW p \in Jobs, NEW w, LockWork(p, w), HasLock(p), WorkOK(p, w)
      PROVE  LockInv'
  <2>1. job'[p].step = "archive" /\ \A q \in Jobs : q # p => job'[q] = job[q] /\ job[q].step # "archive"
    BY <1>0, <1>3, NoOthers DEF LockWork, WorkOK, Safe, TypeInv
  <2>2. job'["idle"].step = "wait" => job["idle"].step = "wait"
    BY <2>1 DEF Jobs
  <2>3. CASE line # <<>>
    <3>1. line' = line /\ line[1] = p
      BY <1>3, <2>3 DEF LockWork, Holder, HasLock
    <3>2. p \in Elems(line)
      <4>1. 1 \in 1 .. Len(line)
        BY <1>0, <2>3, LineElems
      <4> QED
        BY <1>0, <3>1, <4>1, LineElems
    <3>3. \A q \in Jobs : q \in Elems(line') <=> job'[q].step # "none"
      BY <1>0, <2>1, <3>1, <3>2
    <3>4. \A q \in Jobs : job'[q].step = "archive" => line' # <<>> /\ line'[1] = q
      BY <2>1, <2>3, <3>1
    <3> QED
      BY <1>0, <2>2, <3>1, <3>3, <3>4 DEF LockInv
  <2>4. CASE line = <<>>
    <3>1. line' = <<p>>
      BY <1>3, <2>4 DEF LockWork, Holder
    <3>2. /\ \A i, j \in 1 .. Len(line') : line'[i] = line'[j] => i = j
          /\ line' # <<>> /\ line'[1] = p /\ \A q \in Jobs : q \in Elems(line') <=> q = p
      <4>1. Len(line') = 1 /\ line'[1] = p /\ DOMAIN line' = {1}
        BY <3>1
      <4> QED
        BY <3>1, <4>1 DEF Elems
    <3>3. \A q \in Jobs : job[q].step = "none"
      BY <2>4, AtRest, NoJobIs
    <3>4. /\ \A q \in Jobs : q \in Elems(line') <=> job'[q].step # "none"
          /\ \A q \in Jobs : job'[q].step = "archive" => line' # <<>> /\ line'[1] = q
      BY <2>1, <3>2, <3>3
    <3> QED
      BY <1>0, <2>2, <3>2, <3>4 DEF LockInv
  <2> QED
    BY <2>3, <2>4
<1> QED
  BY <1>a, <1>1, <1>2, <1>3 DEF LockEffect

\* The first of the line works or leaves while the turn goes on.
LEMMA TurnKept ==
    ASSUME Safe, NEW p \in Jobs, line # <<>>, line[1] = p, turn' = turn,
           LockLeft(p) \/ \E w : LockWork(p, w) /\ w.step = "archive"
    PROVE  TurnInv'
<1>0. /\ job \in [Jobs -> JobRecords] /\ line \in Seq(Jobs) /\ "build" \in Jobs
      /\ \A i, j \in 1 .. Len(line) : line[i] = line[j] => i = j
      /\ turn.step # "run" /\ (turn.step = "idle" => job["build"].step = "none")
      /\ turn.step = "build" => job["build"].step # "none" /\ line[Len(line)] = "build"
  BY DEF Safe, TypeInv, JobsOK, LockInv, TurnInv, Jobs
<1>1. Len(line) \in Nat /\ Len(line) > 0 /\ 1 \in 1 .. Len(line) /\ Len(line) \in 1 .. Len(line)
      /\ p \in Elems(line)
  BY <1>0, LineElems
<1>2. CASE LockLeft(p)
  <2>1. /\ line[Len(line)] # p => line' # <<>> /\ line'[Len(line')] = line[Len(line)]
        /\ line = <<p>> => line' = <<>>
    BY <1>0, <1>2, WithoutIs DEF LockLeft
  <2>2. job'[p].step = "none" /\ \A q \in Jobs : q # p => job'[q] = job[q]
    BY <1>0, <1>2, NoJobIs DEF LockLeft
  <2>3. CASE p = "build"
    <3>1. turn.step = "build" => line = <<p>>
      <4>1. ASSUME turn.step = "build" PROVE line = <<p>>
        <5>1. Len(line) = 1
          BY <1>0, <1>1, <2>3, <4>1
        <5> QED
          BY <1>0, <5>1
      <4> QED
        BY <4>1
    <3> QED
      BY <1>0, <2>1, <2>2, <2>3, <3>1 DEF TurnInv
  <2>4. CASE p # "build"
    BY <1>0, <2>1, <2>2, <2>4 DEF TurnInv
  <2> QED
    BY <2>3, <2>4
<1>3. ASSUME NEW w, LockWork(p, w), w.step = "archive" PROVE TurnInv'
  <2>1. line' = line /\ job'[p] = w /\ \A q \in Jobs : q # p => job'[q] = job[q]
    BY <1>0, <1>3 DEF LockWork, Holder
  <2>2. job[p].step # "none"
    BY <1>1 DEF Safe, LockInv
  <2>3. job'["build"].step = "none" <=> job["build"].step = "none"
    BY <1>0, <1>3, <2>1, <2>2
  <2> QED
    BY <1>0, <2>1, <2>3 DEF TurnInv
<1> QED
  BY <1>2, <1>3

LEMMA RoundKeeps ==
    ASSUME NEW p, NEW s, NEW o, RoundStep(p, s, o)
    PROVE  LockLeft(p) \/ \E w : LockWork(p, w) /\ w.step = "archive"
<1>1. ASSUME NEW end, LockWork(p, RoundWork(s.objs[o], o, end))
      PROVE  \E w : LockWork(p, w) /\ w.step = "archive"
  <2>1. RoundWork(s.objs[o], o, end).step = "archive"
    BY DEF RoundWork, Work
  <2> QED
    BY <1>1, <2>1
<1> QED
  BY <1>1 DEF RoundStep

LEMMA IdleKeeps ==
    ASSUME NEW s, NEW f, NEW o, IdleStep(s, f, o)
    PROVE  LockLeft("idle") \/ \E w : LockWork("idle", w) /\ w.step = "archive"
BY DEF IdleStep, IdleWork, Work

LEMMA TurnStep ==
    ASSUME Safe, Next
    PROVE  TurnInv'
<1>0. job \in [Jobs -> JobRecords] /\ line \in Seq(Jobs) /\ TurnInv /\ TypeInv /\ LockInv
      /\ "build" \in Jobs /\ "idle" \in Jobs /\ "background" \in Jobs
  BY DEF Safe, TypeInv, JobsOK, Jobs
<1>a. CASE UNCHANGED <<turn, line, job>>
  BY <1>0, <1>a DEF TurnInv
<1>1. ASSUME NEW p \in Jobs, Resume(p) PROVE TurnInv'
  <2>1. line # <<>> /\ line[1] = p /\ BeginStep(p, store) /\ turn' = turn
    BY <1>1, ResumeEffect DEF Resume
  <2>2. LockLeft(p) \/ \E w : LockWork(p, w) /\ w.step = "archive"
    BY <2>1, RoundKeeps, IdleKeeps DEF BeginStep
  <2> QED
    BY <2>1, <2>2, TurnKept
<1>2. ASSUME NEW p \in Jobs, EndRound(p) PROVE TurnInv'
  <2>1. line # <<>> /\ line[1] = p /\ turn' = turn
        /\ \E s, o : RoundStep(p, s, o)
    BY <1>2, EndRoundEffect DEF EndRound
  <2>2. LockLeft(p) \/ \E w : LockWork(p, w) /\ w.step = "archive"
    BY <2>1, RoundKeeps
  <2> QED
    BY <2>1, <2>2, TurnKept
<1>3. CASE EndIdle
  <2>1. line # <<>> /\ line[1] = "idle" /\ LockLeft("idle") /\ turn' = turn
    BY <1>3, EndIdleEffect DEF EndIdle
  <2> QED
    BY <1>0, <2>1, TurnKept
<1>4. ASSUME NEW p \in Jobs, ArchiveRaises(p) PROVE TurnInv'
  <2>1. line # <<>> /\ line[1] = p /\ LockLeft(p)
    BY <1>4, ArchiveRaisesEffect
  <2>2. CASE p # "build"
    BY <1>4, <2>1, <2>2, TurnKept DEF ArchiveRaises
  <2>3. CASE p = "build"
    <3>1. turn' = NoTurn /\ job'["build"] = NoJob
      BY <1>0, <1>4, <2>1, <2>3 DEF ArchiveRaises, LockLeft
    <3> QED
      BY <3>1, NoJobIs DEF TurnInv, NoTurn
  <2> QED
    BY <2>2, <2>3
<1>5. CASE Expire
  <2>1. turn.step = "idle" /\ turn' = turn
    BY <1>5 DEF Expire, ExpireActive
  <2>2. LockWait("idle") \/ LockLeft("idle") \/ \E w : LockWork("idle", w)
    BY <1>5, ExpireEffect, IdleKeeps
  <2>3. job'["build"] = job["build"]
    BY <1>0, <2>2 DEF LockWait, LockLeft, LockWork
  <2> QED
    BY <1>0, <2>1, <2>3 DEF TurnInv
<1>6. CASE StartTurn
  <2>1. /\ job["build"] = NoJob /\ turn'.step = "build"
        /\ \/ line # <<>> /\ LockWait("build")
           \/ line = <<>> /\ RoundStep("build", Fetch(store), Fetch(store).cached)
    BY <1>6, StartTurnEffect
  <2>2. CASE LockWait("build")
    <3>1. Len(line) \in Nat /\ Len(line') = Len(line) + 1 /\ line'[Len(line) + 1] = "build"
          /\ line' \in Seq(Jobs)
      BY <1>0, <2>2, AppendProperties DEF LockWait
    <3>2. job'["build"].step = "wait" /\ line' # <<>>
      <4>1. job'["build"].step = "wait"
        BY <1>0, <2>2 DEF LockWait, JobRecords
      <4>2. Len(line') # 0
        BY <3>1
      <4> QED
        BY <3>1, <4>1, <4>2, LineElems
    <3> QED
      BY <2>1, <3>1, <3>2 DEF TurnInv
  <2>3. CASE line = <<>> /\ LockLeft("build")
    <3>1. line' = <<>>
      <4>1. \A i, j \in 1 .. Len(line) : line[i] = line[j] => i = j
        BY <1>0 DEF LockInv
      <4>2. Without(line, "build") = <<>>
        BY <1>0, <2>3, <4>1, WithoutIs
      <4> QED
        BY <2>3, <4>2 DEF LockLeft
    <3>2. job'["build"].step = "none"
      BY <1>0, <2>3, NoJobIs DEF LockLeft
    <3> QED
      BY <2>1, <3>1, <3>2 DEF TurnInv
  <2>4. ASSUME line = <<>>, NEW w, LockWork("build", w), w.step = "archive" PROVE TurnInv'
    <3>1. line' = <<"build">> /\ job'["build"] = w
      BY <1>0, <2>4 DEF LockWork, Holder
    <3>2. line' # <<>> /\ line'[Len(line')] = "build"
      BY <3>1
    <3> QED
      BY <2>1, <2>4, <3>1, <3>2 DEF TurnInv
  <2> QED
    BY <2>1, <2>2, <2>3, <2>4, RoundKeeps
<1>7. CASE PersistUser
  <2>1. line = <<>> /\ line' = line /\ job' = job /\ turn' = [turn EXCEPT !.step = "run"]
    BY <1>7, PersistUserEffect DEF PersistUser
  <2>2. turn'.step = "run"
    BY <1>0, <2>1 DEF TypeInv, TurnOK, TurnRecords
  <2> QED
    BY <2>1, <2>2 DEF TurnInv
<1>8. CASE SaveTurn
  <2>1. turn' = NoTurn /\ LockWait("background") /\ line = <<>>
    BY <1>8, SaveTurnEffect
  <2>2. job["build"] = NoJob /\ job'["build"] = job["build"]
    BY <1>0, <2>1, AtRest DEF LockWait
  <2> QED
    BY <2>1, <2>2, NoJobIs DEF TurnInv, NoTurn
<1>9. CASE AbandonTurn
  <2>1. turn' = NoTurn
        /\ IF turn.step = "build" THEN LockLeft("build") ELSE turn.step = "run" /\ UNCHANGED <<line, job>>
    BY <1>9, AbandonTurnEffect
  <2>2. job'["build"].step = "none"
    <3>1. CASE turn.step = "build"
      BY <1>0, <2>1, <3>1, NoJobIs DEF LockLeft
    <3>2. CASE turn.step # "build"
      BY <1>0, <2>1, <3>2, AtRest, NoJobIs DEF TurnInv
    <3> QED
      BY <3>1, <3>2
  <2> QED
    BY <2>1, <2>2 DEF TurnInv, NoTurn
<1>10. CASE EmitCheckpoint \/ Deliver \/ NewSession \/ Rewind \/ Delete \/ Evict
  BY <1>a, <1>10 DEF EmitCheckpoint, Deliver, NewSession, Rewind, Delete, Evict
<1> QED
  BY <1>1, <1>2, <1>3, <1>4, <1>5, <1>6, <1>7, <1>8, <1>9, <1>10 DEF Next, JobStep

-----------------------------------------------------------------------------
(***************************************************************************)
(* What was deleted stays deleted.                                         *)
(***************************************************************************)
Spared(D) == {x \in Sessions : Elems(x.messages) \cap D = {}}

LEMMA DeletedStep ==
    ASSUME Safe, DeletedInv, StepOK
    PROVE  DeletedInv'
<1>0. /\ StoreOK(store) /\ StoreEffect /\ store.tomb \in Nat /\ deleted' = deleted
      /\ TypeInv /\ LockInv /\ JobsOK /\ TurnOK /\ LockEffect /\ TurnEffect
      /\ made \in Nat /\ deleted \subseteq Known(made)
  BY DEF Safe, TypeInv, ContentOK, WorldOK, StepOK, Effects, History, StoreOK, Stores
<1>1. /\ store'.tomb = store.tomb /\ Len(store.objs) \in Nat
      /\ \A o \in 1 .. Len(store.objs) : store'.objs[o].gen = store.objs[o].gen
  BY <1>0, StoreSteps
<1> DEFINE T == Spared(deleted)
           g == store.tomb
<1>2. Holds(store, g, T)
  BY DEF DeletedInv, Spared
<1>3. ASSUME NEW f, NEW o, NEW ms, NEW c, Looked(store, f), Holds(f, g, T), o \in 1 .. Len(f.objs),
             ms \in Texts, c \in Nat, Source(f, o, ms, c), f.objs[o].gen >= g
      PROVE  [messages |-> ms, cursor |-> c] \in T
  <2> DEFINE ds == f.objs[o].messages
  <2>1. Elems(ds) \cap deleted = {}
    <3>1. Content(f.objs[o]) \in T
      BY <1>3 DEF Holds
    <3> QED
      BY <3>1 DEF Content, Spared
  <2>2. Elems(ms) \cap deleted = {}
    <3>1. CASE Rewrite(f, o, ms, c, {})
      BY <2>1, <3>1 DEF Rewrite
    <3>2. CASE turn.step # "idle" /\ o = turn.obj /\ Rewrite(f, o, ms, c, Of(turn.of))
      <4>1. turn.obj \in 1 .. Len(store.objs)
        BY <1>0, <3>2 DEF TurnOK
      <4>2. store.objs[turn.obj].gen >= store.tomb
        BY <1>3, <3>2, <4>1 DEF Looked
      <4>3. Of(turn.of) \cap deleted = {}
        BY <3>2, <4>2 DEF DeletedInv, Of
      <4> QED
        BY <2>1, <3>2, <4>3 DEF Rewrite
    <3>3. CASE Rewrite(f, o, ms, c, Of(made + 1))
      <4>1. ~(made + 1 \in 1 .. made)
        BY <1>0
      <4>2. Of(made + 1) \cap deleted = {}
        BY <1>0, <4>1 DEF Of, Known
      <4> QED
        BY <2>1, <3>3, <4>2 DEF Rewrite
    <3>4. CASE ms = f.objs[o].messages
      BY <2>1, <3>4
    <3>5. CASE f = store /\ job["idle"].step = "archive" /\ o = job["idle"].obj /\ ms = job["idle"].kept
      BY <1>3, <3>5 DEF DeletedInv
    <3> QED
      BY <1>3, <3>1, <3>2, <3>3, <3>4, <3>5 DEF Source
  <2> QED
    BY <1>3, <2>2 DEF Spared, Sessions
<1>4. g <= store.tomb /\ g \in Nat
  BY <1>0
<1> HIDE DEF T, g
<1>5. Holds(store', g, T)
  BY <1>0, <1>2, <1>3, <1>4, EffectHolds
<1>6. Holds(store', store'.tomb, {x \in Sessions : Elems(x.messages) \cap deleted' = {}})
  BY <1>0, <1>1, <1>5 DEF T, g, Spared
<1>7. ASSUME job'["idle"].step = "archive", store'.objs[job'["idle"].obj].gen >= store'.tomb
      PROVE  Elems(job'["idle"].kept) \cap deleted = {}
  <2>1. "idle" \in Jobs /\ job \in [Jobs -> JobRecords]
    BY <1>0 DEF Jobs, JobsOK
  <2>2. CASE job'["idle"] = job["idle"]
    <3>1. job["idle"].obj \in 1 .. Len(store.objs)
      BY <1>0, <1>7, <2>1, <2>2 DEF JobsOK
    <3>2. store.objs[job["idle"].obj].gen >= store.tomb
      BY <1>1, <1>7, <2>2, <3>1
    <3> QED
      BY <1>7, <2>2, <3>2 DEF DeletedInv
  <2>3. ASSUME NEW w, job'["idle"] = w, WorkOK("idle", w)
        PROVE  Elems(w.kept) \cap deleted = {}
    <3>1. Elems(store.file.messages) \cap deleted = {}
      BY <1>2 DEF Holds, T, Spared
    <3> QED
      BY <2>3, <3>1 DEF WorkOK
  <2>4. ASSUME NEW p \in Jobs, LockLeft(p) PROVE job'["idle"] = job["idle"]
    <3>1. p # "idle"
      BY <1>7, <2>1, <2>4, NoJobIs DEF LockLeft
    <3> QED
      BY <2>1, <2>4, <3>1 DEF LockLeft
  <2>5. ASSUME NEW p \in Jobs, LockWait(p) PROVE job'["idle"] = job["idle"]
    <3>1. p # "idle"
      BY <1>7, <2>1, <2>5 DEF LockWait, JobRecords
    <3> QED
      BY <2>1, <2>5, <3>1 DEF LockWait
  <2>6. ASSUME NEW p \in Jobs, NEW w, LockWork(p, w), WorkOK(p, w)
        PROVE  Elems(job'["idle"].kept) \cap deleted = {}
    <3>1. CASE p = "idle"
      BY <2>1, <2>3, <2>6, <3>1 DEF LockWork
    <3>2. CASE p # "idle"
      BY <2>1, <2>2, <2>6, <3>2 DEF LockWork
    <3> QED
      BY <3>1, <3>2
  <2> QED
    BY <1>0, <2>2, <2>4, <2>5, <2>6 DEF LockEffect
<1>8. ASSUME turn'.step # "idle", store'.objs[turn'.obj].gen >= store'.tomb, NEW m \in deleted
      PROVE  m.of # turn'.of
  <2>1. CASE turn'.obj = turn.obj /\ turn'.of = turn.of /\ turn.step # "idle"
    <3>1. turn.obj \in 1 .. Len(store.objs)
      BY <1>0, <2>1 DEF TurnOK
    <3> QED
      BY <1>1, <1>8, <2>1, <3>1 DEF DeletedInv
  <2>2. CASE turn'.of = made + 1
    BY <1>0, <1>8, <2>2 DEF Known
  <2>3. CASE turn' = turn
    BY <1>8, <2>1, <2>3
  <2>4. CASE turn' = NoTurn
    BY <1>8, <2>4 DEF NoTurn
  <2>5. CASE turn.step = "build" /\ turn' = [turn EXCEPT !.step = "run"]
    BY <1>0, <2>1, <2>5 DEF TurnOK, TurnRecords
  <2>6. CASE turn' = [step |-> "build", obj |-> Fetch(store).cached, of |-> made + 1]
    BY <2>2, <2>6
  <2> QED
    BY <1>0, <2>3, <2>4, <2>5, <2>6 DEF TurnEffect
<1> QED
  BY <1>0, <1>6, <1>7, <1>8 DEF DeletedInv

LEMMA DeletedDelete ==
    ASSUME Safe, Delete
    PROVE  DeletedInv'
<1>0. StoreOK(store) /\ TurnOK /\ JobsOK /\ store.gen \in Nat
  BY DEF Safe, TypeInv, StoreOK, Stores
<1>1. /\ store'.objs = store.objs /\ store'.file = NoFile /\ store'.tomb = store.gen + 1
      /\ UNCHANGED <<turn, job>>
  BY DeleteEffect
<1>2. \A o \in 1 .. Len(store.objs) : ~(store'.objs[o].gen >= store'.tomb)
  <2>1. \A o \in 1 .. Len(store.objs) : store.objs[o].gen \in Nat /\ store.objs[o].gen <= store.gen
    BY <1>0, ObjectIs DEF StoreOK
  <2> QED
    BY <1>0, <1>1, <2>1
<1>3. NoFile \in {x \in Sessions : Elems(x.messages) \cap deleted' = {}}
  BY DEF NoFile, Sessions, Texts, Elems
<1>4. Holds(store', store'.tomb, {x \in Sessions : Elems(x.messages) \cap deleted' = {}})
  BY <1>1, <1>2, <1>3 DEF Holds
<1>5. job'["idle"].step = "archive" => ~(store'.objs[job'["idle"].obj].gen >= store'.tomb)
  BY <1>0, <1>1, <1>2 DEF JobsOK, Jobs
<1>6. turn'.step # "idle" => ~(store'.objs[turn'.obj].gen >= store'.tomb)
  BY <1>0, <1>1, <1>2 DEF TurnOK
<1> QED
  BY <1>4, <1>5, <1>6 DEF DeletedInv

-----------------------------------------------------------------------------
(***************************************************************************)
(* The cursor is an index, and a turn has the object that is in the cache. *)
(***************************************************************************)
\* While a round is under way, no text gets shorter.
LEMMA LengthsGrow ==
    ASSUME Safe, StepOK, world.events \cap {"new", "rewind"} = {},
           NEW p \in Jobs, p # "idle", job'[p].step = "archive", NEW o \in 1 .. Len(store.objs)
    PROVE  Len(store'.objs[o].messages) >= Len(store.objs[o].messages)
<1>0. /\ StoreOK(store) /\ StoreEffect /\ Len(store.objs) \in Nat
      /\ Len(store.objs[o].messages) \in Nat
  BY LookedSame, ObjectIs DEF Safe, TypeInv, StepOK, Effects, StoreOK, Texts
<1>1. CASE Looked(store, store')
  BY <1>0, <1>1 DEF Looked
<1>2. ASSUME NEW f, NEW t, NEW i, NEW ms, NEW c, Writes(f, t, i, ms, c)
      PROVE  Len(store'.objs[o].messages) >= Len(store.objs[o].messages)
  <2>1. Looked(store, f) /\ Wrote(f, t, i, ms, c) /\ Looked(t, store') /\ StoreOK(f)
        /\ Source(f, i, ms, c)
    BY <1>2 DEF Writes, Looked
  <2>2. o \in 1 .. Len(f.objs) /\ o \in 1 .. Len(t.objs)
    BY <1>0, <2>1, LookedSame DEF Looked, Wrote
  <2>3. f.objs[o] = store.objs[o] /\ store'.objs[o] = t.objs[o]
    BY <2>1, <2>2 DEF Looked
  <2>4. CASE i # o
    BY <1>0, <2>1, <2>2, <2>3, <2>4 DEF Wrote
  <2>5. CASE i = o
    <3>1. t.objs[o].messages = ms
      BY <2>1, <2>5 DEF Wrote, Content
    <3>2. Len(ms) >= Len(f.objs[o].messages)
      <4>1. \A K : Rewrite(f, i, ms, c, K) => Len(ms) >= Len(f.objs[o].messages)
        BY <2>5 DEF Rewrite
      <4>2. CASE ms = f.objs[i].messages
        BY <1>0, <2>3, <2>5, <4>2
      <4> QED
        BY <2>1, <4>1, <4>2 DEF Source
    <3> QED
      BY <2>3, <3>1, <3>2
  <2> QED
    BY <2>4, <2>5
<1> QED
  BY <1>0, <1>1, <1>2 DEF StoreEffect

Indexed == {x \in Sessions : x.cursor <= Len(x.messages)}

LEMMA CursorStep ==
    ASSUME Safe, CursorInv, StepOK
    PROVE  CursorInv'
<1>0. /\ StoreOK(store) /\ StoreEffect /\ store.tomb \in Nat /\ world' = world
      /\ TypeInv /\ LockInv /\ JobsOK /\ LockEffect
  BY DEF Safe, TypeInv, StepOK, Effects, StoreOK, Stores
<1> SUFFICES ASSUME world.events \cap {"new", "rewind"} = {}
             PROVE  /\ Holds(store', 0, {x \in Sessions : x.cursor <= Len(x.messages)})
                    /\ \A p \in Jobs : p # "idle" /\ job'[p].step = "archive" =>
                          job'[p].end <= Len(store'.objs[job'[p].obj].messages)
  BY <1>0 DEF CursorInv
<1>1. /\ Holds(store, 0, Indexed)
      /\ \A p \in Jobs : p # "idle" /\ job[p].step = "archive" =>
            job[p].end <= Len(store.objs[job[p].obj].messages)
  BY DEF CursorInv, Indexed
<1>2. ASSUME NEW f, NEW o, NEW ms, NEW c, Looked(store, f), Holds(f, 0, Indexed), o \in 1 .. Len(f.objs),
             ms \in Texts, c \in Nat, Source(f, o, ms, c)
      PROVE  [messages |-> ms, cursor |-> c] \in Indexed
  <2>1. f.objs[o].cursor <= Len(f.objs[o].messages)
    <3>1. f.objs[o].gen \in Nat
      BY <1>2, ObjectIs DEF Looked, StoreOK
    <3>2. Content(f.objs[o]) \in Indexed
      BY <1>2, <3>1 DEF Holds
    <3> QED
      BY <3>2 DEF Content, Indexed
  <2>2. Len(ms) \in Nat
    BY <1>2 DEF Texts
  <2>3. c <= Len(ms)
    <3>1. \A K : Rewrite(f, o, ms, c, K) => c <= Len(ms)
      BY <2>1 DEF Rewrite
    <3>2. CASE /\ f = store
               /\ \E p \in Jobs : /\ p # "idle" /\ job[p].step = "archive" /\ o = job[p].obj
                                  /\ ms = f.objs[o].messages /\ c = job[p].end
      BY <1>1, <3>2
    <3>3. CASE c = 0
      BY <2>2, <3>3
    <3> QED
      BY <1>2, <3>1, <3>2, <3>3 DEF Source
  <2> QED
    BY <1>2, <2>3 DEF Indexed, Sessions
<1>3. Holds(store', 0, Indexed)
  <2>1. 0 <= store.tomb /\ 0 \in Nat
    BY <1>0
  <2> QED
    BY <1>0, <1>1, <1>2, <2>1, EffectHolds
<1>4. ASSUME NEW p \in Jobs, p # "idle", job'[p].step = "archive"
      PROVE  job'[p].end <= Len(store'.objs[job'[p].obj].messages)
  <2>0. job \in [Jobs -> JobRecords]
    BY <1>0 DEF JobsOK
  <2>1. CASE job'[p] = job[p]
    <3> DEFINE o == job[p].obj
    <3>1. o \in 1 .. Len(store.objs)
      BY <1>0, <1>4, <2>1 DEF JobsOK
    <3>2. Len(store'.objs[o].messages) >= Len(store.objs[o].messages)
      BY <1>4, <3>1, LengthsGrow
    <3>3. job[p].end <= Len(store.objs[o].messages)
      BY <1>1, <1>4, <2>1
    <3>4. /\ job[p].end \in Nat /\ Len(store.objs[o].messages) \in Nat
          /\ Len(store'.objs[o].messages) \in Nat
      <4>1. job[p].end \in Nat
        BY <1>0, JobIs
      <4>2. store.objs[o].messages \in Texts
        BY <1>0, <3>1, ObjectIs DEF StoreOK
      <4>3. store'.objs[o].messages \in Texts
        <5>1. StoreOK(store') /\ o \in 1 .. Len(store'.objs)
          BY <1>0, <3>1, StoreSteps
        <5> QED
          BY <5>1, ObjectIs DEF StoreOK
      <4>4. \A t \in Texts : Len(t) \in Nat
        BY DEF Texts
      <4> QED
        BY <4>1, <4>2, <4>3, <4>4
    <3> DEFINE e == job[p].end
               m == Len(store.objs[o].messages)
               n == Len(store'.objs[o].messages)
    <3>5. e \in Nat /\ m \in Nat /\ n \in Nat /\ e <= m /\ m <= n
      BY <3>2, <3>3, <3>4
    <3> HIDE DEF e, m, n
    <3>6. e <= n
      BY <3>5
    <3> QED
      BY <2>1, <3>6 DEF o, e, n
  <2>2. ASSUME NEW q \in Jobs, LockLeft(q) PROVE job'[p] = job[p]
    <3>1. p # q
      BY <1>4, <2>0, <2>2, NoJobIs DEF LockLeft
    <3> QED
      BY <2>0, <2>2, <3>1 DEF LockLeft
  <2>3. ASSUME NEW q \in Jobs, LockWait(q) PROVE job'[p] = job[p]
    <3>1. p # q
      BY <1>4, <2>0, <2>3 DEF LockWait, JobRecords
    <3> QED
      BY <2>0, <2>3, <3>1 DEF LockWait
  <2>4. ASSUME NEW q \in Jobs, NEW w, LockWork(q, w), WorkOK(q, w)
        PROVE  job'[p].end <= Len(store'.objs[job'[p].obj].messages)
    <3>1. CASE q = p
      BY <1>4, <2>0, <2>4, <3>1 DEF LockWork, WorkOK
    <3>2. CASE q # p
      BY <2>0, <2>1, <2>4, <3>2 DEF LockWork
    <3> QED
      BY <3>1, <3>2
  <2> QED
    BY <1>0, <2>1, <2>2, <2>3, <2>4 DEF LockEffect
<1> QED
  BY <1>3, <1>4 DEF Indexed

LEMMA CursorDelete ==
    ASSUME Safe, CursorInv, Delete
    PROVE  CursorInv'
<1>1. /\ store'.objs = store.objs /\ store'.file = NoFile /\ UNCHANGED <<world, job>>
  BY DeleteEffect
<1>2. NoFile \in Indexed
  BY DEF NoFile, Indexed, Sessions, Texts
<1>3. Holds(store, 0, Indexed) => Holds(store', 0, Indexed)
  BY <1>1, <1>2 DEF Holds
<1> QED
  BY <1>1, <1>3 DEF CursorInv, Indexed

LEMMA SameStep ==
    ASSUME Safe, SameInv, Next
    PROVE  SameInv'
<1>0. /\ StoreOK(store) /\ TurnOK /\ JobsOK /\ LockInv
      /\ Len(store.objs) \in Nat /\ "idle" \in Jobs
  BY LookedSame DEF Safe, TypeInv, Jobs
<1> SUFFICES ASSUME world.events \cap {"new", "delete", "evict", "outlast"} = {}, world' = world,
                    turn'.step # "idle"
             PROVE  store'.cached = turn'.obj
  <2>1. world' = world
    BY StepEffect, DeleteEffect DEF StepOK, Effects
  <2> QED
    BY <2>1 DEF SameInv, SameObject
<1>1. turn.step # "idle" => store.cached = turn.obj /\ store.cached # 0
  BY <1>0 DEF SameInv, SameObject, TurnOK
<1>2. ASSUME turn' = turn, store.cached # 0 => store'.cached = store.cached
      PROVE  store'.cached = turn'.obj
  BY <1>1, <1>2
<1>3. store.cached # 0 => Fetch(store).cached = store.cached
  BY <1>0, FetchIs
<1>4. \A t, o, ms, c : Wrote(store, t, o, ms, c) /\ store.cached # 0 => t.cached = store.cached
  BY DEF Wrote
<1>5. ASSUME NEW p \in Jobs, Resume(p) PROVE store'.cached = turn'.obj
  <2>1. job["idle"].step # "wait"
    BY <1>0 DEF LockInv
  <2>2. p # "idle" /\ turn' = turn
    BY <1>5, <2>1 DEF Resume
  <2>3. store' = Fetch(store)
    BY <1>5, <2>2, ResumeEffect DEF BeginStep, RoundStep
  <2> QED
    BY <1>2, <1>3, <2>2, <2>3
<1>6. ASSUME NEW p \in Jobs, EndRound(p) PROVE store'.cached = turn'.obj
  <2> DEFINE o == job[p].obj
             s == Save(Put(store, o, store.objs[o].messages, job[p].end), o)
  <2>1. turn' = turn /\ Wrote(store, s, o, store.objs[o].messages, job[p].end) /\ RoundStep(p, s, o)
    BY <1>6, EndRoundEffect DEF EndRound
  <2> HIDE DEF s
  <2>2. store' = s
    BY <2>1 DEF RoundStep
  <2> QED
    BY <1>2, <1>4, <2>1, <2>2
<1>7. CASE EndIdle
  <2> DEFINE o == job["idle"].obj
             s == Save(Put(store, o, job["idle"].kept, 0), o)
  <2>1. turn' = turn /\ Wrote(store, s, o, job["idle"].kept, 0) /\ store' \in {s, Fetch(s)}
    BY <1>7, EndIdleEffect DEF EndIdle
  <2> HIDE DEF s
  <2>2. StoreOK(s)
    BY <2>1 DEF Wrote
  <2>3. s.cached # 0 => Fetch(s) = s
    BY <2>2, FetchIs
  <2> QED
    BY <1>2, <1>4, <2>1, <2>3
<1>8. ASSUME NEW p \in Jobs, ArchiveRaises(p) PROVE store'.cached = turn'.obj
  <2>1. store' = store /\ turn' = turn
    BY <1>8, ArchiveRaisesEffect DEF ArchiveRaises, NoTurn
  <2> QED
    BY <1>2, <2>1
<1>9. CASE Expire
  BY <1>9 DEF Expire, ExpireActive
<1>10. CASE StartTurn
  <2>1. store' = Fetch(store) /\ turn'.obj = Fetch(store).cached
    BY <1>10, StartTurnEffect
  <2> QED
    BY <2>1
<1>11. CASE PersistUser
  <2>1. turn' = [turn EXCEPT !.step = "run"] /\ turn.step = "build"
        /\ \E o, ms, c : Wrote(store, store', o, ms, c)
    BY <1>11, PersistUserEffect DEF PersistUser
  <2>2. turn'.obj = turn.obj
    BY <1>0, <2>1 DEF TurnOK, TurnRecords
  <2> QED
    BY <1>1, <1>4, <2>1, <2>2
<1>12. CASE EmitCheckpoint
  <2>1. turn' = turn /\ \E o, ms, c : Wrote(store, store', o, ms, c)
    BY <1>12, EmitCheckpointEffect DEF EmitCheckpoint
  <2> QED
    BY <1>2, <1>4, <2>1
<1>13. CASE SaveTurn \/ AbandonTurn
  BY <1>13, SaveTurnEffect, AbandonTurnEffect DEF NoTurn
<1>14. CASE Deliver \/ Rewind
  BY <1>2, <1>14, DeliverEffect, RewindEffect
<1>15. CASE NewSession \/ Delete \/ Evict
  BY <1>15 DEF NewSession, Delete, Evict
<1> QED
  BY <1>5, <1>6, <1>7, <1>8, <1>9, <1>10, <1>11, <1>12, <1>13, <1>14, <1>15 DEF Next, JobStep

-----------------------------------------------------------------------------
(***************************************************************************)
(* The theorems of every world.                                            *)
(***************************************************************************)
IInv == Safe /\ DeletedInv /\ CursorInv /\ SameInv

LEMMA InitIInv == Init => IInv
<1> SUFFICES ASSUME Init PROVE IInv
  OBVIOUS
<1>1. /\ store = [objs |-> <<>>, cached |-> 0, file |-> NoFile, gen |-> 0, tomb |-> 0]
      /\ turn = NoTurn /\ job = [p \in Jobs |-> NoJob] /\ line = <<>>
      /\ archived = {} /\ deleted = {} /\ cleared = {} /\ made = 0 /\ asked = 0
      /\ world \in Worlds
  BY DEF Init
<1>2. WorldOK
  <2>1. world.made \in Nat
    BY <1>1, StoreAssumption
  <2> QED
    BY <1>1, <2>1 DEF WorldOK
<1>3. <<>> \in ObjectLists /\ NoFile \in Sessions /\ Len(<<>>) = 0 /\ Elems(<<>>) = {} /\ <<>> \in Seq(Jobs)
      /\ NoFile.messages = <<>> /\ NoFile.cursor = 0
  BY DEF ObjectLists, NoFile, Sessions, Texts, Elems
<1>4. /\ store \in Stores /\ store.objs = <<>> /\ store.cached = 0 /\ store.file = NoFile
      /\ store.gen = 0 /\ store.tomb = 0
  BY <1>1, <1>3 DEF Stores
<1>5. StoreOK(store)
  BY <1>3, <1>4 DEF StoreOK
<1>6. TurnOK /\ turn.step = "idle"
  BY <1>1, <1>3, <1>4 DEF TurnOK, NoTurn, TurnRecords, TurnSteps
<1>7. JobsOK /\ \A p \in Jobs : job[p] = NoJob /\ job[p].step = "none"
  BY <1>1, <1>3, NoJobIs DEF JobsOK
<1>8. ContentOK
  BY <1>1, <1>3, <1>4 DEF ContentOK, Holds, TextsOf
<1>9. LockInv
  BY <1>1, <1>3, <1>7 DEF LockInv, Jobs
<1>10. TurnInv
  BY <1>6, <1>7 DEF TurnInv, Jobs
<1>11. DeletedInv
  BY <1>1, <1>3, <1>4, <1>6, <1>7 DEF DeletedInv, Holds, Jobs
<1>12. CursorInv
  BY <1>3, <1>4, <1>7 DEF CursorInv, Holds
<1>13. SameInv
  BY <1>6 DEF SameInv, SameObject
<1> QED
  BY <1>2, <1>5, <1>6, <1>7, <1>8, <1>9, <1>10, <1>11, <1>12, <1>13 DEF IInv, Safe, TypeInv

LEMMA SafeStep ==
    ASSUME Safe, Next
    PROVE  Safe' /\ world' = world
<1>1. TurnInv'
  BY TurnStep
<1>2. CASE StepOK
  BY <1>1, <1>2, TypeStep, LockStep DEF Safe, StepOK, Effects
<1>3. CASE Delete
  <2>1. UNCHANGED <<world, line, job>>
    BY <1>3, DeleteEffect
  <2>2. LockInv'
    BY <2>1, LockStep DEF LockEffect
  <2> QED
    BY <1>1, <1>3, <2>1, <2>2, TypeDelete DEF Safe
<1> QED
  BY <1>2, <1>3, StepEffect

LEMMA NextIInv ==
    ASSUME IInv, [Next]_vars
    PROVE  IInv'
<1>1. CASE Next
  <2>1. Safe' /\ SameInv'
    BY <1>1, SafeStep, SameStep DEF IInv
  <2>2. DeletedInv' /\ CursorInv'
    BY <1>1, StepEffect, DeletedStep, DeletedDelete, CursorStep, CursorDelete DEF IInv
  <2> QED
    BY <2>1, <2>2 DEF IInv
<1>2. CASE UNCHANGED vars
  BY <1>2 DEF vars, IInv, Safe, TypeInv, WorldOK, TurnOK, JobsOK, ContentOK, LockInv, TurnInv,
             DeletedInv, CursorInv, SameInv, SameObject, StoreOK
<1> QED
  BY <1>1, <1>2

\* A list without a name twice has as many names as places.
LEMMA LineLength ==
    ASSUME JobsOK, LockInv
    PROVE  Cardinality(Elems(line)) = Len(line)
<1>1. /\ line \in Seq(Jobs) /\ Len(line) \in Nat /\ DOMAIN line = 1 .. Len(line)
      /\ \A i, j \in 1 .. Len(line) : line[i] = line[j] => i = j
      /\ line = [i \in 1 .. Len(line) |-> line[i]]
  BY DEF JobsOK, LockInv
<1>2. line \in Bijection(1 .. Len(line), Elems(line))
  <2> DEFINE S == Elems(line)
  <2>1. S = {line[i] : i \in 1 .. Len(line)}
    BY <1>1 DEF Elems
  <2>2. \A i \in 1 .. Len(line) : line[i] \in S
    BY <2>1
  <2>3. line \in [1 .. Len(line) -> S]
    BY <1>1, <2>2
  <2>4. \A y \in S : \E i \in 1 .. Len(line) : line[i] = y
    BY <2>1
  <2> HIDE DEF S
  <2>5. IsInjective(line)
    BY <1>1, <2>3 DEF IsInjective
  <2>6. line \in Injection(1 .. Len(line), S)
    BY <2>3, <2>5 DEF Injection
  <2>7. line \in Surjection(1 .. Len(line), S)
    BY <2>3, <2>4 DEF Surjection
  <2> QED
    BY <2>6, <2>7 DEF Bijection, S
<1>3. ExistsBijection(1 .. Len(line), Elems(line))
  BY <1>2 DEF ExistsBijection
<1> QED
  BY <1>1, <1>3, FS_CountingElements

LEMMA IInvConsistent == IInv => StoreConsistent
<1> SUFFICES ASSUME IInv PROVE StoreConsistent
  OBVIOUS
<1>0. /\ WorldOK /\ StoreOK(store) /\ TurnOK /\ JobsOK /\ ContentOK /\ LockInv /\ TypeInv
      /\ store \in Stores /\ world.made \in Nat
  BY WorldIs DEF IInv, Safe, TypeInv, StoreOK
<1>1. Known(made) \subseteq AllMessages
  <2>1. \A i \in 1 .. made : i \in 1 .. world.made
    BY <1>0 DEF WorldOK
  <2> QED
    BY <2>1 DEF Known, Msgs, Roles, AllMessages
<1>2. TypeOK
  <2>1. \A s \in {store.objs[o] : o \in DOMAIN store.objs} \cup {store.file} :
          Elems(s.messages) \subseteq AllMessages /\ s.cursor \in Nat
    <3>1. /\ Elems(store.file.messages) \subseteq Known(made)
          /\ \A o \in 1 .. Len(store.objs) : Elems(store.objs[o].messages) \subseteq Known(made)
      BY <1>0, HeldTexts, LookedSame
    <3>2. store.file.cursor \in Nat /\ \A o \in 1 .. Len(store.objs) : store.objs[o].cursor \in Nat
      BY <1>0, ObjectIs DEF Stores, Sessions
    <3>3. DOMAIN store.objs = 1 .. Len(store.objs)
      BY <1>0, ObjectIs
    <3> QED
      BY <1>1, <3>1, <3>2, <3>3
  <2>2. store.cached \in 0 .. Len(store.objs) /\ {store.gen, store.tomb, made, asked} \subseteq Nat
    BY <1>0 DEF StoreOK, Stores, WorldOK
  <2>3. turn.step \in {"idle", "build", "run"} /\ turn.obj \in 0 .. Len(store.objs)
    BY <1>0 DEF TurnOK, TurnRecords, TurnSteps
  <2>4. archived \cup deleted \cup cleared \subseteq AllMessages
    BY <1>0, <1>1 DEF ContentOK
  <2>5. Elems(line) = {p \in Jobs : job[p] # NoJob}
    <3>1. \A p \in Elems(line) : p \in Jobs
      BY <1>0, LineElems DEF JobsOK
    <3>2. \A p \in Jobs : p \in Elems(line) <=> job[p] # NoJob
      BY <1>0, NoJobIs DEF LockInv, JobsOK
    <3> QED
      BY <3>1, <3>2
  <2>6. \A p \in Jobs : job[p].step = "archive" => Head(line) = p
    BY <1>0 DEF LockInv, JobsOK
  <2>7. Cardinality(Elems(line)) = Len(line)
    BY <1>0, LineLength
  <2> QED
    BY <2>1, <2>2, <2>3, <2>4, <2>5, <2>6, <2>7 DEF TypeOK
<1>3. CachedIsLive
  BY <1>0 DEF StoreOK, CachedIsLive
<1>4. CursorInRange
  BY DEF IInv, CursorInv, CursorInRange, Holds
<1> QED
  BY <1>2, <1>3, <1>4 DEF StoreConsistent, IInv, SameInv

\* The types and the lock, the object of the cache, the cursor and the object of a
\* turn are as they should be, in every world (session/manager.py,
\* memory/consolidator.py, agent/autocompact.py).
THEOREM StoreConsistentHolds == Spec => []StoreConsistent
<1>1. IInv /\ [Next]_vars => IInv'
  BY NextIInv
<1> QED
  BY <1>1, InitIInv, IInvConsistent, PTL DEF Spec

\* What was in a session when it was deleted never comes back to its file, whoever
\* goes on with an object of it and saves it (the tombstones of session/manager.py).
THEOREM DeletedStaysDeletedHolds == Spec => []DeletedStaysDeleted
<1>1. IInv /\ [Next]_vars => IInv'
  BY NextIInv
<1>2. IInv => DeletedStaysDeleted
  BY DEF IInv, DeletedInv, DeletedStaysDeleted, Holds
<1> QED
  BY <1>1, <1>2, InitIInv, PTL DEF Spec

-----------------------------------------------------------------------------
(***************************************************************************)
(* What was saved is kept: in worlds with turns, consolidations and        *)
(* compactions only, up to the end of a turn that is longer than what a    *)
(* compaction keeps.                                                       *)
(***************************************************************************)
\* Position j of ms is in the latest turn, beyond the first n messages of it.
Beyond(ms, n, j) == Users(ms) # {} /\ j >= Greatest(Users(ms)) + n

\* Without its first d messages and what is beyond, the rest of ms was kept.
Covered(ms, kept, d, n) ==
    \A j \in 1 .. Len(ms) : j <= d \/ ms[j] \in Elems(kept) \/ Beyond(ms, n, j)

LEMMA EndCovers ==
    ASSUME NEW ms \in Texts, NEW k \in 0 .. Len(ms), NEW n
    PROVE  Covered(ms, After(k, ms), k, n) /\ Len(ms) - Len(After(k, ms)) = k
<1> DEFINE t == After(k, ms)
<1>0. ms \in Seq(Msgs) /\ Len(ms) \in Nat
  BY DEF Texts
<1>1. /\ t \in Seq(Msgs) /\ Len(t) = Len(ms) - k /\ Len(ms) \in Nat
      /\ \A i \in 1 .. Len(ms) - k : t[i] = ms[k + i]
  BY <1>0, AfterIs
<1> HIDE DEF t
<1>2. ASSUME NEW j \in 1 .. Len(ms), j > k PROVE ms[j] \in Elems(t)
  <2>1. j - k \in 1 .. Len(ms) - k /\ k + (j - k) = j
    BY <1>1, <1>2, Behind
  <2>2. t[j - k] = ms[j] /\ j - k \in DOMAIN t
    BY <1>1, <2>1
  <2> QED
    BY <2>2 DEF Elems
<1>3. \A j \in 1 .. Len(ms) : j <= k \/ ms[j] \in Elems(t)
  BY <1>1, <1>2
<1>4. Len(ms) - Len(t) = k
  BY <1>1
<1> QED
  BY <1>3, <1>4 DEF t, Covered

\* The window from g on, without its first p messages.
LEMMA MiddleCovers ==
    ASSUME NEW ms \in Texts, NEW max \in Nat \ {0}, NEW g \in 1 .. Len(ms), g + max <= Len(ms),
           NEW p \in 0 .. max
    PROVE  LET t == After(p, SubSeq(After(g - 1, ms), 1, max))
           IN  /\ Len(t) = max - p
               /\ \A j \in 1 .. Len(ms) :
                     j <= Len(ms) - (max - p) \/ ms[j] \in Elems(t) \/ j >= g + max
<1> DEFINE rest == After(g - 1, ms)
           window == SubSeq(rest, 1, max)
           t == After(p, window)
           len == Len(ms)
<1>1. len \in Nat /\ max \in Nat /\ g - 1 \in 0 .. len /\ ms \in Seq(Msgs) /\ g \in Nat /\ p \in Nat
  BY DEF Texts
<1>2. /\ rest \in Texts /\ Len(rest) = len - (g - 1)
      /\ \A i \in 1 .. len - (g - 1) : rest[i] = ms[g - 1 + i]
  BY <1>1, AfterIs DEF Texts
<1> HIDE DEF rest
<1>3. max \in 0 .. Len(rest)
  BY <1>1, <1>2
<1>4. /\ window \in Texts /\ Len(window) = max
      /\ \A i \in 1 .. max : window[i] = rest[i]
  BY <1>2, <1>3, FirstPart DEF PartOf
<1> HIDE DEF window
<1>5. /\ t \in Seq(Msgs) /\ Len(t) = max - p
      /\ \A i \in 1 .. max - p : t[i] = window[p + i]
  BY <1>4, AfterIs DEF Texts
<1> HIDE DEF t
<1>6. ASSUME NEW j \in 1 .. len, j > len - (max - p), j < g + max PROVE ms[j] \in Elems(t)
  <2> DEFINE i == j - (g - 1 + p)
  <2>0. g + max <= len /\ len \in Nat /\ max \in Nat /\ g \in Nat /\ p \in Nat /\ p <= max /\ g >= 1
    BY <1>1
  <2> HIDE DEF len
  <2>1. /\ i \in 1 .. max - p /\ p + i \in 1 .. max /\ p + i \in 1 .. len - (g - 1)
        /\ g - 1 + (p + i) = j
    BY <1>6, <2>0
  <2> HIDE DEF i
  <2>2. t[i] = window[p + i] /\ window[p + i] = rest[p + i] /\ rest[p + i] = ms[g - 1 + (p + i)]
    BY <1>2, <1>4, <1>5, <2>1
  <2>3. t[i] = ms[j] /\ i \in DOMAIN t
    BY <1>5, <2>1, <2>2
  <2> QED
    BY <2>3 DEF Elems
<1>7. \A j \in 1 .. len : j <= len - (max - p) \/ ms[j] \in Elems(t) \/ j >= g + max
  <2> SUFFICES ASSUME NEW j \in 1 .. len, ~(j <= len - (max - p)), ~(j >= g + max)
               PROVE  ms[j] \in Elems(t)
    OBVIOUS
  <2>1. j > len - (max - p) /\ j < g + max
    <3> HIDE DEF len
    <3> QED
      BY <1>1
  <2> QED
    BY <1>6, <2>1
<1> QED
  BY <1>5, <1>7 DEF t, window, rest, len

\* What is kept of a text is its end, or a window from the latest user's message
\* on: then all before that message is dropped.
LEMMA RetainedCovers ==
    ASSUME NEW ms \in Texts, NEW max \in Nat \ {0}
    PROVE  LET d == Dropped(ms, max)
           IN  /\ d \in 0 .. Len(ms)
               /\ Retained(ms, max) = After(d, ms) \/ (Users(ms) # {} /\ d >= Greatest(Users(ms)))
               /\ Covered(ms, Retained(ms, max), d, max)
<1> DEFINE tail == LastOf(max, ms)
           g == Greatest(Users(ms))
           rest == After(g - 1, ms)
           d == Dropped(ms, max)
<1>0. Len(ms) \in Nat /\ max \in Nat /\ max > 0 /\ ms \in Seq(Msgs)
  BY DEF Texts
<1>1. ASSUME NEW k \in 0 .. Len(ms), Retained(ms, max) = After(k, ms)
      PROVE  d \in 0 .. Len(ms) /\ Retained(ms, max) = After(d, ms) /\ Covered(ms, Retained(ms, max), d, max)
  <2>1. d = k
    BY <1>1, EndCovers DEF Dropped
  <2> HIDE DEF d
  <2> QED
    BY <1>1, <2>1, EndCovers
<1>2. CASE Len(ms) <= max
  <2>1. Retained(ms, max) = ms
    BY <1>2 DEF Retained
  <2>2. After(0, ms) = ms
    BY <1>0, SubSeqFull DEF After
  <2> QED
    BY <1>0, <1>1, <2>1, <2>2
<1>3. CASE \E i \in 1 .. Len(ms) : i > Len(ms) - max /\ ms[i].role = "user"
  BY <1>1, <1>3, RetainedIs
<1>4. CASE /\ ~(Len(ms) <= max)
           /\ ~\E i \in 1 .. Len(ms) : i > Len(ms) - max /\ ms[i].role = "user"
  <2>1. tail = After(Len(ms) - max, ms) /\ Len(ms) - max \in 0 .. Len(ms)
    <3>1. PICK k \in 0 .. Len(ms) : tail = After(k, ms) /\ k = (IF max < Len(ms) THEN Len(ms) - max ELSE 0)
      BY <1>0, LastOfIs
    <3> HIDE DEF tail
    <3>2. k = Len(ms) - max
      BY <1>0, <1>4, <3>1
    <3> QED
      BY <3>1, <3>2
  <2>2. /\ tail \in Texts /\ Len(tail) = max
        /\ \A i \in 1 .. max : tail[i] = ms[Len(ms) - max + i]
    <3> DEFINE k == Len(ms) - max
    <3>1. k \in 0 .. Len(ms) /\ tail = After(k, ms) /\ Len(ms) - k = max
      BY <1>0, <2>1
    <3> HIDE DEF k, tail
    <3>2. /\ tail \in Texts /\ Len(tail) = Len(ms) - k
          /\ \A i \in 1 .. Len(ms) - k : tail[i] = ms[k + i]
      BY <1>0, <3>1, AfterIs DEF Texts
    <3>3. /\ tail \in Texts /\ Len(tail) = max
          /\ \A i \in 1 .. max : tail[i] = ms[k + i]
      BY <3>1, <3>2
    <3> QED
      BY <3>3 DEF k
  <2>3. Users(tail) = {}
    <3>1. ASSUME NEW i \in 1 .. max PROVE tail[i].role # "user"
      <4>1. Len(ms) - max + i \in 1 .. Len(ms) /\ Len(ms) - max + i > Len(ms) - max
        BY <1>0, <1>4
      <4> QED
        BY <1>4, <2>2, <4>1
    <3> HIDE DEF tail
    <3> QED
      BY <2>2, <3>1, UsersAre
  <2> HIDE DEF tail
  <2>4. CASE Users(ms) = {}
    <3>1. Retained(ms, max) = After(LegalStart(tail), tail)
      BY <1>4, <2>3, <2>4 DEF Retained, tail
    <3> DEFINE p == LegalStart(tail)
               k == Len(ms) - max
    <3>2. p \in 0 .. max
      BY <2>2, LegalStartIs DEF Texts
    <3> HIDE DEF p
    <3>3. k \in 0 .. Len(ms) /\ p \in 0 .. Len(ms) - k /\ k + p \in 0 .. Len(ms) /\ tail = After(k, ms)
      BY <1>0, <2>1, <3>2
    <3> HIDE DEF k
    <3>4. After(p, tail) = After(k + p, ms)
      BY <1>0, <3>3, AfterAfter
    <3>5. Retained(ms, max) = After(k + p, ms)
      BY <3>1, <3>4 DEF p
    <3> QED
      BY <1>1, <3>3, <3>5
  <2>5. CASE Users(ms) # {}
    <3>1. g \in 1 .. Len(ms) /\ ms[g].role = "user"
      BY <2>5, UsersAre
    <3> HIDE DEF g
    <3>2. g + max <= Len(ms)
      BY <1>0, <1>4, <3>1
    <3>3. Len(rest) = Len(ms) - (g - 1) /\ rest \in Texts
      <4>1. g - 1 \in 0 .. Len(ms)
        BY <1>0, <3>1
      <4> QED
        BY <1>0, <4>1, AfterIs DEF Texts
    <3> DEFINE window == SubSeq(rest, 1, max)
               p == LegalStart(window)
               t == After(p, window)
    <3>4. Retained(ms, max) = t
      <4>1. Retained(ms, max) = LET w == SubSeq(rest, 1, IF max < Len(rest) THEN max ELSE Len(rest))
                                IN  After(LegalStart(w), w)
        BY <1>4, <2>3, <2>5 DEF Retained, g, tail
      <4> HIDE DEF rest
      <4>2. (IF max < Len(rest) THEN max ELSE Len(rest)) = max
        BY <1>0, <3>1, <3>2, <3>3
      <4> QED
        BY <4>1, <4>2
    <3>5. p \in 0 .. max
      <4> HIDE DEF rest
      <4>1. max \in 0 .. Len(rest)
        BY <1>0, <3>1, <3>2, <3>3
      <4>2. window \in Texts /\ Len(window) = max
        BY <3>3, <4>1, FirstPart DEF PartOf
      <4> HIDE DEF window
      <4> QED
        BY <4>2, LegalStartIs DEF Texts
    <3> HIDE DEF p
    <3>6. /\ Len(t) = max - p
          /\ \A j \in 1 .. Len(ms) : j <= Len(ms) - (max - p) \/ ms[j] \in Elems(t) \/ j >= g + max
      BY <3>1, <3>2, <3>5, MiddleCovers
    <3> HIDE DEF t, window, rest
    <3>7. d = Len(ms) - (max - p)
      BY <3>4, <3>6 DEF Dropped
    <3> HIDE DEF d
    <3>8. d \in 0 .. Len(ms) /\ d >= g
      BY <1>0, <3>1, <3>2, <3>5, <3>7
    <3>9. Covered(ms, Retained(ms, max), d, max)
      BY <2>5, <3>4, <3>6, <3>7 DEF Covered, Beyond, g
    <3>10. Users(ms) # {} /\ d \in 0 .. Len(ms) /\ d >= Greatest(Users(ms))
      BY <2>5, <3>8 DEF g
    <3> QED
      BY <3>9, <3>10 DEF d
  <2> QED
    BY <2>4, <2>5
<1> QED
  BY <1>2, <1>3, <1>4

\* The object in the cache is as the file, and there was no delete.
CacheInv(s) ==
    /\ s.gen = 0 /\ s.tomb = 0
    /\ s.cached # 0 => Content(s.objs[s.cached]) = s.file

\* What is before the cursor was archived.
FileInv(file, A) == \A i \in 1 .. file.cursor : file.messages[i] \in A

\* A round archives all there is up to its end; a compaction all it does not keep,
\* but for what is beyond.
WorkInv(p, w, s, n) ==
    w.step = "archive" =>
        /\ w.obj = s.cached
        /\ p # "idle" =>
              \A i \in s.file.cursor + 1 .. w.end : s.file.messages[i] \in Elems(w.chunk)
        /\ p = "idle" =>
              \A i \in s.file.cursor + 1 .. Len(s.file.messages) :
                 \/ s.file.messages[i] \in Elems(w.chunk) \cup Elems(w.kept)
                 \/ Beyond(s.file.messages, n, i)

Quiet == world.events \subseteq {"tools"}
Span == world.suffix

QuietInv ==
    /\ CacheInv(store)
    /\ FileInv(store.file, archived)
    /\ \A p \in Jobs : WorkInv(p, job[p], store, Span)
    /\ turn.step = "run" => LET ms == store.file.messages
                            IN  Len(ms) # 0 /\ ms[Len(ms)].role = "user"

LEMMA CacheFetch ==
    ASSUME NEW s, StoreOK(s), CacheInv(s)
    PROVE  LET f == Fetch(s)
           IN  /\ StoreOK(f) /\ CacheInv(f) /\ f.file = s.file /\ f.cached \in 1 .. Len(f.objs)
               /\ Content(f.objs[f.cached]) = s.file
               /\ s.cached # 0 => f = s
<1> DEFINE f == Fetch(s)
<1>1. /\ Looked(s, f) /\ f.cached \in 1 .. Len(f.objs)
      /\ s.cached # 0 => f = s
      /\ s.cached = 0 => Content(f.objs[f.cached]) = s.file
      /\ s.tomb = 0 => f.gen = s.gen
  BY FetchIs
<1> HIDE DEF f
<1>2. Content(f.objs[f.cached]) = s.file
  BY <1>1 DEF CacheInv
<1>3. StoreOK(f) /\ f.file = s.file /\ f.tomb = s.tomb
  BY <1>1 DEF Looked
<1>4. CacheInv(f)
  BY <1>1, <1>2, <1>3 DEF CacheInv
<1> QED
  BY <1>1, <1>2, <1>3, <1>4 DEF f

LEMMA CacheWrote ==
    ASSUME NEW s, StoreOK(s), CacheInv(s), NEW o \in 1 .. Len(s.objs), s.cached = o,
           NEW t, NEW ms, NEW c, Wrote(s, t, o, ms, c)
    PROVE  CacheInv(t) /\ t.file = [messages |-> ms, cursor |-> c] /\ t.cached = o /\ StoreOK(t)
           /\ Content(t.objs[o]) = t.file
<1>1. s.objs[o].gen \in Nat /\ o # 0 /\ s.tomb = 0
  BY ObjectIs DEF StoreOK, CacheInv
<1>2. ~(s.objs[o].gen < s.tomb)
  BY <1>1
<1>3. t.file = [messages |-> ms, cursor |-> c] /\ t.cached = o /\ Content(t.objs[o]) = t.file
      /\ t.gen = s.gen /\ t.tomb = s.tomb /\ StoreOK(t)
  BY <1>1, <1>2 DEF Wrote
<1> QED
  BY <1>3 DEF CacheInv

\* A round covers what is between the cursor and its end.
LEMMA RoundCovers ==
    ASSUME NEW s, StoreOK(s), CacheInv(s), NEW o \in 1 .. Len(s.objs), s.cached = o,
           NEW end \in 0 .. Len(s.objs[o].messages), NEW p \in Jobs, p # "idle", NEW n
    PROVE  WorkInv(p, RoundWork(s.objs[o], o, end), s, n)
<1> DEFINE x == s.objs[o]
           chunk == SubSeq(x.messages, x.cursor + 1, end)
           w == RoundWork(x, o, end)
<1>1. x.messages \in Texts /\ x.cursor \in Nat /\ o # 0
  BY ObjectIs DEF StoreOK
<1>2. s.file.messages = x.messages /\ s.file.cursor = x.cursor
  BY <1>1 DEF CacheInv, Content
<1>3. \A i \in x.cursor + 1 .. end : x.messages[i] \in Elems(chunk)
  BY <1>1, SliceIs
<1>4. w.obj = o /\ w.chunk = chunk /\ w.end = end
  BY DEF RoundWork, Work
<1> HIDE DEF chunk, w, x
<1>5. WorkInv(p, w, s, n)
  BY <1>2, <1>3, <1>4 DEF WorkInv
<1> QED
  BY <1>5 DEF w, x

\* A compaction keeps of what is not consolidated all it does not archive, but for
\* what is beyond; and all of it when it archives nothing.
LEMMA SuffixIs ==
    ASSUME NEW s, StoreOK(s), WorldOK, s.file.cursor <= Len(s.file.messages)
    PROVE  /\ Cut(s) = 0 => Suffix(s) = Unread(s)
           /\ \A i \in s.file.cursor + 1 .. Len(s.file.messages) :
                 \/ s.file.messages[i] \in Elems(SubSeq(Unread(s), 1, Cut(s))) \cup Elems(Suffix(s))
                 \/ Beyond(s.file.messages, world.suffix, i)
<1> DEFINE ms == s.file.messages
           c == s.file.cursor
           u == Unread(s)
           k == Cut(s)
           n == world.suffix
<1>0. /\ ms \in Texts /\ c \in Nat /\ Len(ms) \in Nat /\ c \in 0 .. Len(ms)
      /\ n \in Nat \ {0}
      /\ u \in Texts /\ k \in 0 .. Len(u) /\ Len(u) \in Nat
  <2>1. n \in Nat \ {0}
    BY WorldIs
  <2>2. ms \in Texts /\ c \in Nat /\ u \in Texts /\ k \in 0 .. Len(u)
    BY UnreadIs
  <2>3. Len(ms) \in Nat /\ Len(u) \in Nat
    BY <2>2 DEF Texts
  <2> HIDE DEF ms, c, u, k, n
  <2>4. c \in 0 .. Len(ms)
    BY <2>2, <2>3 DEF ms, c
  <2> QED
    BY <2>1, <2>2, <2>3, <2>4
<1>1. u = After(c, ms) /\ Len(u) = Len(ms) - c /\ \A i \in 1 .. Len(ms) - c : u[i] = ms[c + i]
  BY <1>0, AfterIs DEF Unread, Texts
<1>2. Cut(s) = Dropped(u, n) /\ Suffix(s) = Retained(u, n)
  BY DEF Cut, Suffix, Dropped
<1> HIDE DEF u, n
<1>3. /\ Suffix(s) = After(k, u) \/ (Users(u) # {} /\ k >= Greatest(Users(u)))
      /\ Covered(u, Suffix(s), k, n)
  BY <1>0, <1>2, RetainedCovers
<1> HIDE DEF ms, c, k
<1>4. Users(u) # {} => /\ Greatest(Users(u)) \in 1 .. Len(u)
                       /\ \A j \in Users(u) : j <= Greatest(Users(u))
  <2>1. Users(u) \subseteq 1 .. Len(u) /\ Users(u) \subseteq 0 .. Len(u) /\ Len(u) \in Nat
    BY <1>0, UsersAre DEF Texts
  <2> QED
    BY <2>1, GreatestIs
<1>5. k = 0 => Suffix(s) = u
  <2>1. After(0, u) = u
    BY <1>0, SubSeqFull DEF After, Texts
  <2> QED
    BY <1>3, <1>4, <2>1
<1>6. ASSUME NEW i \in c + 1 .. Len(ms)
      PROVE  ms[i] \in Elems(SubSeq(u, 1, k)) \cup Elems(Suffix(s)) \/ Beyond(ms, n, i)
  <2> DEFINE j == i - c
  <2>1. j \in 1 .. Len(ms) - c /\ c + j = i /\ j \in Nat
    BY <1>0, <1>6
  <2>2. u[j] = ms[i] /\ j \in 1 .. Len(u)
    BY <1>1, <2>1
  <2> HIDE DEF j
  <2>3. CASE j <= k
    <3>1. 0 \in Nat /\ 0 + 1 = 1 /\ j \in 0 + 1 .. k
      BY <1>0, <2>1, <2>2, <2>3
    <3>2. u[j] \in Elems(SubSeq(u, 0 + 1, k))
      BY <1>0, <3>1, SliceIs
    <3> QED
      BY <2>2, <3>1, <3>2
  <2>4. CASE Beyond(u, n, j)
    <3> DEFINE g == Greatest(Users(u))
               h == Greatest(Users(ms))
    <3>1. Users(u) # {} /\ j >= g + n /\ g \in Users(u)
      BY <1>0, <2>4, UsersAre DEF Beyond
    <3>2. g \in 1 .. Len(u) /\ u[g].role = "user" /\ \A y \in Users(u) : y <= g
      BY <1>0, <1>4, <3>1, UsersAre
    <3> HIDE DEF g
    <3>3. c + g \in 1 .. Len(ms) /\ ms[c + g].role = "user"
      <4>1. g \in 1 .. Len(ms) - c
        BY <1>1, <3>2
      <4> QED
        BY <1>0, <1>1, <3>2, <4>1
    <3>4. c + g \in Users(ms) /\ Users(ms) \subseteq 0 .. Len(ms)
      BY <1>0, <3>3, UsersAre
    <3>5. h \in Users(ms) /\ c + g <= h
      BY <1>0, <3>4, GreatestIs
    <3>6. h \in 1 .. Len(ms) /\ ms[h].role = "user"
      BY <1>0, <3>5, UsersAre
    <3> HIDE DEF h
    <3>7. h > c /\ h - c \in 1 .. Len(ms) - c /\ c + (h - c) = h
      BY <1>0, <3>2, <3>5, <3>6
    <3>8. h - c \in Users(u)
      <4>1. h - c \in 1 .. Len(u) /\ u[h - c] = ms[h]
        BY <1>1, <3>7
      <4> QED
        BY <1>0, <3>6, <4>1, UsersAre
    <3>9. i >= h + n
      <4>1. h - c <= g
        BY <3>2, <3>8
      <4>2. i \in Nat /\ j \in Nat /\ c \in Nat /\ n \in Nat /\ g \in Nat /\ h \in Nat
            /\ c + j = i /\ j >= g + n
        <5>1. i \in Nat
          BY <1>0, <2>1
        <5>2. g \in Nat /\ h \in Nat
          BY <3>2, <3>6
        <5> QED
          BY <1>0, <2>1, <3>1, <5>1, <5>2
      <4> QED
        BY ONLY <4>1, <4>2
    <3> QED
      BY <3>4, <3>9 DEF Beyond, h
  <2> QED
    BY <1>3, <2>2, <2>3, <2>4 DEF Covered
<1> QED
  BY <1>5, <1>6 DEF u, ms, c, k, n

LEMMA OnlyHolder ==
    ASSUME JobsOK, LockInv, NEW p \in Jobs, HasLock(p), NEW s, NEW n,
           LockLeft(p) \/ \E w : LockWork(p, w) /\ WorkInv(p, w, s, n)
    PROVE  \A q \in Jobs : WorkInv(q, job'[q], s, n)
<1>1. \A q \in Jobs : q # p => job[q].step # "archive" /\ job'[q] = job[q]
  BY NoOthers DEF LockLeft, LockWork, JobsOK
<1>2. WorkInv(p, job'[p], s, n)
  <2>1. CASE LockLeft(p)
    BY <2>1, NoJobIs DEF LockLeft, JobsOK, WorkInv
  <2>2. ASSUME NEW w, LockWork(p, w), WorkInv(p, w, s, n) PROVE WorkInv(p, job'[p], s, n)
    <3>1. job'[p] = w
      BY <2>2 DEF LockWork, JobsOK
    <3> QED
      BY <2>2, <3>1
  <2> QED
    BY <2>1, <2>2
<1>3. \A q \in Jobs : q # p => WorkInv(q, job'[q], s, n)
  BY <1>1 DEF WorkInv
<1> QED
  BY <1>2, <1>3

LEMMA RoundQuiet ==
    ASSUME JobsOK, LockInv, NEW p \in Jobs, p # "idle", HasLock(p), NEW n,
           NEW s, StoreOK(s), CacheInv(s), NEW o \in 1 .. Len(s.objs), s.cached = o, RoundStep(p, s, o)
    PROVE  \A q \in Jobs : WorkInv(q, job'[q], s, n)
<1>1. LockLeft(p) \/ \E w : LockWork(p, w) /\ WorkInv(p, w, s, n)
  <2>1. ASSUME NEW end \in 0 .. Len(s.objs[o].messages), LockWork(p, RoundWork(s.objs[o], o, end))
        PROVE  \E w : LockWork(p, w) /\ WorkInv(p, w, s, n)
    BY <2>1, RoundCovers
  <2> QED
    BY <2>1 DEF RoundStep
<1> QED
  BY <1>1, OnlyHolder

\* What a quiet world is like before a step.
LEMMA QuietFacts ==
    ASSUME IInv, QuietInv, Quiet
    PROVE  /\ Safe /\ StoreOK(store) /\ JobsOK /\ LockInv /\ WorldOK /\ TurnOK
           /\ store.file \in Sessions /\ store.file.messages \in Texts /\ Len(store.file.messages) \in Nat
           /\ store.file.cursor \in 0 .. Len(store.file.messages)
           /\ world.cap \in Nat \ {0}
           /\ job["idle"].step # "wait"
           /\ turn.step # "idle" => /\ store.cached = turn.obj /\ turn.obj \in 1 .. Len(store.objs)
                                    /\ Content(store.objs[turn.obj]) = store.file
           /\ \A p \in Jobs : job[p].step = "archive" =>
                 /\ job[p].obj = store.cached /\ store.cached \in 1 .. Len(store.objs)
                 /\ Content(store.objs[store.cached]) = store.file
<1>1. /\ Safe /\ StoreOK(store) /\ JobsOK /\ LockInv /\ WorldOK /\ TurnOK /\ CursorInv /\ SameInv
      /\ store.file \in Sessions
  BY DEF IInv, Safe, TypeInv, StoreOK, Stores
<1>2. world.events \cap {"new", "rewind"} = {} /\ "outlast" \notin world.events
      /\ world.events \cap {"new", "delete", "evict", "outlast"} = {}
  BY DEF Quiet
<1>3. store.file.messages \in Texts /\ store.file.cursor \in Nat /\ Len(store.file.messages) \in Nat
  BY <1>1 DEF Sessions, Texts
<1>4. store.file.cursor <= Len(store.file.messages)
  BY <1>1, <1>2 DEF CursorInv, Holds
<1>6. world.cap \in Nat \ {0}
  BY <1>1, WorldIs
<1>7. Len(store.objs) \in Nat
  BY <1>1, LookedSame
<1>8. turn.step # "idle" => /\ store.cached = turn.obj /\ turn.obj \in 1 .. Len(store.objs)
                            /\ Content(store.objs[turn.obj]) = store.file
  <2>1. ASSUME turn.step # "idle"
        PROVE  /\ store.cached = turn.obj /\ turn.obj \in 1 .. Len(store.objs)
               /\ Content(store.objs[turn.obj]) = store.file
    <3>1. store.cached = turn.obj /\ turn.obj \in 1 .. Len(store.objs)
      BY <1>1, <1>2, <2>1 DEF SameInv, SameObject, TurnOK
    <3>2. store.cached # 0
      BY <1>7, <3>1
    <3> QED
      BY <3>1, <3>2 DEF QuietInv, CacheInv
  <2> QED
    BY <2>1
<1>9. ASSUME NEW p \in Jobs, job[p].step = "archive"
      PROVE  /\ job[p].obj = store.cached /\ store.cached \in 1 .. Len(store.objs)
             /\ Content(store.objs[store.cached]) = store.file
  <2>1. job[p].obj = store.cached /\ job[p].obj \in 1 .. Len(store.objs)
    BY <1>1, <1>9 DEF QuietInv, WorkInv, JobsOK
  <2>2. store.cached # 0
    BY <1>7, <2>1
  <2> QED
    BY <2>1, <2>2 DEF QuietInv, CacheInv
<1>10. job["idle"].step # "wait"
  BY <1>1, <1>2 DEF LockInv
<1>11. store.file.cursor \in 0 .. Len(store.file.messages)
  BY <1>3, <1>4
<1> QED
  BY <1>1, <1>3, <1>6, <1>8, <1>9, <1>10, <1>11

\* Nothing is lost but what is in the history, and in a compaction what is beyond.
Excess == IF job["idle"].step = "archive" THEN LongEnd(store.file.messages) ELSE {}
Kept == Elems(store.file.messages) \ Elems(store'.file.messages) \subseteq archived' \cup Excess

\* A step that leaves the file alone.
LEMMA QuietSame ==
    ASSUME IInv, QuietInv, world' = world, CacheInv(store'), store'.file = store.file,
           archived' = archived,
           \A q \in Jobs : WorkInv(q, job'[q], store', Span),
           turn'.step = "run" => turn.step = "run"
    PROVE  QuietInv' /\ Kept
<1>1. Span' = Span
  BY DEF Span
<1>2. QuietInv'
  BY <1>1 DEF QuietInv, FileInv
<1> QED
  BY <1>2 DEF Kept

LEMMA QuietResume ==
    ASSUME IInv, QuietInv, Quiet, NEW p \in Jobs, Resume(p)
    PROVE  QuietInv' /\ Kept
<1> DEFINE f == Fetch(store)
<1>0. Safe /\ StoreOK(store) /\ JobsOK /\ LockInv /\ job["idle"].step # "wait" /\ CacheInv(store)
  BY QuietFacts DEF QuietInv
<1>1. p # "idle" /\ turn' = turn /\ archived' = archived /\ world' = world
  BY <1>0 DEF Resume
<1>2. line[1] = p /\ RoundStep(p, f, f.cached)
  BY <1>0, <1>1, ResumeEffect DEF BeginStep
<1>3. StoreOK(f) /\ CacheInv(f) /\ f.file = store.file /\ f.cached \in 1 .. Len(f.objs)
  BY <1>0, CacheFetch
<1> HIDE DEF f
<1>4. \A q \in Jobs : WorkInv(q, job'[q], f, Span)
  BY <1>0, <1>1, <1>2, <1>3, RoundQuiet DEF HasLock
<1>5. store' = f
  BY <1>2 DEF RoundStep
<1> QED
  BY <1>1, <1>3, <1>4, <1>5, QuietSame

LEMMA QuietEndRound ==
    ASSUME IInv, QuietInv, Quiet, NEW p \in Jobs, EndRound(p)
    PROVE  QuietInv' /\ Kept
<1> DEFINE o == job[p].obj
           end == job[p].end
           ms == store.objs[o].messages
           s == Save(Put(store, o, ms, end), o)
           n == Span
<1>0. /\ Safe /\ StoreOK(store) /\ JobsOK /\ LockInv /\ CacheInv(store)
      /\ FileInv(store.file, archived) /\ WorkInv(p, job[p], store, n)
      /\ turn.step = "run" => Len(store.file.messages) # 0
                              /\ store.file.messages[Len(store.file.messages)].role = "user"
      /\ store.file.cursor \in 0 .. Len(store.file.messages)
  BY QuietFacts DEF QuietInv
<1>1. /\ p # "idle" /\ job[p].step = "archive" /\ archived' = archived \cup Elems(job[p].chunk)
      /\ turn' = turn /\ world' = world
  BY DEF EndRound
<1>2. /\ line[1] = p /\ o \in 1 .. Len(store.objs)
      /\ Wrote(store, s, o, ms, end) /\ RoundStep(p, s, o)
  BY <1>0, EndRoundEffect
<1>3. store.cached = o /\ Content(store.objs[o]) = store.file
  BY <1>1, QuietFacts
<1>4. ms = store.file.messages
  BY <1>3 DEF Content
<1> HIDE DEF s, o, ms
<1>5. CacheInv(s) /\ s.file = [messages |-> ms, cursor |-> end] /\ s.cached = o /\ StoreOK(s)
  BY <1>0, <1>2, <1>3, CacheWrote
<1>6. o \in 1 .. Len(s.objs)
  BY <1>2 DEF Wrote
<1>7. \A q \in Jobs : WorkInv(q, job'[q], s, n)
  BY <1>0, <1>1, <1>2, <1>5, <1>6, RoundQuiet DEF HasLock
<1>8. store' = s
  BY <1>2 DEF RoundStep
<1>9. s.file.messages = ms /\ s.file.cursor = end
  BY <1>5
<1>10. FileInv(s.file, archived')
  <2>1. end \in Nat
    BY <1>0, JobIs
  <2>2. ASSUME NEW i \in 1 .. end PROVE ms[i] \in archived'
    <3>1. CASE i \in 1 .. store.file.cursor
      BY <1>0, <1>1, <1>4, <3>1 DEF FileInv
    <3>2. CASE i \in store.file.cursor + 1 .. end
      BY <1>0, <1>1, <1>4, <3>2 DEF WorkInv
    <3>3. i \in 1 .. store.file.cursor \/ i \in store.file.cursor + 1 .. end
      BY <1>0, <2>1
    <3> QED
      BY <3>1, <3>2, <3>3
  <2> QED
    BY <1>0, <1>4, <1>9, <2>2 DEF FileInv
<1>11. Span' = n
  BY <1>1 DEF Span
<1> QED
  BY <1>0, <1>1, <1>4, <1>5, <1>7, <1>8, <1>9, <1>10, <1>11 DEF QuietInv, Kept

LEMMA QuietEndIdle ==
    ASSUME IInv, QuietInv, Quiet, EndIdle
    PROVE  QuietInv' /\ Kept
<1> DEFINE w == job["idle"]
           o == w.obj
           s == Save(Put(store, o, w.kept, 0), o)
           n == Span
           F == store.file
<1>0. /\ Safe /\ StoreOK(store) /\ JobsOK /\ LockInv /\ CacheInv(store) /\ "idle" \in Jobs
      /\ FileInv(F, archived) /\ WorkInv("idle", w, store, n)
      /\ F.cursor \in 0 .. Len(F.messages) /\ F.messages \in Texts /\ Len(F.messages) \in Nat
  BY QuietFacts DEF QuietInv, Jobs
<1>1. /\ w.step = "archive" /\ archived' = archived \cup Elems(w.chunk)
      /\ turn' = turn /\ world' = world
  BY DEF EndIdle
<1>2. /\ line # <<>> /\ line[1] = "idle" /\ o \in 1 .. Len(store.objs) /\ LockLeft("idle")
      /\ Wrote(store, s, o, w.kept, 0) /\ store' \in {s, Fetch(s)}
  BY <1>0, EndIdleEffect
<1>3. store.cached = o
  BY <1>0, <1>1, QuietFacts
<1> HIDE DEF s, o
<1>4. CacheInv(s) /\ s.file = [messages |-> w.kept, cursor |-> 0] /\ s.cached = o /\ StoreOK(s)
  <2> DEFINE ms == w.kept
             c == 0
  <2>1. Wrote(store, s, o, ms, c) /\ StoreOK(store) /\ CacheInv(store) /\ o \in 1 .. Len(store.objs)
    BY <1>0, <1>2
  <2> HIDE DEF ms, c
  <2>2. CacheInv(s) /\ s.file = [messages |-> ms, cursor |-> c] /\ s.cached = o /\ StoreOK(s)
    BY <1>3, <2>1, CacheWrote
  <2> QED
    BY <2>2 DEF ms, c
<1>5. store' = s
  <2>1. s.cached # 0
    BY <1>2, <1>4
  <2> QED
    BY <1>2, <1>4, <2>1, FetchIs
<1>6. turn'.step # "run"
  BY <1>0, <1>1, <1>2 DEF Safe, TurnInv
<1>7. \A q \in Jobs : WorkInv(q, job'[q], s, n)
  BY <1>0, <1>2, OnlyHolder DEF HasLock
<1>8. s.file.messages = w.kept /\ s.file.cursor = 0
  BY <1>4
<1>9. FileInv(s.file, archived')
  BY <1>8 DEF FileInv
<1>10. ASSUME NEW i \in DOMAIN F.messages
       PROVE  F.messages[i] \in archived' \cup Elems(w.kept) \/ Beyond(F.messages, n, i)
  <2>1. i \in 1 .. Len(F.messages)
    BY <1>0 DEF Texts
  <2>2. CASE i \in 1 .. F.cursor
    BY <1>0, <1>1, <2>2 DEF FileInv
  <2>3. CASE i \in F.cursor + 1 .. Len(F.messages)
    BY <1>0, <1>1, <2>3 DEF WorkInv
  <2> QED
    BY <1>0, <2>1, <2>2, <2>3
<1>11. Elems(F.messages) \subseteq archived' \cup Elems(w.kept) \cup LongEnd(F.messages)
  BY <1>10 DEF Elems, LongEnd, Beyond, Span
<1>12. Span' = n
  BY <1>1 DEF Span
<1>13. Kept
  BY <1>1, <1>5, <1>8, <1>11 DEF Kept, Excess
<1> QED
  BY <1>4, <1>5, <1>6, <1>7, <1>8, <1>9, <1>12, <1>13 DEF QuietInv

LEMMA QuietExpire ==
    ASSUME IInv, QuietInv, Quiet, Expire
    PROVE  QuietInv' /\ Kept
<1> DEFINE f == Reloaded(store)
           o == f.cached
           n == Span
           F == store.file
<1>0. /\ Safe /\ StoreOK(store) /\ JobsOK /\ LockInv /\ CacheInv(store) /\ "idle" \in Jobs /\ WorldOK
      /\ FileInv(F, archived)
      /\ F.cursor \in 0 .. Len(F.messages) /\ F.messages \in Texts /\ Len(F.messages) \in Nat
  BY QuietFacts DEF QuietInv, Jobs
<1>1. turn.step = "idle" /\ turn' = turn /\ archived' = archived /\ world' = world
  BY DEF Expire, ExpireActive
<1>2. line = <<>> /\ IdleStep(store, f, o)
  BY <1>0, ExpireEffect DEF Quiet
<1>3. /\ Looked(store, f) /\ StoreOK(f) /\ o = Len(store.objs) + 1 /\ Len(f.objs) = Len(store.objs) + 1
      /\ Content(f.objs[o]) = F /\ (store.tomb = 0 => f.gen = store.gen) /\ Len(store.objs) \in Nat
  BY <1>0, ReloadedIs, LookedSame
<1>4. CacheInv(f) /\ f.file = F /\ o \in 1 .. Len(f.objs)
  BY <1>0, <1>3 DEF CacheInv, Looked
<1>5. F.cursor <= Len(F.messages)
  BY <1>0
<1>6. /\ Cut(store) = 0 => Suffix(store) = Unread(store)
      /\ \A i \in F.cursor + 1 .. Len(F.messages) :
            \/ F.messages[i] \in Elems(SubSeq(Unread(store), 1, Cut(store))) \cup Elems(Suffix(store))
            \/ Beyond(F.messages, n, i)
  BY <1>0, <1>5, SuffixIs DEF Span
<1>7. Span' = n
  BY <1>1 DEF Span
<1> HIDE DEF f
<1>8. CASE Cut(store) > 0 /\ store' = f /\ LockWork("idle", IdleWork(store, o))
  <2> DEFINE w == IdleWork(store, o)
  <2>1. w.obj = o /\ w.chunk = SubSeq(Unread(store), 1, Cut(store)) /\ w.kept = Suffix(store)
    BY DEF IdleWork, Work
  <2> HIDE DEF w
  <2>2. WorkInv("idle", w, f, n)
    BY <1>4, <1>6, <2>1 DEF WorkInv
  <2>3. LockWork("idle", w)
    BY <1>8 DEF w
  <2>4. \A q \in Jobs : WorkInv(q, job'[q], f, n)
    BY <1>0, <1>2, <2>2, <2>3, OnlyHolder DEF HasLock
  <2> QED
    BY <1>1, <1>4, <1>8, <2>4, QuietSame
<1>9. ASSUME LockLeft("idle"), NEW ms, NEW c, Wrote(f, store', o, ms, c),
             \A i \in 1 .. c : ms[i] \in archived,
             Elems(F.messages) \subseteq archived \cup Elems(ms)
      PROVE  QuietInv' /\ Kept
  <2>1. CacheInv(store') /\ store'.file = [messages |-> ms, cursor |-> c]
    BY <1>3, <1>4, <1>9, CacheWrote
  <2> DEFINE t == store'
  <2>2. \A q \in Jobs : WorkInv(q, job'[q], t, n)
    <3> HIDE DEF t
    <3> QED
      BY <1>0, <1>2, <1>9, OnlyHolder DEF HasLock
  <2>3. store'.file.messages = ms /\ store'.file.cursor = c
    BY <2>1
  <2>4. FileInv(store'.file, archived')
    BY <1>1, <1>9, <2>3 DEF FileInv
  <2> QED
    BY <1>1, <1>7, <1>9, <2>1, <2>2, <2>3, <2>4 DEF QuietInv, Kept
<1>10. CASE Cut(store) = 0 /\ LockLeft("idle") /\ Wrote(f, store', o, Suffix(store), 0)
  <2>1. ASSUME NEW i \in DOMAIN F.messages
        PROVE  F.messages[i] \in archived \cup Elems(Suffix(store))
    <3>1. i \in 1 .. Len(F.messages)
      BY <1>0 DEF Texts
    <3>2. CASE i \in 1 .. F.cursor
      BY <1>0, <3>2 DEF FileInv
    <3>3. CASE i \in F.cursor + 1 .. Len(F.messages)
      <4>1. Suffix(store) = After(F.cursor, F.messages) /\ F.messages \in Seq(Msgs)
        BY <1>0, <1>6, <1>10 DEF Unread, Texts
      <4> DEFINE e == F.cursor
                 fs == F.messages
                 t == Suffix(store)
                 j == i - e
      <4>2. fs \in Seq(Msgs) /\ e \in 0 .. Len(fs) /\ i \in e + 1 .. Len(fs) /\ t = After(e, fs)
            /\ Len(fs) \in Nat
        BY <1>0, <3>3, <4>1
      <4> HIDE DEF e, fs, t
      <4>3. /\ t \in Seq(Msgs) /\ Len(t) = Len(fs) - e
            /\ \A a \in 1 .. Len(fs) - e : t[a] = fs[e + a]
        BY <4>2, AfterIs
      <4>4. j \in 1 .. Len(fs) - e /\ e + j = i
        BY <4>2
      <4> HIDE DEF j
      <4>5. t[j] = fs[i] /\ j \in DOMAIN t
        BY <4>2, <4>3, <4>4
      <4>6. fs[i] \in Elems(t)
        BY <4>5 DEF Elems
      <4> QED
        BY <4>6 DEF fs, t
    <3> QED
      BY <1>0, <3>1, <3>2, <3>3
  <2>2. Elems(F.messages) \subseteq archived \cup Elems(Suffix(store))
    BY <2>1 DEF Elems
  <2>3. \A i \in 1 .. 0 : Suffix(store)[i] \in archived
    OBVIOUS
  <2> QED
    BY <1>9, <1>10, <2>2, <2>3
<1>11. CASE LockLeft("idle") /\ Wrote(f, store', o, F.messages, F.cursor)
  BY <1>0, <1>9, <1>11 DEF FileInv
<1> QED
  BY <1>2, <1>8, <1>10, <1>11 DEF IdleStep


\* A job that gives up or waits changes nothing for the others.
LEMMA LineQuiet ==
    ASSUME JobsOK, NEW p \in Jobs, LockLeft(p) \/ LockWait(p), NEW s, NEW n,
           \A q \in Jobs : WorkInv(q, job[q], s, n)
    PROVE  \A q \in Jobs : WorkInv(q, job'[q], s, n)
<1>1. \A q \in Jobs : q # p => job'[q] = job[q]
  BY DEF LockLeft, LockWait, JobsOK
<1>2. job'[p].step # "archive"
  <2>1. CASE LockLeft(p)
    BY <2>1, NoJobIs DEF LockLeft, JobsOK
  <2>2. CASE LockWait(p)
    BY <2>2 DEF LockWait, JobsOK, JobRecords
  <2> QED
    BY <2>1, <2>2
<1> QED
  BY <1>1, <1>2 DEF WorkInv

LEMMA QuietArchiveRaises ==
    ASSUME IInv, QuietInv, Quiet, NEW p \in Jobs, ArchiveRaises(p)
    PROVE  QuietInv' /\ Kept
<1>0. Safe /\ JobsOK
  BY QuietFacts
<1>1. store' = store /\ LockLeft(p) /\ archived' = archived /\ world' = world
      /\ (turn' = turn \/ turn' = NoTurn)
  BY <1>0, ArchiveRaisesEffect DEF ArchiveRaises
<1>2. \A q \in Jobs : WorkInv(q, job[q], store, Span)
  BY DEF QuietInv
<1>3. \A q \in Jobs : WorkInv(q, job'[q], store, Span)
  BY <1>0, <1>1, <1>2, LineQuiet
<1>4. turn'.step = "run" => turn.step = "run"
  BY <1>1 DEF NoTurn
<1>5. CacheInv(store') /\ store'.file = store.file
  BY <1>1 DEF QuietInv
<1> QED
  BY <1>1, <1>3, <1>4, <1>5, QuietSame

LEMMA QuietStartTurn ==
    ASSUME IInv, QuietInv, Quiet, StartTurn
    PROVE  QuietInv' /\ Kept
<1> DEFINE f == Fetch(store)
<1>0. Safe /\ StoreOK(store) /\ JobsOK /\ LockInv /\ CacheInv(store) /\ "build" \in Jobs
  BY QuietFacts DEF QuietInv, Jobs
<1>1. /\ turn'.step # "run" /\ archived' = archived /\ world' = world /\ store' = f
      /\ \/ line # <<>> /\ LockWait("build")
         \/ line = <<>> /\ RoundStep("build", f, f.cached)
  BY <1>0, StartTurnEffect DEF StartTurn
<1>2. StoreOK(f) /\ CacheInv(f) /\ f.file = store.file /\ f.cached \in 1 .. Len(f.objs)
      /\ (store.cached # 0 => f = store)
  BY <1>0, CacheFetch
<1> HIDE DEF f
<1>3. \A q \in Jobs : WorkInv(q, job'[q], f, Span)
  <2>1. CASE line = <<>> /\ RoundStep("build", f, f.cached)
    BY <1>0, <1>2, <2>1, RoundQuiet DEF HasLock
  <2>2. CASE LockWait("build")
    <3>1. ASSUME NEW q \in Jobs, job[q].step = "archive" PROVE f = store
      <4>1. store.cached \in 1 .. Len(store.objs) /\ Len(store.objs) \in Nat
        BY <1>0, <3>1, QuietFacts, LookedSame
      <4> QED
        BY <1>2, <4>1
    <3>2. \A q \in Jobs : WorkInv(q, job[q], store, Span)
      BY DEF QuietInv
    <3>3. \A q \in Jobs : WorkInv(q, job[q], f, Span)
      BY <3>1, <3>2 DEF WorkInv
    <3> QED
      BY <1>0, <2>2, <3>3, LineQuiet
  <2> QED
    BY <1>1, <2>1, <2>2
<1> QED
  BY <1>1, <1>2, <1>3, QuietSame

LEMMA QuietAbandonTurn ==
    ASSUME IInv, QuietInv, Quiet, AbandonTurn
    PROVE  QuietInv' /\ Kept
<1>0. Safe /\ StoreOK(store) /\ JobsOK /\ CacheInv(store) /\ Len(store.objs) \in Nat /\ "build" \in Jobs
  BY QuietFacts, LookedSame DEF QuietInv, Jobs
<1>1. /\ turn' = NoTurn /\ store' \in {store, Fetch(store)} /\ archived' = archived
      /\ LockLeft("build") \/ UNCHANGED <<line, job>>
      /\ turn.step # "idle" /\ world' = world
  BY <1>0, AbandonTurnEffect DEF AbandonTurn
<1>2. store.cached \in 1 .. Len(store.objs)
  BY <1>1, QuietFacts
<1>3. store' = store
  BY <1>0, <1>1, <1>2, CacheFetch
<1>4. \A q \in Jobs : WorkInv(q, job[q], store, Span)
  BY DEF QuietInv
<1>5. \A q \in Jobs : WorkInv(q, job'[q], store, Span)
  BY <1>0, <1>1, <1>4, LineQuiet
<1>6. turn'.step # "run"
  BY <1>1 DEF NoTurn
<1> QED
  BY <1>0, <1>1, <1>3, <1>5, <1>6, QuietSame

LEMMA QuietPersistUser ==
    ASSUME IInv, QuietInv, Quiet, PersistUser
    PROVE  QuietInv' /\ Kept
<1> DEFINE o == turn.obj
           F == store.file
           m == Message("user", turn.of)
           ms == Append(store.objs[o].messages, m)
           c == store.objs[o].cursor
           n == Span
<1>0. /\ Safe /\ StoreOK(store) /\ CacheInv(store) /\ FileInv(F, archived)
      /\ F.messages \in Texts /\ F.cursor \in 0 .. Len(F.messages) /\ TurnOK
  BY QuietFacts DEF QuietInv
<1>1. /\ turn.step = "build" /\ line = <<>> /\ o \in 1 .. Len(store.objs)
      /\ Wrote(store, store', o, ms, c)
  BY <1>0, PersistUserEffect
<1>2. archived' = archived /\ world' = world /\ job' = job
  BY DEF PersistUser
<1>3. store.cached = o /\ Content(store.objs[o]) = F
  BY <1>1, QuietFacts
<1>4. store.objs[o].messages = F.messages /\ c = F.cursor
  BY <1>3 DEF Content
<1>5. m \in Msgs /\ m.role = "user"
  BY <1>0, MessageIs DEF TurnOK, TurnRecords, Roles, Message
<1> HIDE DEF m
<1>6. /\ ms \in Texts /\ Len(ms) = Len(F.messages) + 1 /\ Len(F.messages) \in Nat
      /\ Elems(ms) = Elems(F.messages) \cup {m}
      /\ \A i \in 1 .. Len(F.messages) : ms[i] = F.messages[i]
      /\ ms[Len(ms)] = m
  BY <1>0, <1>4, <1>5, AddedIs
<1> HIDE DEF ms, c, o
<1>7. CacheInv(store') /\ store'.file = [messages |-> ms, cursor |-> c]
  BY <1>0, <1>1, <1>3, CacheWrote
<1>8. store'.file.messages = ms /\ store'.file.cursor = c
  BY <1>7
<1>10. \A i \in 1 .. c : ms[i] \in archived
  <2>1. \A i \in 1 .. F.cursor : F.messages[i] \in archived
    BY <1>0 DEF FileInv
  <2>2. \A i \in 1 .. F.cursor : i \in 1 .. Len(F.messages)
    BY <1>0, <1>6
  <2> QED
    BY <1>4, <1>6, <2>1, <2>2
<1>11. FileInv(store'.file, archived')
  BY <1>2, <1>8, <1>10 DEF FileInv
<1>12. \A p \in Jobs : job'[p].step # "archive"
  BY <1>0, <1>1, <1>2, AtRest DEF NoJob
<1>13. Len(ms) # 0 /\ ms[Len(ms)].role = "user"
  BY <1>5, <1>6
<1>14. Span' = n
  BY <1>2 DEF Span
<1> QED
  BY <1>6, <1>7, <1>8, <1>11, <1>12, <1>13, <1>14 DEF QuietInv, Kept, WorkInv

LEMMA QuietEmitCheckpoint ==
    ASSUME IInv, QuietInv, Quiet, EmitCheckpoint
    PROVE  QuietInv' /\ Kept
<1> DEFINE o == turn.obj
           F == store.file
           ms == store.objs[o].messages
           c == store.objs[o].cursor
<1>0. Safe /\ StoreOK(store) /\ CacheInv(store) /\ F \in Sessions
  BY QuietFacts DEF QuietInv
<1>1. turn.step = "run" /\ o \in 1 .. Len(store.objs) /\ Wrote(store, store', o, ms, c)
  BY <1>0, EmitCheckpointEffect
<1>2. archived' = archived /\ world' = world /\ job' = job /\ turn' = turn
  BY DEF EmitCheckpoint
<1>3. store.cached = o /\ Content(store.objs[o]) = F
  BY <1>1, QuietFacts
<1>4. [messages |-> ms, cursor |-> c] = F
  BY <1>3 DEF Content
<1> HIDE DEF ms, c, o
<1>5. CacheInv(store') /\ store'.file = F
  BY <1>0, <1>1, <1>3, <1>4, CacheWrote
<1>6. \A p \in Jobs : job'[p].step # "archive"
  <2>1. line = <<>>
    BY <1>0, <1>1 DEF Safe, TurnInv
  <2> QED
    BY <1>0, <1>2, <2>1, AtRest DEF NoJob
<1>7. \A p \in Jobs : WorkInv(p, job'[p], store', Span)
  BY <1>6 DEF WorkInv
<1> QED
  BY <1>2, <1>5, <1>7, QuietSame

LEMMA QuietSaveTurn ==
    ASSUME IInv, QuietInv, Quiet, SaveTurn
    PROVE  QuietInv' /\ Kept
<1> DEFINE o == turn.obj
           F == store.file
           max == world.cap
           n == Span
<1>0. /\ Safe /\ StoreOK(store) /\ CacheInv(store) /\ FileInv(F, archived) /\ JobsOK
      /\ F.messages \in Texts /\ F.cursor \in 0 .. Len(F.messages) /\ Len(F.messages) \in Nat
      /\ max \in Nat \ {0} /\ TurnOK
      /\ turn.step = "run" => Len(F.messages) # 0 /\ F.messages[Len(F.messages)].role = "user"
  BY QuietFacts DEF QuietInv
<1>1. /\ turn.step = "run" /\ line = <<>> /\ o \in 1 .. Len(store.objs)
      /\ turn' = NoTurn /\ LockWait("background")
  BY <1>0, SaveTurnEffect
<1>2. store.cached = o /\ Content(store.objs[o]) = F
  BY <1>1, QuietFacts
<1>3. store.objs[o].messages = F.messages /\ store.objs[o].cursor = F.cursor
  BY <1>2 DEF Content
<1>4. PICK new \in Additions(turn.of) :
         LET all == store.objs[o].messages \o new
         IN  /\ archived' = archived \cup CapArchive(all, store.objs[o].cursor, world.cap)
             /\ Wrote(store, store', o, Retained(all, world.cap),
                      RetainedCursor(all, store.objs[o].cursor, world.cap))
  BY <1>0, SaveTurnEffect
<1> DEFINE all == F.messages \o new
           ms == Retained(all, max)
           c == RetainedCursor(all, F.cursor, max)
           d == Dropped(all, max)
<1>5. archived' = archived \cup CapArchive(all, F.cursor, max) /\ Wrote(store, store', o, ms, c)
  BY <1>3, <1>4
<1>6. new \in Texts /\ Len(new) \in 1 .. 3
  <2>1. turn.of \in Nat
    BY <1>0 DEF TurnOK, TurnRecords
  <2> QED
    BY <2>1, AdditionIs
<1>7. /\ all \in Texts /\ Len(all) = Len(F.messages) + Len(new) /\ Len(all) \in Nat
      /\ Elems(all) = Elems(F.messages) \cup Elems(new)
      /\ \A i \in 1 .. Len(F.messages) : all[i] = F.messages[i]
  BY <1>0, <1>6, JoinedIs
<1> HIDE DEF all
<1>8. Users(all) # {} /\ Greatest(Users(all)) \in Nat /\ Greatest(Users(all)) >= Len(F.messages)
  <2>1. Len(F.messages) \in 1 .. Len(all) /\ all[Len(F.messages)].role = "user"
    BY <1>0, <1>1, <1>6, <1>7
  <2>2. Len(F.messages) \in Users(all) /\ Users(all) \subseteq 0 .. Len(all)
    BY <1>7, <2>1, UsersAre
  <2>3. Greatest(Users(all)) \in Users(all) /\ Len(F.messages) <= Greatest(Users(all))
    BY <1>7, <2>2, GreatestIs
  <2>4. Greatest(Users(all)) \in 0 .. Len(all)
    BY <2>2, <2>3
  <2> QED
    BY <1>0, <1>7, <2>2, <2>3, <2>4
<1>9. /\ d \in 0 .. Len(all)
      /\ ms = After(d, all) \/ d >= Greatest(Users(all))
      /\ Covered(all, ms, d, max)
  BY <1>0, <1>7, RetainedCovers
<1>10. /\ c = (IF d < F.cursor THEN F.cursor - d ELSE 0)
       /\ \A i \in F.cursor + 1 .. d : all[i] \in CapArchive(all, F.cursor, max)
  <2> DEFINE e == F.cursor
  <2>1. e \in Nat
    BY <1>0
  <2> HIDE DEF e
  <2>2. /\ RetainedCursor(all, e, max) = (IF Dropped(all, max) < e THEN e - Dropped(all, max) ELSE 0)
        /\ \A i \in e + 1 .. Dropped(all, max) : all[i] \in CapArchive(all, e, max)
    BY <1>0, <1>7, <2>1, CappedIs
  <2> QED
    BY <2>2 DEF e
<1> HIDE DEF d, c, ms, o
<1>13. CacheInv(store') /\ store'.file = [messages |-> ms, cursor |-> c]
  BY <1>0, <1>1, <1>2, <1>5, CacheWrote
<1>14. store'.file.messages = ms /\ store'.file.cursor = c
  BY <1>13
<1>15. \A i \in 1 .. F.cursor : all[i] \in archived
  <2>1. \A i \in 1 .. F.cursor : F.messages[i] \in archived
    BY <1>0 DEF FileInv
  <2>2. Len(F.messages) \in Nat /\ \A i \in 1 .. F.cursor : i \in 1 .. Len(F.messages)
    BY <1>0, <1>6
  <2> QED
    BY <1>7, <2>1, <2>2
<1>16. ASSUME NEW i \in 1 .. c PROVE ms[i] \in archived'
  <2>1. d < F.cursor /\ c = F.cursor - d
    BY <1>10, <1>16
  <2>2. d + i \in 1 .. F.cursor /\ i \in 1 .. Len(all) - d
    <3> DEFINE e == F.cursor
               l == Len(all)
    <3>1. e \in Nat /\ l \in Nat /\ d \in Nat /\ e <= l /\ d < e /\ c = e - d /\ i \in 1 .. c
      BY <1>0, <1>7, <1>9, <2>1
    <3> HIDE DEF e, l
    <3>2. d + i \in 1 .. e /\ i \in 1 .. l - d
      BY <3>1
    <3> QED
      BY <3>2 DEF e, l
  <2>3. ms[i] = all[d + i]
    <3>1. F.cursor \in Nat /\ F.cursor <= Len(F.messages) /\ d \in Nat /\ Len(F.messages) \in Nat
      BY <1>0, <1>9
    <3> DEFINE g == Greatest(Users(all))
    <3>2. ~(d >= g)
      <4>1. g \in Nat /\ g >= Len(F.messages) /\ d < F.cursor
        BY <1>8, <2>1
      <4> HIDE DEF g
      <4> QED
        BY <3>1, <4>1
    <3>3. ms = After(d, all)
      BY <1>9, <3>2
    <3> HIDE DEF g
    <3> QED
      BY <1>7, <1>9, <2>2, <3>3, AfterIs DEF Texts
  <2> QED
    BY <1>5, <1>15, <2>2, <2>3
<1>17. FileInv(store'.file, archived')
  BY <1>14, <1>16 DEF FileInv
<1>18. ASSUME NEW i \in DOMAIN F.messages
       PROVE  F.messages[i] \in archived' \cup Elems(ms)
  <2>0. i \in 1 .. Len(F.messages)
    BY <1>0 DEF Texts
  <2>1. i \in 1 .. Len(F.messages) /\ all[i] = F.messages[i]
    BY <1>7, <2>0
  <2>2. CASE i <= F.cursor
    <3>1. i \in 1 .. F.cursor
      BY <1>0, <2>1, <2>2
    <3> QED
      BY <1>5, <1>15, <2>1, <3>1
  <2>3. CASE i > F.cursor /\ i <= d
    <3>1. i \in F.cursor + 1 .. d
      BY <1>0, <1>9, <2>1, <2>3
    <3> QED
      BY <1>5, <1>10, <2>1, <3>1
  <2>4. CASE i > d
    <3>1. i \in 1 .. Len(all)
      BY <1>0, <1>6, <1>7, <2>1
    <3> DEFINE g == Greatest(Users(all))
    <3>2. ~(i <= d) /\ ~(i >= g + max)
      <4>1. g \in Nat /\ g >= Len(F.messages) /\ d \in Nat /\ max \in Nat /\ max > 0
            /\ Len(F.messages) \in Nat /\ i \in Nat /\ i <= Len(F.messages) /\ i > d
        BY <1>0, <1>8, <1>9, <2>1, <2>4
      <4> QED
        BY ONLY <4>1
    <3>4. ~Beyond(all, max, i)
      BY <3>2 DEF Beyond
    <3>3. all[i] \in Elems(ms)
      BY <1>9, <3>1, <3>2, <3>4 DEF Covered
    <3> QED
      BY <2>1, <3>3
  <2> QED
    BY <1>0, <1>9, <2>1, <2>2, <2>3, <2>4
<1>19. Kept
  BY <1>14, <1>18 DEF Kept, Elems
<1>20. \A p \in Jobs : job'[p].step # "archive"
  <2>1. \A p \in Jobs : job[p] = NoJob
    BY <1>0, <1>1, AtRest
  <2> QED
    BY <1>1, <2>1 DEF LockWait, NoJob
<1>21. Span' = n
  BY DEF Span, SaveTurn
<1>22. turn'.step # "run"
  BY <1>1 DEF NoTurn
<1> QED
  BY <1>13, <1>17, <1>19, <1>20, <1>21, <1>22 DEF QuietInv, WorkInv

\* A step of a quiet world.
LEMMA QuietStep ==
    ASSUME IInv, QuietInv, Quiet, [Next]_vars
    PROVE  QuietInv' /\ Kept
<1>1. ASSUME Deliver \/ NewSession \/ Rewind \/ Delete \/ Evict PROVE FALSE
  BY <1>1 DEF Quiet, Deliver, NewSession, Rewind, Delete, Evict
<1>2. CASE UNCHANGED vars
  <2>1. Span' = Span
    BY <1>2 DEF vars, Span
  <2> QED
    BY <1>2, <2>1 DEF vars, QuietInv, Kept
<1>3. CASE JobStep
  <2>1. ASSUME NEW p \in Jobs, ArchiveRaises(p) PROVE QuietInv' /\ Kept
    BY <2>1, QuietArchiveRaises
  <2>2. ASSUME NEW p \in Jobs, Resume(p) PROVE QuietInv' /\ Kept
    BY <2>2, QuietResume
  <2>3. ASSUME NEW p \in Jobs, EndRound(p) PROVE QuietInv' /\ Kept
    BY <2>3, QuietEndRound
  <2>4. CASE EndIdle
    BY <2>4, QuietEndIdle
  <2> QED
    BY <1>3, <2>1, <2>2, <2>3, <2>4 DEF JobStep
<1>4. CASE Expire
  BY <1>4, QuietExpire
<1>5. CASE StartTurn
  BY <1>5, QuietStartTurn
<1>6. CASE PersistUser
  BY <1>6, QuietPersistUser
<1>7. CASE EmitCheckpoint
  BY <1>7, QuietEmitCheckpoint
<1>8. CASE SaveTurn
  BY <1>8, QuietSaveTurn
<1>9. CASE AbandonTurn
  BY <1>9, QuietAbandonTurn
<1> QED
  BY <1>1, <1>2, <1>3, <1>4, <1>5, <1>6, <1>7, <1>8, <1>9 DEF Next

\* The invariant, with what holds in the quiet worlds only.
QInv == IInv /\ (Quiet => QuietInv)

\* A step of a quiet world takes out of the file only what is in the history, and
\* what a compaction finds beyond.
KeptStep ==
    world.events \subseteq {"tools"} =>
        Elems(store.file.messages) \ Elems(store'.file.messages)
           \subseteq archived' \cup (IF job["idle"].step = "archive"
                                       THEN LongEnd(store.file.messages) ELSE {})

LEMMA InitQInv == Init => QInv
<1> SUFFICES ASSUME Init, Quiet PROVE QuietInv
  BY InitIInv DEF QInv
<1>1. CacheInv(store)
  BY DEF Init, CacheInv
<1>2. store.file.messages = <<>> /\ store.file.cursor = 0
  BY DEF Init, NoFile
<1>5. FileInv(store.file, archived)
  BY <1>2 DEF FileInv
<1>6. \A p \in Jobs : job[p].step # "archive"
  BY DEF Init, NoJob
<1>7. turn.step # "run"
  BY DEF Init, NoTurn
<1> QED
  BY <1>1, <1>5, <1>6, <1>7 DEF QuietInv, WorkInv

LEMMA NextQInv ==
    ASSUME QInv, [Next]_vars
    PROVE  QInv' /\ KeptStep
<1>1. IInv'
  BY NextIInv DEF QInv
<1>2. world' = world
  BY DEF QInv, Next, vars, JobStep, ArchiveRaises, Resume, EndRound, EndIdle, Expire, ExpireActive,
         StartTurn, PersistUser, EmitCheckpoint, SaveTurn, AbandonTurn, Deliver, NewSession, Rewind,
         Delete, Evict
<1>4. Quiet => QuietInv' /\ Kept
  BY QuietStep DEF QInv
<1> QED
  BY <1>1, <1>2, <1>4 DEF QInv, Quiet, KeptStep, Kept, Excess

\* In the worlds where turns, consolidations and compactions are all that happens,
\* a message leaves the file of a session only when it is in the history, or in a
\* compaction as the end of a latest turn longer than the kept suffix: for any cap
\* and any suffix, however long a turn is, any replay window, any number of turns,
\* cancelled and failed ones too (memory/consolidator.py, agent/autocompact.py,
\* session/manager.py retain_recent_legal_suffix, enforce_file_cap).
THEOREM SavedKeptHolds == Spec => SavedKept
<1>1. QInv /\ [Next]_vars => QInv'
  BY NextQInv
<1>2. QInv /\ [Next]_vars => [KeptStep]_vars
  BY NextQInv
<1>3. Spec => [][KeptStep]_vars
  BY <1>1, <1>2, InitQInv, PTL DEF Spec
<1> QED
  BY <1>3 DEF SavedKept, KeptStep
=============================================================================
