--------------------------- MODULE DeliveryProofs ---------------------------
(***************************************************************************)
(* The way of an answer to its client, for any turns, chats and texts,     *)
(* every size of the outbound queue and every number of attempts: a client *)
(* sees a turn's text in order, and text again only where a send raised,   *)
(* every piece is in one place, and nothing but a repetition is kept from  *)
(* a client.                                                               *)
(***************************************************************************)
EXTENDS Delivery, FiniteSetTheorems, WellFoundedInduction, TLAPS

-----------------------------------------------------------------------------
(***************************************************************************)
(* Messages and frames.  The numbers of segments (s) and of pieces (n) and *)
(* the turns (tn) are parameters, so that the facts hold of both states of *)
(* a step.                                                                 *)
(***************************************************************************)
Kinds == {"delta", "end", "final", "streamed"}
Lasts == {"final", "streamed"}
Ids(s) == Turns \X (0 .. s)
Pieces(s, n) == [of : Turns \X (1 .. s), nr : 1 .. n]
Says == Texts \cup {NoMsg}
MsgType(s, n) == [kind : Kinds, turn : Turns, id : Ids(s), text : Seq(Pieces(s, n)), says : Says]

\* A message: only a delta has text, all of its turn's chat; the others carry
\* their turn in their stream id.
MsgOK(s, n, m) ==
    /\ m \in MsgType(s, n)
    /\ m.kind = "delta" <=> Len(m.text) > 0
    /\ m.kind # "delta" => m.id[1] = m.turn
    /\ \A i \in 1 .. Len(m.text) : ChatOf[m.text[i].of[1]] = ChatOf[m.turn]

FrameOK(s, n, f) ==
    /\ f \in [kind : Kinds, id : Ids(s), piece : Pieces(s, n) \cup Says]
    /\ f.kind = "delta" => f.piece \in Pieces(s, n)

\* The turn, the segment and the place in it of a frame.
Trn(f) == IF f.kind = "delta" THEN f.piece.of[1] ELSE f.id[1]
Seg(f) == IF f.kind = "delta" THEN f.piece.of[2] ELSE f.id[2]
Nr(n, f) == IF f.kind = "delta" THEN f.piece.nr ELSE n + 1

LEMMA FrameTypes ==
    ASSUME NEW s \in Nat, NEW n \in Nat, NEW f, FrameOK(s, n, f)
    PROVE  /\ f.kind \in Kinds /\ Trn(f) \in Turns /\ Seg(f) \in 0 .. s /\ Nr(n, f) \in 1 .. n + 1
           /\ f.kind = "delta" => Seg(f) \in 1 .. s /\ Nr(n, f) \in 1 .. n
<1>1. f.kind \in Kinds /\ f.id \in Ids(s)
  BY DEF FrameOK
<1>2. f.id[1] \in Turns /\ f.id[2] \in 0 .. s
  BY <1>1 DEF Ids
<1>3. ASSUME f.kind = "delta"
      PROVE  f.piece.of[1] \in Turns /\ f.piece.of[2] \in 1 .. s /\ f.piece.nr \in 1 .. n
  <2>1. f.piece \in Pieces(s, n)
    BY <1>3 DEF FrameOK
  <2>2. f.piece.of \in Turns \X (1 .. s) /\ f.piece.nr \in 1 .. n
    BY <2>1 DEF Pieces
  <2> QED
    BY <2>2
<1> QED
  BY <1>1, <1>2, <1>3 DEF Trn, Seg, Nr

\* f may come before g.
Ord(n, f, g) ==
    Trn(f) = Trn(g) =>
        /\ f.kind \notin Lasts
        /\ \/ g.kind \in Lasts \/ Seg(f) < Seg(g)
           \/ Seg(f) = Seg(g) /\ Nr(n, f) < Nr(n, g)

\* The same to an order: a merged delta has the stream id of another.
Like(f, g) ==
    f.kind = g.kind /\ IF f.kind = "delta" THEN f.piece = g.piece ELSE f.id = g.id

LEMMA LikeOrd ==
    ASSUME NEW n, NEW f, NEW g, Like(f, g)
    PROVE  /\ f.kind = g.kind /\ Trn(f) = Trn(g) /\ Seg(f) = Seg(g) /\ Nr(n, f) = Nr(n, g)
  BY DEF Like, Trn, Seg, Nr

\* The turns: what a turn has not come to yet, it has no pieces of.
TurnsOK(s, n, tn) ==
    /\ tn \in [Turns -> [at : {"work", "answer", "done"}, seg : 1 .. s, seen : BOOLEAN,
                         made : [1 .. s -> 0 .. n]]]
    /\ \A t \in Turns, g \in 1 .. s : g > tn[t].seg => tn[t].made[g] = 0

\* The frame is one the turn has made.
Past(n, tn, f) ==
    /\ f.kind = "delta" => Nr(n, f) <= tn[Trn(f)].made[Seg(f)]
    /\ f.kind = "end" => Seg(f) < tn[Trn(f)].seg \/ tn[Trn(f)].at # "work"
    /\ f.kind \in Lasts => tn[Trn(f)].at = "done"

LEMMA TurnTypes ==
    ASSUME NEW s \in Nat, NEW n \in Nat, NEW tn, TurnsOK(s, n, tn), NEW t \in Turns
    PROVE  /\ tn[t].at \in {"work", "answer", "done"} /\ tn[t].seg \in 1 .. s
           /\ \A g \in 1 .. s : tn[t].made[g] \in 0 .. n /\ (g > tn[t].seg => tn[t].made[g] = 0)
<1>1. tn[t] \in [at : {"work", "answer", "done"}, seg : 1 .. s, seen : BOOLEAN,
                 made : [1 .. s -> 0 .. n]]
  BY DEF TurnsOK
<1> QED
  BY <1>1 DEF TurnsOK

\* A delta of a segment's next piece comes after all the turn has made.
LEMMA NextDelta ==
    ASSUME NEW s \in Nat, NEW n \in Nat, NEW tn, TurnsOK(s, n, tn),
           NEW f, FrameOK(s, n, f), Past(n, tn, f),
           NEW g, g.kind = "delta", Trn(g) \in Turns, tn[Trn(g)].at = "work",
           Seg(g) = tn[Trn(g)].seg, Nr(n, g) = tn[Trn(g)].made[Seg(g)] + 1
    PROVE  Ord(n, f, g)
<1> SUFFICES ASSUME Trn(f) = Trn(g)
             PROVE  f.kind \notin Lasts /\ (Seg(f) < Seg(g) \/ (Seg(f) = Seg(g) /\ Nr(n, f) < Nr(n, g)))
  BY DEF Ord
<1>1. PICK t \in Turns : t = Trn(f)
  BY FrameTypes
<1>2. f.kind \notin Lasts
  BY DEF Past, Lasts
<1>3. /\ f.kind \in Kinds /\ Seg(f) \in 0 .. s /\ Nr(n, f) \in 1 .. n + 1
      /\ f.kind = "delta" => Seg(f) \in 1 .. s /\ Nr(n, f) \in 1 .. n
  BY FrameTypes
<1>4. /\ tn[t].seg \in 1 .. s
      /\ \A h \in 1 .. s : tn[t].made[h] \in 0 .. n /\ (h > tn[t].seg => tn[t].made[h] = 0)
  <2>1. tn[t] \in [at : {"work", "answer", "done"}, seg : 1 .. s, seen : BOOLEAN,
                   made : [1 .. s -> 0 .. n]]
    BY ONLY TurnsOK(s, n, tn), t \in Turns DEF TurnsOK
  <2>2. tn[t].seg \in 1 .. s /\ tn[t].made \in [1 .. s -> 0 .. n]
    BY ONLY <2>1
  <2>3. \A h \in 1 .. s : tn[t].made[h] \in 0 .. n
    BY ONLY <2>2
  <2>4. \A h \in 1 .. s : h > tn[t].seg => tn[t].made[h] = 0
    BY ONLY TurnsOK(s, n, tn), t \in Turns DEF TurnsOK
  <2> QED
    BY <2>2, <2>3, <2>4
<1>5. CASE f.kind = "delta"
  <2>1. Nr(n, f) <= tn[t].made[Seg(f)] /\ Nr(n, f) >= 1 /\ Seg(f) \in 1 .. s
    BY <1>1, <1>3, <1>5 DEF Past
  <2>2. ~(Seg(f) > tn[t].seg)
    <3>1. PICK h \in 1 .. s : h = Seg(f)
      BY ONLY <2>1
    <3>2. tn[t].made[h] \in 0 .. n /\ (h > tn[t].seg => tn[t].made[h] = 0)
      BY <1>4
    <3>3. Nr(n, f) <= tn[t].made[h] /\ Nr(n, f) >= 1
      BY <2>1, <3>1
    <3>4. Nr(n, f) \in Nat
      BY <1>3
    <3> QED
      BY <3>1, <3>2, <3>3, <3>4
  <2>3. Seg(g) = tn[t].seg /\ Nr(n, g) = tn[t].made[tn[t].seg] + 1
    BY <1>1
  <2>4. CASE Seg(f) = tn[t].seg
    <3>1. tn[t].made[tn[t].seg] \in 0 .. n /\ Nr(n, f) <= tn[t].made[tn[t].seg]
      BY <1>4, <2>1, <2>4
    <3> QED
      BY <1>2, <1>3, <2>3, <2>4, <3>1
  <2>5. CASE Seg(f) # tn[t].seg
    BY <1>2, <1>3, <1>4, <2>2, <2>3, <2>5
  <2> QED
    BY <2>4, <2>5
<1>6. CASE f.kind = "end"
  BY <1>1, <1>2, <1>6 DEF Past
<1> QED
  BY <1>2, <1>3, <1>5, <1>6 DEF Kinds, Lasts

\* The end of a segment comes after all the turn has made.
LEMMA NextEnd ==
    ASSUME NEW s \in Nat, NEW n \in Nat, NEW tn, TurnsOK(s, n, tn),
           NEW f, FrameOK(s, n, f), Past(n, tn, f),
           NEW g, g.kind = "end", Trn(g) \in Turns, tn[Trn(g)].at = "work",
           Seg(g) = tn[Trn(g)].seg, Nr(n, g) = n + 1
    PROVE  Ord(n, f, g)
<1> SUFFICES ASSUME Trn(f) = Trn(g)
             PROVE  f.kind \notin Lasts /\ (Seg(f) < Seg(g) \/ (Seg(f) = Seg(g) /\ Nr(n, f) < Nr(n, g)))
  BY DEF Ord
<1>1. PICK t \in Turns : t = Trn(f)
  BY FrameTypes
<1>2. f.kind \notin Lasts
  BY DEF Past, Lasts
<1>3. /\ f.kind \in Kinds /\ Seg(f) \in 0 .. s
      /\ f.kind = "delta" => Seg(f) \in 1 .. s /\ Nr(n, f) \in 1 .. n
  BY FrameTypes
<1>4. /\ tn[t].seg \in 1 .. s
      /\ \A h \in 1 .. s : tn[t].made[h] \in 0 .. n /\ (h > tn[t].seg => tn[t].made[h] = 0)
  BY TurnTypes
<1>5. CASE f.kind = "delta"
  <2>1. Nr(n, f) <= tn[t].made[Seg(f)] /\ Nr(n, f) \in 1 .. n /\ Seg(f) \in 1 .. s
    BY <1>1, <1>3, <1>5 DEF Past
  <2>2. ~(Seg(f) > tn[t].seg)
    <3>1. PICK h \in 1 .. s : h = Seg(f)
      BY <2>1
    <3>2. tn[t].made[h] \in 0 .. n /\ (h > tn[t].seg => tn[t].made[h] = 0)
      BY <1>4
    <3>3. Nr(n, f) <= tn[t].made[h] /\ Nr(n, f) >= 1
      BY <2>1, <3>1
    <3>4. Nr(n, f) \in Nat
      BY <1>3, <2>1
    <3> QED
      BY <3>1, <3>2, <3>3, <3>4
  <2>3. Seg(g) = tn[t].seg
    BY <1>1
  <2> QED
    BY <1>2, <1>4, <2>1, <2>2, <2>3
<1>6. CASE f.kind = "end"
  BY <1>1, <1>2, <1>6 DEF Past
<1> QED
  BY <1>2, <1>3, <1>5, <1>6 DEF Kinds, Lasts

\* The final message comes after all of a turn that is not done.
LEMMA NextLast ==
    ASSUME NEW n, NEW tn, NEW f, Past(n, tn, f),
           NEW g, g.kind \in Lasts, tn[Trn(g)].at # "done"
    PROVE  Ord(n, f, g)
  BY DEF Ord, Past

-----------------------------------------------------------------------------
(***************************************************************************)
(* The pipeline: what clients were shown, the message being sent, and what *)
(* waits, each in order and before the next.                               *)
(***************************************************************************)
\* The first frame of a message, the only one of a message that waits.
First(m) == [kind |-> m.kind, id |-> m.id,
             piece |-> IF m.kind = "delta" THEN m.text[1] ELSE m.says]

Single(m) == m.kind = "delta" => Len(m.text) = 1

Sorted(n, q) == \A i, j \in 1 .. Len(q) : i < j => Ord(n, q[i], q[j])

\* What waits is as the turns made it.
WaitOK(s, n, tn, w) ==
    /\ w \in Seq(MsgType(s, n))
    /\ \A k \in 1 .. Len(w) : MsgOK(s, n, w[k]) /\ Single(w[k]) /\ Past(n, tn, First(w[k]))
    /\ \A k, l \in 1 .. Len(w) : k < l => Ord(n, First(w[k]), First(w[l]))

\* Frames made by the turns, before all that waits.
FlowOK(s, n, tn, w, q) ==
    \A i \in 1 .. Len(q) :
        /\ FrameOK(s, n, q[i]) /\ Past(n, tn, q[i])
        /\ \A k \in 1 .. Len(w) : Ord(n, q[i], First(w[k]))

\* A frame of a message; two of one message a send of which raised.
IsOf(f, m) == \E j \in 1 .. Len(Frames(m)) : f = Frames(m)[j]
Twice(fl, f, g) == \E m \in fl : IsOf(f, m) /\ IsOf(g, m)

\* What a client was shown: in order, but for messages sent again.
Repeating(n, fl, q) ==
    \A i, j \in 1 .. Len(q) : i < j => Ord(n, q[i], q[j]) \/ Twice(fl, q[i], q[j])

\* The frame, shown to client k, is before all of the message being sent, or of
\* this message: a send of it raised, or the attempt at work is past the client.
Passed(n, cr, fl, td, k, f) ==
    \/ \A j \in 1 .. Len(Frames(cr)) : Ord(n, f, Frames(cr)[j])
    \/ IsOf(f, cr) /\ (cr \in fl \/ (td # {} /\ k \notin td))

\* A function on the first numbers is a sequence.
LEMMA FunSeq ==
    ASSUME NEW k \in Nat, NEW z, NEW x, \A i \in 1 .. k : x[i] \in z, x = [i \in 1 .. k |-> x[i]]
    PROVE  x \in Seq(z) /\ Len(x) = k
<1>1. x \in [1 .. k -> z]
  OBVIOUS
<1> QED
  BY <1>1

\* A message being sent has frames.
LEMMA FramesOf ==
    ASSUME NEW s \in Nat, NEW n \in Nat, NEW m, MsgOK(s, n, m)
    PROVE  /\ m # NoMsg
           /\ \E z : Frames(m) \in Seq(z)
           /\ m.kind = "delta" =>
                /\ Len(Frames(m)) = Len(m.text)
                /\ \A i \in 1 .. Len(m.text) :
                      Frames(m)[i] = [kind |-> "delta", id |-> m.id, piece |-> m.text[i]]
           /\ m.kind # "delta" => Len(Frames(m)) = 1 /\ Frames(m)[1] = First(m)
           /\ Len(Frames(m)) > 0
           /\ \A i \in 1 .. Len(Frames(m)) : FrameOK(s, n, Frames(m)[i])
<1>1. m.kind \in Kinds /\ m.id \in Ids(s) /\ m.text \in Seq(Pieces(s, n)) /\ m.says \in Says
  BY DEF MsgOK, MsgType
<1>2. m # NoMsg
  BY <1>1 DEF NoMsg, Kinds
<1>3. m.kind = "delta" <=> Len(m.text) > 0
  BY DEF MsgOK
<1> DEFINE Z == [kind : Kinds, id : Ids(s), piece : Pieces(s, n) \cup Says]
<1>4. PICK q : q = Frames(m)
  OBVIOUS
<1>5. CASE m.kind = "delta"
  <2>1. q = [i \in 1 .. Len(m.text) |-> [kind |-> "delta", id |-> m.id, piece |-> m.text[i]]]
    BY ONLY <1>4, <1>5 DEF Frames
  <2>2. Len(m.text) \in Nat /\ \A i \in 1 .. Len(m.text) : m.text[i] \in Pieces(s, n)
    BY <1>1
  <2>3. \A i \in 1 .. Len(m.text) :
          /\ [kind |-> "delta", id |-> m.id, piece |-> m.text[i]] \in Z
          /\ FrameOK(s, n, [kind |-> "delta", id |-> m.id, piece |-> m.text[i]])
    BY <1>1, <2>2 DEF FrameOK, Kinds
  <2>4. PICK k : k = Len(m.text)
    OBVIOUS
  <2>5. k \in Nat /\ k > 0 /\ \A i \in 1 .. k : q[i] = [kind |-> "delta", id |-> m.id, piece |-> m.text[i]]
    BY <1>3, <1>5, <2>1, <2>2, <2>4
  <2>6. q \in Seq(Z) /\ Len(q) = k
    <3>1. PICK z : z = Z
      OBVIOUS
    <3>2. \A i \in 1 .. k : q[i] \in z
      BY <2>3, <2>4, <2>5, <3>1
    <3>3. q = [i \in 1 .. k |-> q[i]]
      BY <2>1, <2>4
    <3>4. k \in Nat
      BY <2>5
    <3>5. q \in Seq(z) /\ Len(q) = k
      BY <3>2, <3>3, <3>4, FunSeq
    <3> QED
      BY <3>1, <3>5
  <2>7. \A i \in 1 .. k : FrameOK(s, n, q[i])
    BY <2>3, <2>4, <2>5
  <2>8. \E z : q \in Seq(z)
    BY <2>6
  <2>9. Len(q) = k /\ k > 0
    BY <2>5, <2>6
  <2> QED
    BY <1>2, <1>4, <1>5, <2>4, <2>5, <2>7, <2>8, <2>9
<1>6. CASE m.kind # "delta"
  <2>1. PICK f : f = First(m)
    OBVIOUS
  <2>2. f = [kind |-> m.kind, id |-> m.id, piece |-> m.says]
    BY <1>6, <2>1 DEF First
  <2>3. q = <<f>>
    BY <1>4, <1>6, <2>2 DEF Frames
  <2>4. FrameOK(s, n, f) /\ f \in Z
    BY <1>1, <1>6, <2>2 DEF FrameOK
  <2>5. q \in Seq({f}) /\ Len(q) = 1 /\ q[1] = f
    BY <2>3
  <2>6. \E z : q \in Seq(z)
    BY <2>5
  <2>7. \A i \in 1 .. Len(q) : FrameOK(s, n, q[i])
    BY <2>4, <2>5
  <2> QED
    BY <1>2, <1>4, <1>6, <2>1, <2>5, <2>6, <2>7
<1> QED
  BY <1>5, <1>6

\* The first frame of a message that waits is the frame it is sent as.
LEMMA FirstOK ==
    ASSUME NEW s \in Nat, NEW n \in Nat, NEW m, MsgOK(s, n, m)
    PROVE  FrameOK(s, n, First(m)) /\ First(m) = Frames(m)[1] /\ First(m).kind = m.kind
<1>1. CASE m.kind = "delta"
  <2>1. 1 \in 1 .. Len(m.text)
    <3>1. m.text \in Seq(Pieces(s, n)) /\ Len(m.text) > 0
      BY <1>1 DEF MsgOK, MsgType
    <3> QED
      BY <3>1
  <2>2. /\ Frames(m)[1] = [kind |-> "delta", id |-> m.id, piece |-> m.text[1]]
        /\ Len(Frames(m)) = Len(m.text) /\ FrameOK(s, n, Frames(m)[1])
    BY <1>1, <2>1, FramesOf
  <2>3. First(m) = [kind |-> "delta", id |-> m.id, piece |-> m.text[1]]
    BY <1>1 DEF First
  <2> QED
    BY <1>1, <2>2, <2>3
<1>2. CASE m.kind # "delta"
  <2>1. Len(Frames(m)) = 1 /\ Frames(m)[1] = First(m)
    BY <1>2, FramesOf
  <2>2. \A i \in 1 .. Len(Frames(m)) : FrameOK(s, n, Frames(m)[i])
    BY FramesOf
  <2>3. FrameOK(s, n, Frames(m)[1])
    BY <2>1, <2>2
  <2> QED
    BY <2>1, <2>3 DEF First
<1> QED
  BY <1>1, <1>2

\* A sequence of frames after what a client was shown, whatever is repeated.
LEMMA RepeatingConcat ==
    ASSUME NEW n, NEW fl, NEW z, NEW p \in Seq(z), NEW q \in Seq(z), Repeating(n, fl, p), Sorted(n, q),
           \A i \in 1 .. Len(p), j \in 1 .. Len(q) : Ord(n, p[i], q[j]) \/ Twice(fl, p[i], q[j])
    PROVE  Repeating(n, fl, p \o q)
<1>1. PICK r : r = p \o q
  OBVIOUS
<1>2. /\ Len(r) = Len(p) + Len(q) /\ Len(p) \in Nat /\ Len(q) \in Nat
      /\ \A k \in 1 .. Len(r) : r[k] = IF k <= Len(p) THEN p[k] ELSE q[k - Len(p)]
  BY <1>1
<1> SUFFICES ASSUME NEW i \in 1 .. Len(r), NEW j \in 1 .. Len(r), i < j
             PROVE  Ord(n, r[i], r[j]) \/ Twice(fl, r[i], r[j])
  BY <1>1 DEF Repeating
<1>3. CASE i <= Len(p) /\ j <= Len(p)
  <2>1. i \in 1 .. Len(p) /\ j \in 1 .. Len(p) /\ r[i] = p[i] /\ r[j] = p[j]
    BY <1>2, <1>3
  <2> QED
    BY <2>1 DEF Repeating
<1>4. CASE i <= Len(p) /\ j > Len(p)
  <2>1. r[i] = p[i] /\ r[j] = q[j - Len(p)] /\ i \in 1 .. Len(p) /\ j - Len(p) \in 1 .. Len(q)
    BY <1>2, <1>4
  <2> QED
    BY <2>1
<1>5. CASE i > Len(p) /\ j > Len(p)
  <2>1. /\ r[i] = q[i - Len(p)] /\ r[j] = q[j - Len(p)]
        /\ i - Len(p) \in 1 .. Len(q) /\ j - Len(p) \in 1 .. Len(q) /\ i - Len(p) < j - Len(p)
    BY <1>2, <1>5
  <2> QED
    BY <2>1 DEF Sorted
<1> QED
  BY <1>2, <1>3, <1>4, <1>5

(***************************************************************************)
(* The steps of the pipeline.                                              *)
(***************************************************************************)
\* The invariant of the pipeline: cr is the message being sent, to the clients
\* of td by the attempt at work; each client was shown wr; sends of fl raised.
Flow(s, n, tn, w, cr, wr, fl, td) ==
    /\ TurnsOK(s, n, tn)
    /\ WaitOK(s, n, tn, w)
    /\ cr # NoMsg => /\ MsgOK(s, n, cr) /\ FlowOK(s, n, tn, w, Frames(cr))
                     /\ Sorted(n, Frames(cr))
    /\ \A k \in Clients :
          /\ \E z : wr[k] \in Seq(z)
          /\ FlowOK(s, n, tn, w, wr[k]) /\ Repeating(n, fl, wr[k])
          /\ cr # NoMsg => \A i \in 1 .. Len(wr[k]) : Passed(n, cr, fl, td, k, wr[k][i])

\* A turn goes on.
Onward(n, s, tn, un) ==
    \A f : FrameOK(s, n, f) /\ Past(n, tn, f) => Past(n, un, f)

LEMMA WaitOnward ==
    ASSUME NEW s \in Nat, NEW n \in Nat, NEW tn, NEW un, Onward(n, s, tn, un),
           NEW w, WaitOK(s, n, tn, w)
    PROVE  WaitOK(s, n, un, w)
<1>1. \A k \in 1 .. Len(w) : FrameOK(s, n, First(w[k]))
  BY FirstOK DEF WaitOK
<1>2. \A k \in 1 .. Len(w) : Past(n, un, First(w[k]))
  BY <1>1 DEF WaitOK, Onward
<1> QED
  BY <1>2 DEF WaitOK

\* A turn publishes m, after all it has made.
LEMMA FlowPublish ==
    ASSUME NEW s \in Nat, NEW n \in Nat, NEW tn, NEW un, NEW w, NEW cr, NEW wr, NEW fl, NEW td,
           Flow(s, n, tn, w, cr, wr, fl, td), TurnsOK(s, n, un), Onward(n, s, tn, un),
           NEW m, MsgOK(s, n, m), Single(m), Past(n, un, First(m)),
           \A f : FrameOK(s, n, f) /\ Past(n, tn, f) => Ord(n, f, First(m))
    PROVE  Flow(s, n, un, Append(w, m), cr, wr, fl, td)
<1>0. w \in Seq(MsgType(s, n)) /\ m \in MsgType(s, n) /\ WaitOK(s, n, tn, w)
  BY DEF Flow, WaitOK, MsgOK
<1>1. PICK v : v = Append(w, m)
  OBVIOUS
<1>2. /\ v \in Seq(MsgType(s, n)) /\ Len(v) = Len(w) + 1 /\ Len(w) \in Nat
      /\ v[Len(w) + 1] = m
      /\ \A k \in 1 .. Len(w) : v[k] = w[k]
  BY <1>0, <1>1
<1>3. \A k \in 1 .. Len(v) : k \in 1 .. Len(w) \/ k = Len(w) + 1
  BY <1>2
<1>4. WaitOK(s, n, un, w)
  BY <1>0, WaitOnward
<1>5. WaitOK(s, n, un, v)
  <2>1. \A k \in 1 .. Len(v) : MsgOK(s, n, v[k]) /\ Single(v[k]) /\ Past(n, un, First(v[k]))
    BY <1>2, <1>3, <1>4 DEF WaitOK
  <2>2. ASSUME NEW k \in 1 .. Len(v), NEW l \in 1 .. Len(v), k < l
        PROVE  Ord(n, First(v[k]), First(v[l]))
    <3>1. k \in 1 .. Len(w) /\ v[k] = w[k]
      BY <1>2, <1>3, <2>2
    <3>2. FrameOK(s, n, First(w[k])) /\ Past(n, tn, First(w[k]))
      BY <1>0, <3>1, FirstOK DEF WaitOK
    <3>3. CASE l \in 1 .. Len(w)
      BY <1>0, <1>2, <2>2, <3>1, <3>3 DEF WaitOK
    <3>4. CASE l = Len(w) + 1
      BY <1>2, <3>1, <3>2, <3>4
    <3> QED
      BY <1>3, <3>3, <3>4
  <2> QED
    BY <1>2, <2>1, <2>2 DEF WaitOK
<1>6. ASSUME NEW q, FlowOK(s, n, tn, w, q) PROVE FlowOK(s, n, un, v, q)
  <2>1. ASSUME NEW i \in 1 .. Len(q)
        PROVE  /\ FrameOK(s, n, q[i]) /\ Past(n, un, q[i])
               /\ \A k \in 1 .. Len(v) : Ord(n, q[i], First(v[k]))
    <3>1. /\ FrameOK(s, n, q[i]) /\ Past(n, tn, q[i])
          /\ \A k \in 1 .. Len(w) : Ord(n, q[i], First(w[k]))
      BY <1>6 DEF FlowOK
    <3>2. Past(n, un, q[i]) /\ Ord(n, q[i], First(m))
      BY <3>1 DEF Onward
    <3> QED
      BY <3>1, <3>2, <1>2, <1>3
  <2> QED
    BY <2>1 DEF FlowOK
<1> QED
  BY <1>1, <1>5, <1>6 DEF Flow

\* A turn goes on and publishes nothing.
LEMMA FlowQuiet ==
    ASSUME NEW s \in Nat, NEW n \in Nat, NEW tn, NEW un, NEW w, NEW cr, NEW wr, NEW fl, NEW td,
           Flow(s, n, tn, w, cr, wr, fl, td), TurnsOK(s, n, un), Onward(n, s, tn, un)
    PROVE  Flow(s, n, un, w, cr, wr, fl, td)
<1>1. WaitOK(s, n, un, w)
  BY WaitOnward DEF Flow
<1>2. ASSUME NEW q, FlowOK(s, n, tn, w, q) PROVE FlowOK(s, n, un, w, q)
  BY <1>2 DEF FlowOK, Onward
<1> QED
  BY <1>1, <1>2 DEF Flow

\* The message being sent is out of the dispatcher's hands.
LEMMA FlowDrop ==
    ASSUME NEW s \in Nat, NEW n \in Nat, NEW tn, NEW w, NEW cr, NEW wr, NEW fl, NEW td,
           Flow(s, n, tn, w, cr, wr, fl, td)
    PROVE  Flow(s, n, tn, w, NoMsg, wr, fl, td)
  BY DEF Flow

\* The clients of S are shown the message.
Added(xr, wr, S, q) == xr = [k \in Clients |-> IF k \in S THEN wr[k] \o q ELSE wr[k]]

\* The dispatcher has the message no longer, or what was passed stays so.
Keeps(S, cr, cx, fl, td, fx, tx) ==
    \/ cx = NoMsg
    \/ /\ cx = cr
       /\ \A k \in Clients : k \in S \/ (td # {} /\ k \notin td) => cr \in fx \/ (tx # {} /\ k \notin tx)

LEMMA TwiceGrows ==
    ASSUME NEW fl, NEW fx, fl \subseteq fx
    PROVE  /\ \A f, g : Twice(fl, f, g) => Twice(fx, f, g)
           /\ \A n, q : Repeating(n, fl, q) => Repeating(n, fx, q)
<1>1. \A f, g : Twice(fl, f, g) => Twice(fx, f, g)
  BY DEF Twice
<1> QED
  BY <1>1 DEF Repeating

\* Clients of S, which the attempt at work is not past, are shown the message;
\* others are not; sends of it may raise.
LEMMA FlowShow ==
    ASSUME NEW s \in Nat, NEW n \in Nat, NEW tn, NEW w, NEW cr, NEW wr, NEW fl, NEW td,
           Flow(s, n, tn, w, cr, wr, fl, td), cr # NoMsg,
           NEW S, \A k \in S : td = {} \/ k \in td, NEW xr, Added(xr, wr, S, Frames(cr)),
           NEW fx, fl \subseteq fx, NEW cx, NEW tx, Keeps(S, cr, cx, fl, td, fx, tx)
    PROVE  Flow(s, n, tn, w, cx, xr, fx, tx)
<1>1. PICK q : q = Frames(cr)
  OBVIOUS
<1>2. MsgOK(s, n, cr) /\ FlowOK(s, n, tn, w, q) /\ Sorted(n, q)
  BY <1>1 DEF Flow
<1>3. PICK z : q \in Seq(z)
  BY <1>1, <1>2, FramesOf
<1>4. ASSUME NEW k \in Clients
      PROVE  /\ \E x : xr[k] \in Seq(x)
             /\ FlowOK(s, n, tn, w, xr[k]) /\ Repeating(n, fx, xr[k])
             /\ cx # NoMsg => \A i \in 1 .. Len(xr[k]) : Passed(n, cr, fx, tx, k, xr[k][i])
  <2>1. PICK p : p = wr[k]
    OBVIOUS
  <2>2. PICK y : p \in Seq(y)
    BY <2>1 DEF Flow
  <2>3. /\ FlowOK(s, n, tn, w, p) /\ Repeating(n, fx, p)
        /\ \A i \in 1 .. Len(p) : Passed(n, cr, fl, td, k, p[i])
    BY <2>1, TwiceGrows DEF Flow
  <2>4. ASSUME cx # NoMsg, NEW i \in 1 .. Len(p) PROVE Passed(n, cr, fx, tx, k, p[i])
    BY <2>3, <2>4 DEF Passed, Keeps
  <2>5. CASE k \notin S
    <3>1. xr[k] = p
      BY <2>1, <2>5 DEF Added
    <3> QED
      BY <2>2, <2>3, <2>4, <3>1
  <2>6. CASE k \in S
    <3>1. PICK r : r = p \o q
      OBVIOUS
    <3>2. xr[k] = r
      BY <1>1, <2>1, <2>6, <3>1 DEF Added
    <3>3. p \in Seq(y \cup z) /\ q \in Seq(y \cup z)
      BY <1>3, <2>2
    <3>4. r \in Seq(y \cup z)
      BY <3>1, <3>3
    <3>5. ASSUME NEW j \in 1 .. Len(q) PROVE IsOf(q[j], cr)
      BY <1>1 DEF IsOf
    <3>6. ASSUME NEW i \in 1 .. Len(p), NEW j \in 1 .. Len(q)
          PROVE  Ord(n, p[i], q[j]) \/ Twice(fx, p[i], q[j])
      <4>1. CASE \A l \in 1 .. Len(q) : Ord(n, p[i], q[l])
        BY <4>1
      <4>2. CASE IsOf(p[i], cr) /\ (cr \in fl \/ (td # {} /\ k \notin td))
        <5>1. cr \in fx
          BY <2>6, <4>2
        <5> QED
          BY <3>5, <4>2, <5>1 DEF Twice
      <4>3. Passed(n, cr, fl, td, k, p[i])
        BY <2>3
      <4> QED
        BY <1>1, <4>1, <4>2, <4>3 DEF Passed
    <3>7. Repeating(n, fx, r)
      BY <1>2, <2>3, <3>1, <3>3, <3>6, RepeatingConcat
    <3>8. ASSUME NEW i \in 1 .. Len(r)
          PROVE  (\E j \in 1 .. Len(p) : r[i] = p[j]) \/ \E j \in 1 .. Len(q) : r[i] = q[j]
      <4>1. /\ Len(r) = Len(p) + Len(q) /\ Len(p) \in Nat /\ Len(q) \in Nat
            /\ \A l \in 1 .. Len(r) : r[l] = IF l <= Len(p) THEN p[l] ELSE q[l - Len(p)]
        BY <3>1, <3>3
      <4>2. CASE i <= Len(p)
        <5>1. i \in 1 .. Len(p) /\ r[i] = p[i]
          BY <4>1, <4>2
        <5> QED
          BY <5>1
      <4>3. CASE i > Len(p)
        <5>1. i - Len(p) \in 1 .. Len(q) /\ r[i] = q[i - Len(p)]
          BY <4>1, <4>3
        <5> QED
          BY <5>1
      <4> QED
        BY <4>1, <4>2, <4>3
    <3>9. FlowOK(s, n, tn, w, r)
      BY <1>2, <2>3, <3>8 DEF FlowOK
    <3>10. ASSUME cx # NoMsg, NEW j \in 1 .. Len(q) PROVE Passed(n, cr, fx, tx, k, q[j])
      <4>1. cr \in fx \/ (tx # {} /\ k \notin tx)
        BY <2>6, <3>10 DEF Keeps
      <4> QED
        BY <3>5, <4>1 DEF Passed
    <3>11. ASSUME cx # NoMsg, NEW i \in 1 .. Len(r) PROVE Passed(n, cr, fx, tx, k, r[i])
      BY <2>4, <3>8, <3>10, <3>11
    <3> QED
      BY <3>2, <3>4, <3>7, <3>9, <3>11
  <2> QED
    BY <2>5, <2>6
<1>5. cx = NoMsg \/ cx = cr
  BY DEF Keeps
<1> QED
  BY <1>1, <1>2, <1>4, <1>5 DEF Flow

\* The order of two frames is that of two that are like them.
LEMMA OrdLike ==
    ASSUME NEW n, NEW f, NEW g, NEW x, NEW y, Like(x, f), Like(y, g), Ord(n, f, g)
    PROVE  Ord(n, x, y)
<1>1. x.kind = f.kind /\ Trn(x) = Trn(f) /\ Seg(x) = Seg(f) /\ Nr(n, x) = Nr(n, f)
  BY LikeOrd
<1>2. y.kind = g.kind /\ Trn(y) = Trn(g) /\ Seg(y) = Seg(g) /\ Nr(n, y) = Nr(n, g)
  BY LikeOrd
<1> QED
  BY <1>1, <1>2 DEF Ord

LEMMA LikeSelf == \A f : Like(f, f)
  BY DEF Like

LEMMA PastLike ==
    ASSUME NEW n, NEW tn, NEW f, NEW x, Like(x, f), Past(n, tn, f)
    PROVE  Past(n, tn, x)
<1>1. x.kind = f.kind /\ Trn(x) = Trn(f) /\ Seg(x) = Seg(f) /\ Nr(n, x) = Nr(n, f)
  BY LikeOrd
<1> QED
  BY <1>1 DEF Past

\* The message mc has the text of the first h that waited.
Takes(mc, w, h) ==
    /\ Len(Frames(mc)) = h
    /\ \A i \in 1 .. h : Like(Frames(mc)[i], First(w[i]))

\* The first h messages that wait are merged into mc, or the first is dropped.
LEMMA FlowTake ==
    ASSUME NEW s \in Nat, NEW n \in Nat, NEW tn, NEW w, NEW wr, NEW fl, NEW td,
           Flow(s, n, tn, w, NoMsg, wr, fl, td), NEW h \in 1 .. Len(w),
           NEW v, v = SubSeq(w, h + 1, Len(w)),
           NEW mc, mc = NoMsg \/ (MsgOK(s, n, mc) /\ Takes(mc, w, h))
    PROVE  Flow(s, n, tn, v, mc, wr, fl, td)
<1>0. w \in Seq(MsgType(s, n)) /\ WaitOK(s, n, tn, w)
  BY DEF Flow, WaitOK
<1>1. /\ v \in Seq(MsgType(s, n)) /\ Len(v) = Len(w) - h /\ Len(w) \in Nat /\ h \in Nat
      /\ \A k \in 1 .. Len(v) : v[k] = w[k + h]
  BY <1>0
<1>2. ASSUME NEW k \in 1 .. Len(v) PROVE k + h \in 1 .. Len(w) /\ v[k] = w[k + h]
  BY <1>1
<1>3. WaitOK(s, n, tn, v)
  <2>1. ASSUME NEW k \in 1 .. Len(v), NEW l \in 1 .. Len(v), k < l
        PROVE  Ord(n, First(v[k]), First(v[l]))
    <3>1. PICK i, j : i = k + h /\ j = l + h
      OBVIOUS
    <3>2. i \in 1 .. Len(w) /\ j \in 1 .. Len(w) /\ v[k] = w[i] /\ v[l] = w[j]
      BY <1>2, <3>1
    <3>3. Len(v) \in Nat /\ h \in Nat
      BY <1>1
    <3>4. i < j
      BY <2>1, <3>1, <3>3
    <3> QED
      BY <1>0, <3>2, <3>4 DEF WaitOK
  <2>2. ASSUME NEW k \in 1 .. Len(v)
        PROVE  MsgOK(s, n, v[k]) /\ Single(v[k]) /\ Past(n, tn, First(v[k]))
    <3>1. PICK i \in 1 .. Len(w) : v[k] = w[i]
      BY <1>2
    <3> QED
      BY <1>0, <3>1 DEF WaitOK
  <2> QED
    BY <1>1, <2>1, <2>2 DEF WaitOK
<1>4. ASSUME NEW q, FlowOK(s, n, tn, w, q) PROVE FlowOK(s, n, tn, v, q)
  <2>1. ASSUME NEW i \in 1 .. Len(q), NEW k \in 1 .. Len(v) PROVE Ord(n, q[i], First(v[k]))
    <3>1. PICK j \in 1 .. Len(w) : v[k] = w[j]
      BY <1>2
    <3> QED
      BY <1>4, <3>1 DEF FlowOK
  <2> QED
    BY <1>4, <2>1 DEF FlowOK
<1>5. CASE mc = NoMsg
  BY <1>3, <1>4, <1>5 DEF Flow
<1>6. CASE MsgOK(s, n, mc) /\ Takes(mc, w, h)
  <2>1. PICK q : q = Frames(mc)
    OBVIOUS
  <2>2. /\ Len(q) = h
        /\ \A i \in 1 .. h : Like(q[i], First(w[i])) /\ FrameOK(s, n, q[i])
    BY <1>6, <2>1, FramesOf DEF Takes
  <2>3. \A i \in 1 .. h : i \in 1 .. Len(w)
    BY <1>1
  <2>4. Sorted(n, q)
    <3> SUFFICES ASSUME NEW i \in 1 .. h, NEW j \in 1 .. h, i < j PROVE Ord(n, q[i], q[j])
      BY <2>2 DEF Sorted
    <3>1. Ord(n, First(w[i]), First(w[j]))
      BY <1>0, <2>3 DEF WaitOK
    <3> QED
      BY <2>2, <3>1, OrdLike
  <2>5. ASSUME NEW i \in 1 .. h
        PROVE  /\ FrameOK(s, n, q[i]) /\ Past(n, tn, q[i])
               /\ \A k \in 1 .. Len(v) : Ord(n, q[i], First(v[k]))
    <3>1. Past(n, tn, First(w[i]))
      BY <1>0, <2>3 DEF WaitOK
    <3>2. FrameOK(s, n, q[i]) /\ Past(n, tn, q[i])
      BY <2>2, <3>1, PastLike
    <3>3. ASSUME NEW k \in 1 .. Len(v) PROVE Ord(n, q[i], First(v[k]))
      <4>1. PICK j \in 1 .. Len(w) : v[k] = w[j] /\ i < j
        <5>1. k + h \in 1 .. Len(w) /\ v[k] = w[k + h]
          BY <1>2
        <5>2. i < k + h
          BY <1>1
        <5> QED
          BY <5>1, <5>2
      <4>2. Ord(n, First(w[i]), First(v[k]))
        BY <1>0, <2>3, <4>1 DEF WaitOK
      <4> QED
        BY <2>2, <4>2, OrdLike, LikeSelf
    <3> QED
      BY <3>2, <3>3
  <2>6. FlowOK(s, n, tn, v, q)
    BY <2>2, <2>5 DEF FlowOK
  <2>7. ASSUME NEW k \in Clients, NEW i \in 1 .. Len(wr[k]), NEW j \in 1 .. Len(q)
        PROVE  Ord(n, wr[k][i], q[j])
    <3>1. Ord(n, wr[k][i], First(w[j]))
      BY <2>2, <2>3 DEF Flow, FlowOK
    <3> QED
      BY <2>2, <3>1, OrdLike, LikeSelf
  <2>8. \A k \in Clients : \A i \in 1 .. Len(wr[k]) : Passed(n, mc, fl, td, k, wr[k][i])
    BY <2>1, <2>7 DEF Passed
  <2> QED
    BY <1>3, <1>4, <1>6, <2>1, <2>4, <2>6, <2>8 DEF Flow
<1> QED
  BY <1>5, <1>6

-----------------------------------------------------------------------------
(***************************************************************************)
(* The places of the pieces.                                               *)
(***************************************************************************)
IsMade(tn, p) == p.nr <= tn[p.of[1]].made[p.of[2]]

Waits(p, w) == \E k \in 1 .. Len(w) : w[k].kind = "delta" /\ w[k].text[1] = p
Has(p, m) == m # NoMsg /\ \E i \in 1 .. Len(m.text) : m.text[i] = p
Seen(p, q) == \E i \in 1 .. Len(q) : q[i].kind = "delta" /\ q[i].piece = p
GivenUp(p, rf) == \E m \in rf : Has(p, m)

\* A client of the chat has seen it.
SeenIn(p, wr, c) == \E k \in Readers(c) : Seen(p, wr[k])

\* A piece is made exactly if it waits, is being sent, was shown in its chat,
\* or was given up; what was given up waits no longer, and is being sent only
\* while an attempt at it goes on or after one that raised.
Located(s, n, tn, w, cr, wr, rf, fl, td) ==
    /\ \A p \in Pieces(s, n) : IsMade(tn, p) =>
          Waits(p, w) \/ Has(p, cr) \/ SeenIn(p, wr, ChatOf[p.of[1]]) \/ GivenUp(p, rf)
    /\ \A m \in rf : MsgOK(s, n, m)
    /\ \A p \in Pieces(s, n) : GivenUp(p, rf) =>
          IsMade(tn, p) /\ ~Waits(p, w) /\ (Has(p, cr) => cr \in fl \/ td # {})

LEMMA PieceType ==
    ASSUME NEW s, NEW n, NEW p \in Pieces(s, n)
    PROVE  p.of[1] \in Turns /\ p.of[2] \in 1 .. s /\ p.nr \in 1 .. n
<1>1. p.of \in Turns \X (1 .. s) /\ p.nr \in 1 .. n
  BY DEF Pieces
<1> QED
  BY <1>1

LEMMA ChatType == \A t \in Turns : ChatOf[t] \in Chats
  BY DEF Chats

\* No piece comes before itself.
LEMMA NotItself ==
    ASSUME NEW s \in Nat, NEW n \in Nat, NEW p \in Pieces(s, n),
           NEW f, f.kind = "delta", f.piece = p, NEW g, g.kind = "delta", g.piece = p
    PROVE  ~Ord(n, f, g)
<1>1. p.of[2] \in 1 .. s /\ p.nr \in 1 .. n
  BY PieceType
<1>2. Trn(f) = Trn(g) /\ Seg(f) = p.of[2] /\ Seg(g) = p.of[2] /\ Nr(n, f) = p.nr /\ Nr(n, g) = p.nr
  BY DEF Trn, Seg, Nr
<1>3. g.kind \notin Lasts
  BY DEF Lasts
<1> QED
  BY <1>1, <1>2, <1>3 DEF Ord

LEMMA FirstPiece ==
    ASSUME NEW m, m.kind = "delta"
    PROVE  First(m).kind = "delta" /\ First(m).piece = m.text[1]
  BY DEF First

\* The pieces of a message being sent are those of its frames.
LEMMA HasFrame ==
    ASSUME NEW s \in Nat, NEW n \in Nat, NEW m, MsgOK(s, n, m), NEW p
    PROVE  /\ Has(p, m) <=> Seen(p, Frames(m))
           /\ Has(p, m) => m.kind = "delta" /\ p \in Pieces(s, n) /\ ChatOf[p.of[1]] = ChatOf[m.turn]
<1>1. m.text \in Seq(Pieces(s, n)) /\ m.kind \in Kinds
  BY DEF MsgOK, MsgType
<1>2. m # NoMsg /\ (m.kind = "delta" <=> Len(m.text) > 0) /\ Len(m.text) \in Nat
  BY <1>1, FramesOf DEF MsgOK
<1>3. CASE m.kind = "delta"
  <2>1. /\ Len(Frames(m)) = Len(m.text)
        /\ \A i \in 1 .. Len(m.text) :
              Frames(m)[i] = [kind |-> "delta", id |-> m.id, piece |-> m.text[i]]
    BY <1>3, FramesOf
  <2>2. ASSUME NEW i \in 1 .. Len(m.text)
        PROVE  Frames(m)[i].kind = "delta" /\ Frames(m)[i].piece = m.text[i]
    <3>1. PICK f, x : f = Frames(m)[i] /\ x = m.text[i]
      OBVIOUS
    <3>2. f = [kind |-> "delta", id |-> m.id, piece |-> x]
      BY <2>1, <3>1
    <3>3. f.kind = "delta" /\ f.piece = x
      BY <3>2
    <3> QED
      BY <3>1, <3>3
  <2>3. Has(p, m) <=> Seen(p, Frames(m))
    BY <1>2, <2>1, <2>2 DEF Has, Seen
  <2>4. Has(p, m) => p \in Pieces(s, n) /\ ChatOf[p.of[1]] = ChatOf[m.turn]
    BY <1>1 DEF Has, MsgOK
  <2> QED
    BY <1>3, <2>3, <2>4
<1>4. CASE m.kind # "delta"
  <2>1. ~Has(p, m)
    BY <1>2, <1>4 DEF Has
  <2>2. Len(Frames(m)) = 1 /\ Frames(m)[1] = First(m)
    BY <1>4, FramesOf
  <2>3. ~Seen(p, Frames(m))
    BY <1>4, <2>2 DEF Seen, First
  <2> QED
    BY <2>1, <2>3
<1> QED
  BY <1>3, <1>4

\* A made frame's piece is made.
LEMMA PastMade ==
    ASSUME NEW n, NEW tn, NEW f, f.kind = "delta", Past(n, tn, f)
    PROVE  IsMade(tn, f.piece)
  BY DEF Past, IsMade, Nr, Trn, Seg

\* What the pipeline says of the places: only made pieces are in it, and one
\* is not in two of them but while it may be repeated.
LEMMA FlowPlaces ==
    ASSUME NEW s \in Nat, NEW n \in Nat, NEW tn, NEW w, NEW cr, NEW wr, NEW fl, NEW td,
           Flow(s, n, tn, w, cr, wr, fl, td), NEW p \in Pieces(s, n)
    PROVE  /\ Waits(p, w) \/ Has(p, cr) \/ (\E k \in Clients : Seen(p, wr[k])) => IsMade(tn, p)
           /\ ~(Waits(p, w) /\ Has(p, cr))
           /\ \A k \in Clients : Seen(p, wr[k]) => ~Waits(p, w) /\ (Has(p, cr) => cr \in fl \/ td # {})
           /\ \A k, l \in 1 .. Len(w) :
                 k < l /\ w[k].kind = "delta" /\ w[k].text[1] = p =>
                    ~(w[l].kind = "delta" /\ w[l].text[1] = p)
<1>1. ASSUME NEW k \in 1 .. Len(w), w[k].kind = "delta", w[k].text[1] = p
      PROVE  First(w[k]).kind = "delta" /\ First(w[k]).piece = p /\ Past(n, tn, First(w[k]))
  BY <1>1, FirstPiece DEF Flow, WaitOK
<1>2. ASSUME Has(p, cr)
      PROVE  /\ cr # NoMsg /\ FlowOK(s, n, tn, w, Frames(cr)) /\ Seen(p, Frames(cr))
  <2>1. cr # NoMsg
    BY <1>2 DEF Has
  <2>2. MsgOK(s, n, cr) /\ FlowOK(s, n, tn, w, Frames(cr))
    BY <2>1 DEF Flow
  <2> QED
    BY <1>2, <2>1, <2>2, HasFrame
<1>3. ASSUME NEW q, FlowOK(s, n, tn, w, q), Seen(p, q)
      PROVE  IsMade(tn, p) /\ ~Waits(p, w)
  <2>1. PICK i \in 1 .. Len(q) : q[i].kind = "delta" /\ q[i].piece = p
    BY <1>3 DEF Seen
  <2>2. Past(n, tn, q[i]) /\ \A k \in 1 .. Len(w) : Ord(n, q[i], First(w[k]))
    BY <1>3 DEF FlowOK
  <2>3. IsMade(tn, p)
    BY <2>1, <2>2, PastMade
  <2>4. ~Waits(p, w)
    BY <1>1, <2>1, <2>2, NotItself DEF Waits
  <2> QED
    BY <2>3, <2>4
<1>4. ASSUME Waits(p, w) PROVE IsMade(tn, p)
  BY <1>1, <1>4, PastMade DEF Waits
<1>5. ASSUME NEW k \in Clients, Seen(p, wr[k])
      PROVE  IsMade(tn, p) /\ ~Waits(p, w) /\ (Has(p, cr) => cr \in fl \/ td # {})
  <2>1. IsMade(tn, p) /\ ~Waits(p, w)
    BY <1>3, <1>5 DEF Flow
  <2>2. ASSUME Has(p, cr) PROVE cr \in fl \/ td # {}
    <3>1. cr # NoMsg /\ Seen(p, Frames(cr))
      BY <1>2, <2>2
    <3>2. PICK i \in 1 .. Len(wr[k]) : wr[k][i].kind = "delta" /\ wr[k][i].piece = p
      BY <1>5 DEF Seen
    <3>3. PICK j \in 1 .. Len(Frames(cr)) : Frames(cr)[j].kind = "delta" /\ Frames(cr)[j].piece = p
      BY <3>1 DEF Seen
    <3>4. ~Ord(n, wr[k][i], Frames(cr)[j])
      BY <3>2, <3>3, NotItself
    <3>5. Passed(n, cr, fl, td, k, wr[k][i])
      BY <3>1 DEF Flow
    <3> QED
      BY <3>4, <3>5 DEF Passed
  <2> QED
    BY <2>1, <2>2
<1>6. ASSUME NEW k \in 1 .. Len(w), NEW l \in 1 .. Len(w), k < l,
             w[k].kind = "delta", w[k].text[1] = p, w[l].kind = "delta", w[l].text[1] = p
      PROVE  FALSE
  <2>1. Ord(n, First(w[k]), First(w[l]))
    BY <1>6 DEF Flow, WaitOK
  <2>2. First(w[k]).kind = "delta" /\ First(w[k]).piece = p
    BY <1>1, <1>6
  <2>3. First(w[l]).kind = "delta" /\ First(w[l]).piece = p
    BY <1>1, <1>6
  <2> QED
    BY <2>1, <2>2, <2>3, NotItself
<1> QED
  BY <1>2, <1>3, <1>4, <1>5, <1>6

(***************************************************************************)
(* The steps, and where they leave the pieces.                             *)
(***************************************************************************)
\* A message is put behind what waits.
LEMMA WaitsAppend ==
    ASSUME NEW z, NEW w \in Seq(z), NEW m \in z, NEW v, v = Append(w, m), NEW p
    PROVE  Waits(p, v) <=> Waits(p, w) \/ (m.kind = "delta" /\ m.text[1] = p)
<1>1. /\ Len(v) = Len(w) + 1 /\ Len(w) \in Nat /\ v[Len(w) + 1] = m
      /\ \A k \in 1 .. Len(w) : v[k] = w[k]
  OBVIOUS
<1>2. \A k \in 1 .. Len(v) : k \in 1 .. Len(w) \/ k = Len(w) + 1
  BY <1>1
<1>3. (\A k \in 1 .. Len(w) : k \in 1 .. Len(v)) /\ Len(w) + 1 \in 1 .. Len(v)
  BY <1>1
<1> QED
  BY <1>1, <1>2, <1>3 DEF Waits

LEMMA LocatedPublish ==
    ASSUME NEW s \in Nat, NEW n \in Nat, NEW tn, NEW un, NEW w, NEW cr, NEW wr, NEW rf, NEW fl, NEW td,
           Located(s, n, tn, w, cr, wr, rf, fl, td), NEW z, w \in Seq(z), NEW m \in z,
           \A p \in Pieces(s, n) :
              IsMade(un, p) <=> IsMade(tn, p) \/ (m.kind = "delta" /\ m.text[1] = p),
           m.kind = "delta" => ~IsMade(tn, m.text[1])
    PROVE  Located(s, n, un, Append(w, m), cr, wr, rf, fl, td)
<1>1. PICK v : v = Append(w, m)
  OBVIOUS
<1>2. \A p : Waits(p, v) <=> Waits(p, w) \/ (m.kind = "delta" /\ m.text[1] = p)
  BY <1>1, WaitsAppend
<1>3. ASSUME NEW p \in Pieces(s, n), IsMade(un, p)
      PROVE  Waits(p, v) \/ Has(p, cr) \/ SeenIn(p, wr, ChatOf[p.of[1]]) \/ GivenUp(p, rf)
  BY <1>2, <1>3 DEF Located
<1>4. ASSUME NEW p \in Pieces(s, n), GivenUp(p, rf)
      PROVE  IsMade(un, p) /\ ~Waits(p, v) /\ (Has(p, cr) => cr \in fl \/ td # {})
  <2>1. IsMade(tn, p) /\ ~Waits(p, w) /\ (Has(p, cr) => cr \in fl \/ td # {})
    BY <1>4 DEF Located
  <2> QED
    BY <1>2, <2>1
<1> QED
  BY <1>1, <1>3, <1>4 DEF Located

LEMMA LocatedQuiet ==
    ASSUME NEW s, NEW n, NEW tn, NEW un, NEW w, NEW cr, NEW wr, NEW rf, NEW fl, NEW td,
           Located(s, n, tn, w, cr, wr, rf, fl, td),
           \A p \in Pieces(s, n) : IsMade(un, p) <=> IsMade(tn, p)
    PROVE  Located(s, n, un, w, cr, wr, rf, fl, td)
  BY DEF Located

\* The message taken has the pieces of the first h that waited.
LEMMA LocatedTake ==
    ASSUME NEW s \in Nat, NEW n \in Nat, NEW tn, NEW w, NEW wr, NEW rf, NEW fl, NEW td,
           Located(s, n, tn, w, NoMsg, wr, rf, fl, td),
           NEW z, w \in Seq(z), NEW h \in 1 .. Len(w), NEW v, v = SubSeq(w, h + 1, Len(w)),
           NEW mc, \/ mc = NoMsg /\ \A k \in 1 .. h : w[k].kind # "delta"
                   \/ MsgOK(s, n, mc) /\ Takes(mc, w, h)
    PROVE  Located(s, n, tn, v, mc, wr, rf, fl, td)
<1>1. /\ Len(v) = Len(w) - h /\ Len(w) \in Nat /\ h \in Nat
      /\ \A k \in 1 .. Len(v) : k + h \in 1 .. Len(w) /\ v[k] = w[k + h]
  <2>1. /\ Len(v) = Len(w) - h /\ Len(w) \in Nat /\ h \in Nat
        /\ \A k \in 1 .. Len(v) : v[k] = w[k + h]
    OBVIOUS
  <2> QED
    BY <2>1
<1>2. ASSUME NEW p, Waits(p, v) PROVE Waits(p, w)
  BY <1>1, <1>2 DEF Waits
<1>3. ASSUME NEW p, Has(p, mc) PROVE Waits(p, w)
  <2>1. MsgOK(s, n, mc) /\ Takes(mc, w, h)
    BY <1>3 DEF Has
  <2>2. Seen(p, Frames(mc))
    BY <1>3, <2>1, HasFrame
  <2>3. PICK i \in 1 .. h : /\ Frames(mc)[i].kind = "delta" /\ Frames(mc)[i].piece = p
                            /\ Like(Frames(mc)[i], First(w[i]))
    BY <2>1, <2>2 DEF Seen, Takes
  <2>4. First(w[i]).kind = "delta" /\ First(w[i]).piece = p
    BY <2>3 DEF Like
  <2>5. w[i].kind = "delta" /\ w[i].text[1] = p
    BY <2>4 DEF First
  <2>6. i \in 1 .. Len(w)
    BY <1>1
  <2> QED
    BY <2>5, <2>6 DEF Waits
<1>4. ASSUME NEW p, Waits(p, w) PROVE Waits(p, v) \/ Has(p, mc)
  <2>1. PICK k \in 1 .. Len(w) : w[k].kind = "delta" /\ w[k].text[1] = p
    BY <1>4 DEF Waits
  <2>2. CASE k > h
    <3>1. PICK l : l = k - h
      OBVIOUS
    <3>2. l \in 1 .. Len(v) /\ k = l + h
      BY <1>1, <2>2, <3>1
    <3>3. v[l] = w[k]
      BY <1>1, <3>2
    <3> QED
      BY <2>1, <3>2, <3>3 DEF Waits
  <2>3. CASE k <= h
    <3>1. k \in 1 .. h
      BY <1>1, <2>3
    <3>2. MsgOK(s, n, mc) /\ Takes(mc, w, h)
      BY <2>1, <3>1
    <3>3. Like(Frames(mc)[k], First(w[k])) /\ k \in 1 .. Len(Frames(mc))
      BY <3>1, <3>2 DEF Takes
    <3>4. First(w[k]).kind = "delta" /\ First(w[k]).piece = p
      BY <2>1, FirstPiece
    <3>5. Frames(mc)[k].kind = "delta" /\ Frames(mc)[k].piece = p
      BY <3>3, <3>4 DEF Like
    <3>6. Seen(p, Frames(mc))
      BY <3>3, <3>5 DEF Seen
    <3> QED
      BY <3>2, <3>6, HasFrame
  <2> QED
    BY <1>1, <2>2, <2>3
<1>5. \A p : ~Has(p, NoMsg)
  BY DEF Has
<1>6. ASSUME NEW p \in Pieces(s, n), IsMade(tn, p)
      PROVE  Waits(p, v) \/ Has(p, mc) \/ SeenIn(p, wr, ChatOf[p.of[1]]) \/ GivenUp(p, rf)
  BY <1>4, <1>5, <1>6 DEF Located
<1>7. ASSUME NEW p \in Pieces(s, n), GivenUp(p, rf)
      PROVE  IsMade(tn, p) /\ ~Waits(p, v) /\ ~Has(p, mc)
  BY <1>2, <1>3, <1>7 DEF Located
<1> QED
  BY <1>6, <1>7 DEF Located

LEMMA SeenConcat ==
    ASSUME NEW z, NEW a \in Seq(z), NEW b \in Seq(z), NEW r, r = a \o b, NEW p
    PROVE  Seen(p, r) <=> Seen(p, a) \/ Seen(p, b)
<1>1. /\ Len(r) = Len(a) + Len(b) /\ Len(a) \in Nat /\ Len(b) \in Nat
      /\ \A k \in 1 .. Len(a) : k \in 1 .. Len(r) /\ r[k] = a[k]
      /\ \A k \in 1 .. Len(b) : k + Len(a) \in 1 .. Len(r) /\ r[k + Len(a)] = b[k]
  OBVIOUS
<1>2. ASSUME Seen(p, r) PROVE Seen(p, a) \/ Seen(p, b)
  <2>1. PICK i \in 1 .. Len(r) : r[i].kind = "delta" /\ r[i].piece = p
    BY <1>2 DEF Seen
  <2>2. CASE i <= Len(a)
    <3>1. i \in 1 .. Len(a) /\ r[i] = a[i]
      BY <1>1, <2>2
    <3> QED
      BY <2>1, <3>1 DEF Seen
  <2>3. CASE i > Len(a)
    <3>1. PICK j : j = i - Len(a)
      OBVIOUS
    <3>2. j \in 1 .. Len(b) /\ i = j + Len(a)
      BY <1>1, <2>3, <3>1
    <3>3. r[i] = b[j]
      BY <1>1, <3>2
    <3> QED
      BY <2>1, <3>2, <3>3 DEF Seen
  <2> QED
    BY <1>1, <2>2, <2>3
<1>3. ASSUME Seen(p, a) PROVE Seen(p, r)
  BY <1>1, <1>3 DEF Seen
<1>4. ASSUME Seen(p, b) PROVE Seen(p, r)
  <2>1. PICK k \in 1 .. Len(b) : b[k].kind = "delta" /\ b[k].piece = p
    BY <1>4 DEF Seen
  <2>2. PICK l : l = k + Len(a)
    OBVIOUS
  <2>3. l \in 1 .. Len(r) /\ r[l] = b[k]
    BY <1>1, <2>2
  <2> QED
    BY <2>1, <2>3 DEF Seen
<1> QED
  BY <1>2, <1>3, <1>4

\* The clients of S, readers of its chat, are shown the message, which may be
\* given up.  It is out of the dispatcher's hands once someone has seen it or
\* it was given up; until then it may be sent again.
LEMMA LocatedSend ==
    ASSUME NEW s \in Nat, NEW n \in Nat, NEW tn, NEW w, NEW cr, NEW wr, NEW rf, NEW fl, NEW td,
           Flow(s, n, tn, w, cr, wr, fl, td), Located(s, n, tn, w, cr, wr, rf, fl, td), MsgOK(s, n, cr),
           NEW z, wr \in [Clients -> Seq(z)],
           NEW S, S \subseteq Readers(ChatOf[cr.turn]), NEW xr, Added(xr, wr, S, Frames(cr)),
           NEW xf, xf = rf \/ xf = rf \cup {cr}, NEW cx, NEW fx, NEW tx,
           \/ cx = NoMsg /\ (S # {} \/ cr \in xf)
           \/ cx = cr /\ (cr \in fl \/ td # {} \/ xf # rf => cr \in fx \/ tx # {})
    PROVE  Located(s, n, tn, w, cx, xr, xf, fx, tx)
<1>1. S \subseteq Clients
  BY DEF Readers
<1>2. PICK y : Frames(cr) \in Seq(y)
  BY FramesOf
<1>3. ASSUME NEW p, NEW k \in Clients PROVE Seen(p, xr[k]) <=> Seen(p, wr[k]) \/ (k \in S /\ Has(p, cr))
  <2>1. CASE k \notin S
    <3>1. xr[k] = wr[k]
      BY <2>1 DEF Added
    <3> QED
      BY <2>1, <3>1
  <2>2. CASE k \in S
    <3>1. PICK a, b, r : a = wr[k] /\ b = Frames(cr) /\ r = xr[k]
      OBVIOUS
    <3>2. a \in Seq(z) /\ b \in Seq(y)
      BY <1>2, <3>1
    <3>3. a \in Seq(y \cup z) /\ b \in Seq(y \cup z)
      BY <3>2
    <3>4. r = a \o b
      BY <2>2, <3>1 DEF Added
    <3>5. Seen(p, r) <=> Seen(p, a) \/ Seen(p, b)
      BY <3>3, <3>4, SeenConcat
    <3>6. Has(p, cr) <=> Seen(p, b)
      BY <3>1, HasFrame
    <3> QED
      BY <2>2, <3>1, <3>5, <3>6
  <2> QED
    BY <2>1, <2>2
<1>4. \A p : ~Has(p, NoMsg)
  BY DEF Has
<1>5. \A p : GivenUp(p, xf) <=> GivenUp(p, rf) \/ (cr \in xf /\ Has(p, cr))
  BY DEF GivenUp
<1>6. ASSUME NEW p \in Pieces(s, n), IsMade(tn, p)
      PROVE  Waits(p, w) \/ Has(p, cx) \/ SeenIn(p, xr, ChatOf[p.of[1]]) \/ GivenUp(p, xf)
  <2>1. Waits(p, w) \/ Has(p, cr) \/ SeenIn(p, wr, ChatOf[p.of[1]]) \/ GivenUp(p, rf)
    BY <1>6 DEF Located
  <2>2. CASE SeenIn(p, wr, ChatOf[p.of[1]])
    <3>1. PICK k \in Readers(ChatOf[p.of[1]]) : Seen(p, wr[k])
      BY <2>2 DEF SeenIn
    <3>2. k \in Clients
      BY DEF Readers
    <3>3. Seen(p, xr[k])
      BY <1>3, <3>1, <3>2
    <3> QED
      BY <3>3 DEF SeenIn
  <2>3. CASE Has(p, cr) /\ cx = NoMsg
    <3>1. CASE cr \in xf
      BY <1>5, <2>3, <3>1
    <3>2. CASE S # {}
      <4>1. PICK k : k \in S
        BY <3>2
      <4>2. k \in Readers(ChatOf[p.of[1]]) /\ k \in Clients
        BY <1>1, <2>3, <4>1, HasFrame
      <4>3. Seen(p, xr[k])
        BY <1>3, <2>3, <4>1, <4>2
      <4> QED
        BY <4>2, <4>3 DEF SeenIn
    <3>3. cr \in xf \/ S # {}
      BY <2>3, FramesOf
    <3> QED
      BY <3>1, <3>2, <3>3
  <2>4. CASE Has(p, cr) /\ cx # NoMsg
    BY <2>4
  <2>5. CASE GivenUp(p, rf)
    BY <1>5, <2>5
  <2> QED
    BY <2>1, <2>2, <2>3, <2>4, <2>5
<1>7. ASSUME NEW p \in Pieces(s, n), GivenUp(p, xf)
      PROVE  IsMade(tn, p) /\ ~Waits(p, w) /\ (Has(p, cx) => cx \in fx \/ tx # {})
  <2>1. CASE GivenUp(p, rf)
    BY <1>4, <2>1 DEF Located
  <2>2. CASE ~GivenUp(p, rf)
    <3>1. cr \in xf /\ Has(p, cr)
      BY <1>5, <1>7, <2>2
    <3>2. xf # rf
      BY <2>2, <3>1 DEF GivenUp
    <3>3. IsMade(tn, p) /\ ~Waits(p, w)
      BY <3>1, FlowPlaces
    <3> QED
      BY <1>4, <3>2, <3>3
  <2> QED
    BY <2>1, <2>2
<1>8. \A m \in xf : MsgOK(s, n, m)
  BY DEF Located
<1> QED
  BY <1>6, <1>7, <1>8 DEF Located

\* A message without text is out of the dispatcher's hands.
LEMMA LocatedDrop ==
    ASSUME NEW s \in Nat, NEW n \in Nat, NEW tn, NEW w, NEW cr, NEW wr, NEW rf, NEW fl, NEW td,
           Located(s, n, tn, w, cr, wr, rf, fl, td), MsgOK(s, n, cr), cr.kind # "delta"
    PROVE  Located(s, n, tn, w, NoMsg, wr, rf, fl, td)
<1>1. \A p : ~Has(p, cr)
  BY HasFrame
<1>2. \A p : ~Has(p, NoMsg)
  BY DEF Has
<1> QED
  BY <1>1, <1>2 DEF Located

(***************************************************************************)
(* The dispatcher's merge.                                                 *)
(***************************************************************************)
\* A set of naturals that is not empty has a least element.
LEMMA Least ==
    ASSUME NEW S, S \subseteq Nat, S # {}
    PROVE  \E x \in S : \A y \in S : x <= y
<1>1. PICK x \in S : \A y \in S : ~(<<y, x>> \in OpToRel(<, Nat))
  BY NatLessThanWellFounded, WFMin
<1>2. ASSUME NEW y \in S PROVE ~(y < x)
  <2>1. <<y, x>> \in Nat \X Nat
    OBVIOUS
  <2> QED
    BY <1>1, <2>1 DEF OpToRel
<1>3. \A y \in S : y \in Nat /\ x \in Nat
  OBVIOUS
<1> QED
  BY <1>2, <1>3

\* Part of a sequence, and one sequence after another.
LEMMA SubIs ==
    ASSUME NEW z, NEW q \in Seq(z), NEW i \in Nat \ {0}, NEW j \in Nat, j <= Len(q), i <= j + 1
    PROVE  /\ SubSeq(q, i, j) \in Seq(z) /\ Len(SubSeq(q, i, j)) = j + 1 - i
           /\ \A k \in 1 .. j + 1 - i : SubSeq(q, i, j)[k] = q[k + i - 1]
  OBVIOUS

LEMMA ConcatIs ==
    ASSUME NEW z, NEW a \in Seq(z), NEW b \in Seq(z)
    PROVE  /\ a \o b \in Seq(z) /\ Len(a \o b) = Len(a) + Len(b)
           /\ \A k \in 1 .. Len(a) : (a \o b)[k] = a[k]
           /\ \A k \in 1 .. Len(b) : (a \o b)[Len(a) + k] = b[k]
  OBVIOUS

LEMMA TailIs ==
    ASSUME NEW z, NEW w \in Seq(z), Len(w) > 0
    PROVE  /\ Tail(w) \in Seq(z) /\ Len(Tail(w)) = Len(w) - 1 /\ Len(w) \in Nat
           /\ \A k \in 1 .. Len(w) - 1 : Tail(w)[k] = w[k + 1]
  OBVIOUS

LEMMA TailSub == ASSUME NEW z, NEW w \in Seq(z), Len(w) > 0 PROVE Tail(w) = SubSeq(w, 2, Len(w))
  OBVIOUS

LEMMA SameSeq ==
    ASSUME NEW z, NEW a \in Seq(z), NEW b \in Seq(z), Len(a) = Len(b),
           \A k \in 1 .. Len(a) : a[k] = b[k]
    PROVE  a = b
  OBVIOUS

\* The run is the deltas for the chat of m at the head of q.
LEMMA RunIs ==
    ASSUME NEW m, NEW z, NEW q \in Seq(z)
    PROVE  /\ Run(m, q) \in 0 .. Len(q)
           /\ \A i \in 1 .. Run(m, q) : Merges(m, q[i])
<1> DEFINE Ends0 == {n \in 0 .. Len(q) : n = Len(q) \/ ~Merges(m, q[n + 1])}
<1>0. Len(q) \in Nat
  OBVIOUS
<1>1. Ends0 \subseteq Nat /\ Len(q) \in Ends0
  BY <1>0
<1>2. Run(m, q) = CHOOSE x \in Ends0 : \A y \in Ends0 : x <= y
  BY DEF Run, Min
<1>3. Run(m, q) \in Ends0 /\ \A y \in Ends0 : Run(m, q) <= y
  <2> HIDE DEF Ends0
  <2>1. \E x \in Ends0 : \A y \in Ends0 : x <= y
    BY <1>1, Least
  <2> QED
    BY <1>2, <2>1
<1>4. Run(m, q) \in 0 .. Len(q)
  BY <1>3
<1>5. ASSUME NEW i \in 1 .. Run(m, q), ~Merges(m, q[i]) PROVE FALSE
  <2>1. PICK j, k : j = i - 1 /\ k = Run(m, q)
    OBVIOUS
  <2>2. j \in 0 .. Len(q) /\ i = j + 1 /\ k \in Nat /\ j < k
    BY <1>0, <1>4, <2>1
  <2>3. j \in Ends0
    BY <1>5, <2>2
  <2>4. k <= j
    BY <1>3, <2>1, <2>3
  <2> QED
    BY <2>2, <2>4
<1> QED
  BY <1>4, <1>5

IsTail(q, w) == q = Tail(w)
IsMerged(mc, m, q) == mc = [m EXCEPT !.text = Joined(m, q)]

\* The merged message has the text of its run, under the first's stream id.
LEMMA MergeOK ==
    ASSUME NEW s \in Nat, NEW n \in Nat, NEW tn, NEW w, WaitOK(s, n, tn, w), Len(w) > 0,
           NEW m, m = w[1], m.kind = "delta", NEW q, IsTail(q, w), NEW mc, IsMerged(mc, m, q)
    PROVE  /\ Run(m, q) \in 0 .. Len(q) /\ Run(m, q) + 1 \in 1 .. Len(w)
           /\ MsgOK(s, n, mc) /\ Takes(mc, w, Run(m, q) + 1) /\ mc.kind = "delta" /\ mc.turn = m.turn
<1>1. /\ w \in Seq(MsgType(s, n)) /\ Len(w) \in Nat /\ 1 \in 1 .. Len(w)
      /\ q \in Seq(MsgType(s, n)) /\ Len(q) = Len(w) - 1
      /\ \A i \in 1 .. Len(q) : i + 1 \in 1 .. Len(w) /\ q[i] = w[i + 1]
  <2>1. w \in Seq(MsgType(s, n))
    BY DEF WaitOK
  <2>2. /\ Len(w) \in Nat /\ q \in Seq(MsgType(s, n)) /\ Len(q) = Len(w) - 1
        /\ \A i \in 1 .. Len(q) : q[i] = w[i + 1]
    BY <2>1 DEF IsTail
  <2> QED
    BY <2>1, <2>2
<1>2. PICK k : k = Run(m, q)
  OBVIOUS
<1>3. k \in 0 .. Len(q) /\ \A i \in 1 .. k : Merges(m, q[i])
  BY <1>1, <1>2, RunIs
<1>4. ASSUME NEW i \in 1 .. Len(w), w[i].kind = "delta"
      PROVE  /\ w[i].text \in Seq(Pieces(s, n)) /\ Len(w[i].text) = 1
             /\ w[i].text[1] \in Pieces(s, n)
             /\ ChatOf[w[i].text[1].of[1]] = ChatOf[w[i].turn]
  <2>1. MsgOK(s, n, w[i]) /\ Single(w[i])
    BY DEF WaitOK
  <2>2. w[i].text \in Seq(Pieces(s, n)) /\ Len(w[i].text) = 1
    BY <1>4, <2>1 DEF MsgOK, MsgType, Single
  <2>3. w[i].text[1] \in Pieces(s, n) /\ 1 \in 1 .. Len(w[i].text)
    BY <2>2
  <2> QED
    BY <2>1, <2>2, <2>3 DEF MsgOK
<1>5. ASSUME NEW i \in 1 .. k + 1
      PROVE  i \in 1 .. Len(w) /\ w[i].kind = "delta" /\ ChatOf[w[i].turn] = ChatOf[m.turn]
  <2>1. i \in 1 .. Len(w)
    BY <1>1, <1>3
  <2>2. CASE i = 1
    BY <2>1, <2>2
  <2>3. CASE i # 1
    <3>1. PICK j : j = i - 1
      OBVIOUS
    <3>2. j \in 1 .. k /\ j \in 1 .. Len(q) /\ i = j + 1
      BY <1>1, <1>3, <2>3, <3>1
    <3>3. w[i] = q[j]
      BY <1>1, <3>2
    <3> QED
      BY <1>3, <2>1, <3>2, <3>3 DEF Merges
  <2> QED
    BY <2>2, <2>3
<1>6. PICK b : b = [i \in 1 .. k |-> Head(q[i].text)]
  OBVIOUS
<1>7. /\ b \in Seq(Pieces(s, n)) /\ Len(b) = k
      /\ \A i \in 1 .. k : b[i] = w[i + 1].text[1]
  <2>1. ASSUME NEW i \in 1 .. k
        PROVE  Head(q[i].text) = w[i + 1].text[1] /\ Head(q[i].text) \in Pieces(s, n)
    <3>1. PICK j : j = i + 1
      OBVIOUS
    <3>2. j \in 1 .. k + 1 /\ i \in 1 .. Len(q)
      BY <1>1, <1>3, <3>1
    <3>3. q[i] = w[j] /\ j \in 1 .. Len(w) /\ w[j].kind = "delta"
      BY <1>1, <1>5, <3>1, <3>2
    <3>4. PICK x : x = w[j].text
      OBVIOUS
    <3>5. x \in Seq(Pieces(s, n)) /\ Len(x) = 1 /\ x[1] \in Pieces(s, n)
      BY <1>4, <3>3, <3>4
    <3>6. Head(x) = x[1]
      BY <3>5
    <3> QED
      BY <3>1, <3>3, <3>4, <3>5, <3>6
  <2>2. k \in Nat
    BY <1>3
  <2>3. b \in [1 .. k -> Pieces(s, n)]
    BY <1>6, <2>1
  <2>4. \A i \in 1 .. k : b[i] = w[i + 1].text[1]
    BY <1>6, <2>1
  <2>5. b \in Seq(Pieces(s, n)) /\ Len(b) = k
    BY <2>2, <2>3
  <2> QED
    BY <2>4, <2>5
<1>8. PICK x : x = Joined(m, q)
  OBVIOUS
<1>9. /\ x \in Seq(Pieces(s, n)) /\ Len(x) = k + 1
      /\ \A i \in 1 .. k + 1 : x[i] = w[i].text[1]
  <2>1. PICK a : a = m.text
    OBVIOUS
  <2>2. a \in Seq(Pieces(s, n)) /\ Len(a) = 1 /\ a[1] = w[1].text[1]
    BY <1>1, <1>4, <2>1
  <2>3. x = a \o b
    BY <1>2, <1>6, <1>8, <2>1 DEF Joined
  <2>4. k \in Nat
    BY <1>3
  <2>5. /\ x \in Seq(Pieces(s, n)) /\ Len(x) = k + 1
        /\ x[1] = a[1] /\ \A i \in 1 .. k : x[1 + i] = b[i]
    <3>1. b \in Seq(Pieces(s, n)) /\ Len(b) = k
      BY <1>7
    <3>2. a \in Seq(Pieces(s, n)) /\ b \in Seq(Pieces(s, n))
      BY <2>2, <3>1
    <3>3. /\ a \o b \in Seq(Pieces(s, n)) /\ Len(a \o b) = Len(a) + Len(b)
          /\ \A i \in 1 .. Len(a) : (a \o b)[i] = a[i]
          /\ \A i \in 1 .. Len(b) : (a \o b)[Len(a) + i] = b[i]
      BY <3>2, ConcatIs
    <3>4. Len(a) = 1
      BY <2>2
    <3>5. /\ x \in Seq(Pieces(s, n)) /\ Len(x) = 1 + k
          /\ \A i \in 1 .. 1 : x[i] = a[i]
          /\ \A i \in 1 .. k : x[1 + i] = b[i]
      BY <2>3, <3>1, <3>3, <3>4
    <3>6. 1 + k = k + 1
      BY <2>4
    <3>7. x[1] = a[1]
      BY <3>5
    <3> QED
      BY <3>5, <3>6, <3>7
  <2>7. ASSUME NEW i \in 1 .. k + 1 PROVE x[i] = w[i].text[1]
    <3>1. CASE i = 1
      BY <2>2, <2>5, <3>1
    <3>2. CASE i # 1
      <4>1. PICK j : j = i - 1
        OBVIOUS
      <4>2. j \in 1 .. k /\ i = j + 1 /\ i = 1 + j
        BY <2>4, <3>2, <4>1
      <4> QED
        BY <1>7, <2>5, <4>2
    <3> QED
      BY <3>1, <3>2
  <2> QED
    BY <2>5, <2>7
<1>10. m \in MsgType(s, n)
  BY <1>1
<1>11. /\ mc \in MsgType(s, n) /\ mc.kind = "delta" /\ mc.turn = m.turn /\ mc.id = m.id /\ mc.text = x
  BY <1>8, <1>9, <1>10 DEF MsgType, IsMerged
<1>12. \A i \in 1 .. Len(x) : ChatOf[x[i].of[1]] = ChatOf[m.turn]
  BY <1>4, <1>5, <1>9
<1>13. k \in Nat /\ Len(x) > 0
  BY <1>3, <1>9
<1>14. MsgOK(s, n, mc)
  BY <1>11, <1>12, <1>13 DEF MsgOK
<1>15. Takes(mc, w, k + 1)
  <2>1. /\ Len(Frames(mc)) = k + 1
        /\ \A i \in 1 .. k + 1 : Frames(mc)[i] = [kind |-> "delta", id |-> mc.id, piece |-> x[i]]
    <3>1. /\ Len(Frames(mc)) = Len(mc.text)
          /\ \A i \in 1 .. Len(mc.text) :
                Frames(mc)[i] = [kind |-> "delta", id |-> mc.id, piece |-> mc.text[i]]
      BY <1>11, <1>14, FramesOf
    <3>2. mc.text = x /\ Len(x) = k + 1
      BY <1>9, <1>11
    <3> QED
      BY <3>1, <3>2
  <2>2. ASSUME NEW i \in 1 .. k + 1 PROVE Like(Frames(mc)[i], First(w[i]))
    <3>1. PICK f, y : f = Frames(mc)[i] /\ y = x[i]
      OBVIOUS
    <3>2. f = [kind |-> "delta", id |-> mc.id, piece |-> y] /\ y = w[i].text[1]
      BY <1>9, <2>1, <3>1
    <3>3. f.kind = "delta" /\ f.piece = y
      BY <3>2
    <3>4. First(w[i]).kind = "delta" /\ First(w[i]).piece = w[i].text[1]
      BY <1>5, FirstPiece
    <3> QED
      BY <3>1, <3>2, <3>3, <3>4 DEF Like
  <2> QED
    BY <2>1, <2>2 DEF Takes
<1>16. k + 1 \in 1 .. Len(w)
  BY <1>1, <1>3
<1> QED
  BY <1>2, <1>3, <1>11, <1>14, <1>15, <1>16

\* What the merge leaves, held back (a) and on the queue (b).
Parts(q, k, a, b) ==
    a = SubSeq(q, k + 1, IF k < Len(q) THEN k + 1 ELSE k) /\ b = SubSeq(q, k + 2, Len(q))

\* It is what waited behind the run.
LEMMA MergeRest ==
    ASSUME NEW z, NEW w \in Seq(z), Len(w) > 0, NEW k \in 0 .. Len(Tail(w)),
           NEW a, NEW b, Parts(Tail(w), k, a, b)
    PROVE  /\ a \in Seq(z) /\ b \in Seq(z) /\ Len(a) <= 1 /\ Len(b) <= Len(Tail(w))
           /\ a \o b = SubSeq(w, k + 2, Len(w))
<1>1. PICK q, N : q = Tail(w) /\ N = Len(q)
  OBVIOUS
<1>2. /\ q \in Seq(z) /\ N = Len(w) - 1 /\ Len(q) = N /\ Len(w) \in Nat /\ N \in Nat
      /\ \A i \in 1 .. N : q[i] = w[i + 1]
  BY <1>1, TailIs
<1>3. k \in 0 .. N
  BY <1>1
<1>4. a = SubSeq(q, k + 1, IF k < N THEN k + 1 ELSE k) /\ b = SubSeq(q, k + 2, N)
  BY <1>1 DEF Parts
<1>5. PICK v : v = SubSeq(w, k + 2, Len(w))
  OBVIOUS
<1>6. PICK u : u = a \o b
  OBVIOUS
<1>7. /\ v \in Seq(z) /\ Len(v) = N - k
      /\ \A i \in 1 .. N - k : v[i] = w[i + k + 1]
  <2>1. k + 2 \in Nat \ {0} /\ Len(w) \in Nat /\ k + 2 <= Len(w) + 1
    BY <1>2, <1>3
  <2>2. /\ v \in Seq(z) /\ Len(v) = Len(w) + 1 - (k + 2)
        /\ \A i \in 1 .. Len(w) + 1 - (k + 2) : v[i] = w[i + (k + 2) - 1]
    BY <1>5, <2>1, SubIs
  <2>3. Len(w) + 1 - (k + 2) = N - k /\ \A i \in Nat : i + (k + 2) - 1 = i + k + 1
    BY <1>2, <1>3
  <2> QED
    BY <1>2, <1>3, <2>2, <2>3
<1>8. CASE k = N
  <2>1. k + 1 \in Nat \ {0} /\ k \in Nat /\ k <= Len(q) /\ a = SubSeq(q, k + 1, k)
    BY <1>2, <1>3, <1>4, <1>8
  <2>2. a \in Seq(z) /\ Len(a) = 0
    BY <1>2, <2>1, SubIs
  <2>3. b = <<>>
    BY <1>2, <1>4, <1>8
  <2>4. Len(b) = 0 /\ b \in Seq(z) /\ Len(u) = 0 /\ u \in Seq(z)
    BY <1>6, <2>2, <2>3
  <2>5. Len(v) = 0
    BY <1>2, <1>7, <1>8
  <2>6. u = v
    BY <1>7, <2>4, <2>5, SameSeq
  <2> QED
    BY <1>1, <1>2, <1>5, <1>6, <2>2, <2>4, <2>6
<1>9. CASE k < N
  <2>1. k + 1 \in Nat \ {0} /\ k + 1 \in Nat /\ k + 1 <= Len(q) /\ a = SubSeq(q, k + 1, k + 1)
    BY <1>2, <1>3, <1>4, <1>9
  <2>2. a \in Seq(z) /\ Len(a) = 1 /\ a[1] = q[k + 1]
    <3>1. /\ a \in Seq(z) /\ Len(a) = (k + 1) + 1 - (k + 1)
          /\ \A i \in 1 .. (k + 1) + 1 - (k + 1) : a[i] = q[i + (k + 1) - 1]
      BY <1>2, <2>1, SubIs
    <3> QED
      BY <1>3, <3>1
  <2>3. /\ b \in Seq(z) /\ Len(b) = N - k - 1
        /\ \A i \in 1 .. N - k - 1 : b[i] = q[i + k + 1]
    <3>1. k + 2 \in Nat \ {0} /\ N <= Len(q) /\ k + 2 <= N + 1
      BY <1>2, <1>3, <1>9
    <3>2. /\ b \in Seq(z) /\ Len(b) = N + 1 - (k + 2)
          /\ \A i \in 1 .. N + 1 - (k + 2) : b[i] = q[i + (k + 2) - 1]
      <4>1. q \in Seq(z) /\ N \in Nat /\ b = SubSeq(q, k + 2, N)
        BY <1>2, <1>4
      <4> QED
        BY ONLY <4>1, <3>1, SubIs
    <3>3. N + 1 - (k + 2) = N - k - 1 /\ \A i \in Nat : i + (k + 2) - 1 = i + k + 1
      BY <1>2, <1>3
    <3>4. ASSUME NEW i \in 1 .. N - k - 1 PROVE b[i] = q[i + k + 1]
      <4>1. i + (k + 2) - 1 = i + k + 1
        BY <1>2, <1>3
      <4>2. b[i] = q[i + (k + 2) - 1]
        BY <3>2, <3>3
      <4> QED
        BY <4>1, <4>2
    <3>5. b \in Seq(z) /\ Len(b) = N - k - 1
      BY <3>2, <3>3
    <3> QED
      BY <3>4, <3>5
  <2>4. /\ u \in Seq(z) /\ Len(u) = N - k /\ u[1] = q[k + 1]
        /\ \A i \in 1 .. N - k - 1 : u[1 + i] = q[i + k + 1]
    <3>1. /\ u \in Seq(z) /\ Len(u) = Len(a) + Len(b)
          /\ \A i \in 1 .. Len(a) : u[i] = a[i]
          /\ \A i \in 1 .. Len(b) : u[Len(a) + i] = b[i]
      <4>1. a \in Seq(z) /\ b \in Seq(z)
        BY <2>2, <2>3
      <4>2. /\ a \o b \in Seq(z) /\ Len(a \o b) = Len(a) + Len(b)
            /\ \A i \in 1 .. Len(a) : (a \o b)[i] = a[i]
            /\ \A i \in 1 .. Len(b) : (a \o b)[Len(a) + i] = b[i]
        BY <4>1, ConcatIs
      <4> QED
        BY <1>6, <4>2
    <3>2. Len(u) = N - k
      BY <1>2, <1>3, <2>2, <2>3, <3>1
    <3>3. u[1] = q[k + 1]
      BY <2>2, <3>1
    <3> QED
      BY <2>2, <2>3, <3>1, <3>2, <3>3
  <2>5. ASSUME NEW i \in 1 .. N - k PROVE u[i] = v[i]
    <3>1. v[i] = w[i + k + 1]
      BY <1>7
    <3>2. PICK l : l = i + k
      OBVIOUS
    <3>3. l \in 1 .. N /\ i + k + 1 = l + 1
      BY <1>2, <1>3, <1>9, <3>2
    <3>4. q[l] = w[l + 1]
      BY <1>2, <3>3
    <3>5. CASE i = 1
      <4>1. l = k + 1
        BY <1>3, <3>2, <3>5
      <4> QED
        BY <2>4, <3>1, <3>3, <3>4, <3>5, <4>1
    <3>6. CASE i # 1
      <4>1. PICK j : j = i - 1
        OBVIOUS
      <4>2. j \in 1 .. N - k - 1 /\ 1 + j = i /\ j + k + 1 = l
        BY <1>2, <1>3, <1>9, <3>2, <3>6, <4>1
      <4>3. u[1 + j] = q[j + k + 1]
        BY <2>4, <4>2
      <4> QED
        BY <3>1, <3>3, <3>4, <4>2, <4>3
    <3> QED
      BY <3>5, <3>6
  <2>6. u = v
    BY <1>7, <2>4, <2>5, SameSeq
  <2>7. Len(b) <= N /\ Len(a) <= 1
    <3>1. Len(a) = 1 /\ Len(b) = N - k - 1
      BY <2>2, <2>3
    <3>2. N \in Nat /\ k \in Nat
      BY <1>2, <1>3
    <3> QED
      BY <3>1, <3>2
  <2> QED
    BY <1>1, <1>5, <1>6, <2>2, <2>3, <2>6, <2>7
<1>10. k = N \/ k < N
  BY <1>2, <1>3
<1> QED
  BY <1>8, <1>9, <1>10

-----------------------------------------------------------------------------
(***************************************************************************)
(* The turns' steps.                                                       *)
(***************************************************************************)
TurnType(s, n) == [at : {"work", "answer", "done"}, seg : 1 .. s, seen : BOOLEAN, made : [1 .. s -> 0 .. n]]

\* Turn t goes from tn[t] to r, and makes pieces or moves on.
Forward(s, n, t, tn, un) ==
    /\ un[t] \in TurnType(s, n) /\ \A g \in 1 .. s : g > un[t].seg => un[t].made[g] = 0
    /\ un = [tn EXCEPT ![t] = un[t]]
    /\ tn[t].seg <= un[t].seg /\ \A g \in 1 .. s : tn[t].made[g] <= un[t].made[g]
    /\ tn[t].at # "work" => un[t].at # "work"
    /\ tn[t].at = "done" => un[t].at = "done"

LEMMA ForwardOK ==
    ASSUME NEW s \in Nat, NEW n \in Nat, NEW t \in Turns, NEW tn, NEW un, TurnsOK(s, n, tn),
           Forward(s, n, t, tn, un)
    PROVE  TurnsOK(s, n, un) /\ Onward(n, s, tn, un)
<1>1. tn \in [Turns -> TurnType(s, n)]
  BY DEF TurnsOK, TurnType
<1>2. un \in [Turns -> TurnType(s, n)] /\ \A u \in Turns : u # t => un[u] = tn[u]
  BY <1>1 DEF Forward
<1>3. ASSUME NEW u \in Turns, NEW g \in 1 .. s, g > un[u].seg PROVE un[u].made[g] = 0
  <2>1. CASE u = t
    BY <1>3, <2>1 DEF Forward
  <2>2. CASE u # t
    BY <1>2, <1>3, <2>2 DEF TurnsOK
  <2> QED
    BY <2>1, <2>2
<1>4. TurnsOK(s, n, un)
  BY <1>2, <1>3 DEF TurnsOK, TurnType
<1>5. ASSUME NEW f, FrameOK(s, n, f), Past(n, tn, f) PROVE Past(n, un, f)
  <2>1. /\ Trn(f) \in Turns /\ Seg(f) \in 0 .. s /\ Nr(n, f) \in 1 .. n + 1
        /\ f.kind = "delta" => Seg(f) \in 1 .. s
    BY <1>5, FrameTypes
  <2>2. CASE Trn(f) # t
    <3>1. un[Trn(f)] = tn[Trn(f)]
      BY <1>2, <2>1, <2>2
    <3> QED
      BY <1>5, <3>1 DEF Past
  <2>3. CASE Trn(f) = t
    <3>1. /\ tn[t].seg \in 1 .. s /\ un[t].seg \in 1 .. s /\ tn[t].seg <= un[t].seg
          /\ \A g \in 1 .. s : tn[t].made[g] \in 0 .. n /\ un[t].made[g] \in 0 .. n
                               /\ tn[t].made[g] <= un[t].made[g]
      BY <1>4, TurnTypes DEF Forward
    <3>2. f.kind = "delta" => Nr(n, f) <= un[t].made[Seg(f)]
      <4> SUFFICES ASSUME f.kind = "delta" PROVE Nr(n, f) <= un[t].made[Seg(f)]
        OBVIOUS
      <4>1. PICK g \in 1 .. s : g = Seg(f)
        BY <2>1
      <4>2. Nr(n, f) <= tn[t].made[g] /\ Nr(n, f) \in Nat
        BY <1>5, <2>1, <2>3, <4>1 DEF Past
      <4>3. tn[t].made[g] \in Nat /\ un[t].made[g] \in Nat /\ tn[t].made[g] <= un[t].made[g]
        BY <3>1
      <4> QED
        BY <4>1, <4>2, <4>3
    <3>3. f.kind = "end" => Seg(f) < un[t].seg \/ un[t].at # "work"
      <4> SUFFICES ASSUME f.kind = "end" PROVE Seg(f) < un[t].seg \/ un[t].at # "work"
        OBVIOUS
      <4>1. Seg(f) < tn[t].seg \/ tn[t].at # "work"
        BY <1>5, <2>3 DEF Past
      <4>2. tn[t].at # "work" => un[t].at # "work"
        BY DEF Forward
      <4> QED
        BY <2>1, <3>1, <4>1, <4>2
    <3>4. f.kind \in Lasts => un[t].at = "done"
      BY <1>5, <2>3 DEF Past, Forward
    <3> QED
      BY <2>3, <3>2, <3>3, <3>4 DEF Past
  <2> QED
    BY <2>2, <2>3
<1> QED
  BY <1>4, <1>5 DEF Onward

\* The pieces made are those of before, if the turn makes none.
LEMMA SameMade ==
    ASSUME NEW s, NEW n, NEW t \in Turns, NEW tn, NEW un, Forward(s, n, t, tn, un),
           tn \in [Turns -> TurnType(s, n)],
           \A g \in 1 .. s : un[t].made[g] = tn[t].made[g]
    PROVE  \A p \in Pieces(s, n) : IsMade(un, p) <=> IsMade(tn, p)
<1> SUFFICES ASSUME NEW p \in Pieces(s, n) PROVE IsMade(un, p) <=> IsMade(tn, p)
  OBVIOUS
<1>1. p.of[1] \in Turns /\ p.of[2] \in 1 .. s
  BY PieceType
<1>2. \A u \in Turns : u # t => un[u] = tn[u]
  BY DEF Forward
<1>3. un[p.of[1]].made[p.of[2]] = tn[p.of[1]].made[p.of[2]]
  BY <1>1, <1>2
<1> QED
  BY <1>3 DEF IsMade

\* The messages of the turns.
LEMMA DeltaOK ==
    ASSUME NEW s \in Nat, NEW n \in Nat, NEW t \in Turns, NEW g \in 1 .. s, NEW k \in 1 .. n
    PROVE  /\ MsgOK(s, n, Delta(t, g, k)) /\ Single(Delta(t, g, k)) /\ Delta(t, g, k).kind = "delta"
           /\ Delta(t, g, k).text[1] = [of |-> Stream(t, g), nr |-> k]
           /\ First(Delta(t, g, k)).kind = "delta" /\ Trn(First(Delta(t, g, k))) = t
           /\ Seg(First(Delta(t, g, k))) = g /\ Nr(n, First(Delta(t, g, k))) = k
<1>1. PICK m, p : m = Delta(t, g, k) /\ p = [of |-> Stream(t, g), nr |-> k]
  OBVIOUS
<1>2. p \in Pieces(s, n) /\ p.of = <<t, g>> /\ p.of[1] = t /\ p.of[2] = g /\ p.nr = k
  BY <1>1 DEF Pieces, Stream
<1>3. m = [kind |-> "delta", turn |-> t, id |-> <<t, g>>, text |-> <<p>>, says |-> NoMsg]
  BY <1>1 DEF Delta, Stream
<1>4. <<p>> \in Seq(Pieces(s, n)) /\ Len(<<p>>) = 1 /\ <<p>>[1] = p
  BY <1>2
<1>5. /\ m.kind = "delta" /\ m.turn = t /\ m.id = <<t, g>> /\ m.text = <<p>> /\ m.says = NoMsg
  BY <1>3
<1>6. <<t, g>> \in Ids(s)
  BY DEF Ids
<1>7. m \in MsgType(s, n)
  BY <1>3, <1>4, <1>6 DEF MsgType, Kinds, Says
<1>8. MsgOK(s, n, m) /\ Single(m)
  <2>1. ASSUME NEW i \in 1 .. Len(m.text) PROVE ChatOf[m.text[i].of[1]] = ChatOf[m.turn]
    BY <1>2, <1>4, <1>5
  <2> QED
    BY <1>4, <1>5, <1>7, <2>1 DEF MsgOK, Single
<1>9. PICK f : f = First(m)
  OBVIOUS
<1>10. f.kind = "delta" /\ f.piece = p
  BY <1>4, <1>5, <1>9, FirstPiece
<1>11. Trn(f) = t /\ Seg(f) = g /\ Nr(n, f) = k
  BY <1>2, <1>10 DEF Trn, Seg, Nr
<1> QED
  BY <1>1, <1>4, <1>5, <1>8, <1>9, <1>10, <1>11

LEMMA EndOK ==
    ASSUME NEW s \in Nat, NEW n \in Nat, NEW t \in Turns, NEW g \in 1 .. s
    PROVE  /\ MsgOK(s, n, End(t, g)) /\ Single(End(t, g)) /\ End(t, g).kind = "end"
           /\ First(End(t, g)).kind = "end" /\ Trn(First(End(t, g))) = t
           /\ Seg(First(End(t, g))) = g /\ Nr(n, First(End(t, g))) = n + 1
<1>1. PICK m : m = End(t, g)
  OBVIOUS
<1>2. m = [kind |-> "end", turn |-> t, id |-> <<t, g>>, text |-> <<>>, says |-> NoMsg]
  BY <1>1 DEF End, Stream
<1>3. <<t, g>> \in Ids(s) /\ <<t, g>>[1] = t /\ <<t, g>>[2] = g
  BY DEF Ids
<1>4. PICK e : e = <<>>
  OBVIOUS
<1>5. e \in Seq(Pieces(s, n)) /\ Len(e) = 0
  BY <1>4
<1>6. m.kind = "end" /\ m.turn = t /\ m.id = <<t, g>> /\ m.text = e /\ m.says = NoMsg
  BY <1>2, <1>4
<1>7. m \in MsgType(s, n)
  BY <1>2, <1>3, <1>4, <1>5 DEF MsgType, Kinds, Says
<1>8. MsgOK(s, n, m) /\ Single(m)
  BY <1>3, <1>5, <1>6, <1>7 DEF MsgOK, Single
<1>9. PICK f : f = First(m)
  OBVIOUS
<1>10. f.kind = "end" /\ f.id = <<t, g>>
  BY <1>6, <1>9 DEF First
<1>11. Trn(f) = t /\ Seg(f) = g /\ Nr(n, f) = n + 1
  BY <1>3, <1>10 DEF Trn, Seg, Nr
<1> QED
  BY <1>1, <1>6, <1>8, <1>9, <1>10, <1>11

LEMMA FinalOK ==
    ASSUME NEW s \in Nat, NEW n \in Nat, NEW t \in Turns, NEW flag \in Lasts, NEW says \in Says
    PROVE  /\ MsgOK(s, n, Final(t, flag, says)) /\ Single(Final(t, flag, says))
           /\ Final(t, flag, says).kind = flag
           /\ First(Final(t, flag, says)).kind = flag /\ Trn(First(Final(t, flag, says))) = t
<1>1. PICK m : m = Final(t, flag, says)
  OBVIOUS
<1>2. m = [kind |-> flag, turn |-> t, id |-> <<t, 0>>, text |-> <<>>, says |-> says]
  BY <1>1 DEF Final, Stream
<1>3. <<t, 0>> \in Ids(s) /\ <<t, 0>>[1] = t
  BY DEF Ids
<1>4. PICK e : e = <<>>
  OBVIOUS
<1>5. e \in Seq(Pieces(s, n)) /\ Len(e) = 0
  BY <1>4
<1>6. m.kind = flag /\ m.turn = t /\ m.id = <<t, 0>> /\ m.text = e /\ m.says = says /\ flag # "delta"
  BY <1>2, <1>4 DEF Lasts
<1>7. m \in MsgType(s, n)
  BY <1>2, <1>3, <1>4, <1>5 DEF MsgType, Kinds, Lasts
<1>8. MsgOK(s, n, m) /\ Single(m)
  BY <1>3, <1>5, <1>6, <1>7 DEF MsgOK, Single
<1>9. PICK f : f = First(m)
  OBVIOUS
<1>10. f.kind = flag /\ f.id = <<t, 0>>
  BY <1>6, <1>9 DEF First
<1>11. Trn(f) = t
  BY <1>3, <1>6, <1>10 DEF Trn
<1> QED
  BY <1>1, <1>6, <1>8, <1>9, <1>10, <1>11

-----------------------------------------------------------------------------
(***************************************************************************)
(* What was said for whom.                                                 *)
(***************************************************************************)
FrameType(s, n) == [kind : {"delta", "end", "final"}, id : Ids(s), piece : Pieces(s, n) \cup Says]

\* What the readers of chat c were shown.
In(wr, c) == UNION {ToSet(wr[k]) : k \in Readers(c)}

\* A client was shown it as a final message, or it was given up.
Said(k, says, wr, rf) ==
    \E f \in In(wr, k[1]) \cup {Frames(r)[1] : r \in rf} :
        f.kind = "final" /\ f.piece = says /\ Key(f.id[1]) = k

\* What is remembered was said or is being sent; what was muted was said.
RepliesOK(ps, cr, wr, rf, mu) ==
    /\ DOMAIN ps \subseteq {Key(t) : t \in Turns}
    /\ \A k \in DOMAIN ps :
          \/ Said(k, ps[k], wr, rf)
          \/ cr # NoMsg /\ cr.kind = "final" /\ cr.says = ps[k] /\ Key(cr.turn) = k
    /\ \A m \in mu : Said(Key(m.turn), m.says, wr, rf)

(***************************************************************************)
(* The inductive invariant.                                                *)
(***************************************************************************)
EnvOK == left \in [turns : SUBSET Turns, segments : Nat \ {0}, pieces : Nat \ {0}, fails : Nat, moves : Nat]

Pipe == Flow(left.segments, left.pieces, turn, Waiting, cur, wire, failed, todo)

Everywhere == Located(left.segments, left.pieces, turn, Waiting, cur, wire, refused, failed, todo)

Sizes ==
    /\ queue \in Seq(MsgType(left.segments, left.pieces)) /\ Len(queue) <= QueueMax
    /\ held \in Seq(MsgType(left.segments, left.pieces)) /\ Len(held) <= 1
    /\ tries \in 0 .. MaxAttempts /\ (cur # NoMsg => tries < MaxAttempts)
    /\ running \in BOOLEAN /\ subs \subseteq Clients

Records ==
    /\ wire \in [Clients -> Seq(FrameType(left.segments, left.pieces))]
    /\ log \in [Chats -> Seq(FrameType(left.segments, left.pieces))]
    /\ \A m \in muted \cup failed : MsgOK(left.segments, left.pieces, m)
    /\ LogHasAll

Replied == RepliesOK(prints, cur, wire, refused, muted)

\* An attempt goes on: of a message to connections of its chat, whose
\* transcript has it.
TodoOK ==
    todo # {} => /\ cur # NoMsg /\ cur.kind # "streamed" /\ To \notin CardChats
                 /\ todo \subseteq Readers(To) /\ ToSet(Frames(cur)) \subseteq ToSet(log[To])

IInv == EnvOK /\ Pipe /\ Everywhere /\ Sizes /\ Records /\ Replied /\ TodoOK

LEMMA EnvTypes ==
    ASSUME EnvOK
    PROVE  /\ left.segments \in Nat /\ left.pieces \in Nat /\ left.fails \in Nat /\ left.moves \in Nat
           /\ left.turns \subseteq Turns /\ 1 \in 1 .. left.segments
  BY DEF EnvOK

LEMMA AppendBehind ==
    ASSUME NEW z, NEW a \in Seq(z), NEW b \in Seq(z), NEW m \in z
    PROVE  /\ a \o Append(b, m) = Append(a \o b, m)
           /\ Append(b, m) \in Seq(z) /\ Len(Append(b, m)) = Len(b) + 1 /\ a \o b \in Seq(z)
<1>1. PICK c, d : c = a \o Append(b, m) /\ d = Append(a \o b, m)
  OBVIOUS
<1>2. /\ c \in Seq(z) /\ d \in Seq(z) /\ Len(c) = Len(a) + Len(b) + 1 /\ Len(d) = Len(c)
      /\ Len(a) \in Nat /\ Len(b) \in Nat
  BY <1>1
<1>3. \A k \in 1 .. Len(c) : c[k] = d[k]
  BY <1>1, <1>2
<1>4. c = d
  BY <1>2, <1>3, SameSeq
<1> QED
  BY <1>1, <1>4

LEMMA WaitingType ==
    ASSUME Sizes
    PROVE  Waiting \in Seq(MsgType(left.segments, left.pieces)) /\ Len(Waiting) = Len(held) + Len(queue)
  BY DEF Sizes, Waiting

\* A turn publishes a message.
LEMMA PublishStep ==
    ASSUME IInv, NEW t \in Turns, NEW m, Publish(m), OnlyPublishes,
           Forward(left.segments, left.pieces, t, turn, turn'),
           MsgOK(left.segments, left.pieces, m), Single(m), Past(left.pieces, turn', First(m)),
           \A f : FrameOK(left.segments, left.pieces, f) /\ Past(left.pieces, turn, f) =>
                    Ord(left.pieces, f, First(m)),
           \A p \in Pieces(left.segments, left.pieces) :
              IsMade(turn', p) <=> IsMade(turn, p) \/ (m.kind = "delta" /\ m.text[1] = p),
           m.kind = "delta" => ~IsMade(turn, m.text[1])
    PROVE  IInv'
<1>a. PICK s, n, un : s = left.segments /\ n = left.pieces /\ un = turn'
  OBVIOUS
<1>b. PICK w, v : w = Waiting /\ v = Waiting'
  OBVIOUS
<1>c. IInv
  OBVIOUS
<1>1. s \in Nat /\ n \in Nat
  BY <1>a, <1>c, EnvTypes DEF IInv
<1>2. UNCHANGED <<left, held, cur, todo, tries, running, subs, log, card, prints, wire, refused, muted, failed>>
  BY DEF OnlyPublishes, history
<1>3. /\ queue \in Seq(MsgType(s, n)) /\ held \in Seq(MsgType(s, n)) /\ Len(queue) < QueueMax
      /\ queue' = Append(queue, m) /\ m \in MsgType(s, n) /\ QueueMax \in Nat
  BY <1>a, <1>c, DeliveryAssumption DEF IInv, Sizes, Publish, MsgOK, DeliveryAssumption
<1>4. v = Append(w, m) /\ w \in Seq(MsgType(s, n)) /\ queue' \in Seq(MsgType(s, n)) /\ Len(queue') = Len(queue) + 1
  BY <1>2, <1>3, <1>b, AppendBehind DEF Waiting
<1>5. Len(queue') <= QueueMax
  BY <1>3, <1>4
<1>6. TurnsOK(s, n, un) /\ Onward(n, s, turn, un)
  <2>1. TurnsOK(s, n, turn) /\ Forward(s, n, t, turn, un)
    BY <1>a, <1>c DEF IInv, Pipe, Flow
  <2> QED
    BY <1>1, <2>1, ForwardOK
<1>7. Pipe'
  <2>1. Flow(s, n, turn, w, cur, wire, failed, todo)
    BY <1>a, <1>b, <1>c DEF IInv, Pipe
  <2>2. /\ MsgOK(s, n, m) /\ Single(m) /\ Past(n, un, First(m))
        /\ \A f : FrameOK(s, n, f) /\ Past(n, turn, f) => Ord(n, f, First(m))
    BY <1>a
  <2>3. Flow(s, n, un, Append(w, m), cur, wire, failed, todo)
    BY <1>1, <1>6, <2>1, <2>2, FlowPublish
  <2> QED
    BY <1>2, <1>4, <1>a, <1>b, <2>3 DEF Pipe
<1>8. Everywhere'
  <2>1. Located(s, n, turn, w, cur, wire, refused, failed, todo)
    BY <1>a, <1>b, <1>c DEF IInv, Everywhere
  <2>2. /\ \A p \in Pieces(s, n) :
              IsMade(un, p) <=> IsMade(turn, p) \/ (m.kind = "delta" /\ m.text[1] = p)
        /\ m.kind = "delta" => ~IsMade(turn, m.text[1])
    BY <1>a
  <2>3. Located(s, n, un, Append(w, m), cur, wire, refused, failed, todo)
    BY <1>1, <1>3, <1>4, <2>1, <2>2, LocatedPublish
  <2> QED
    BY <1>2, <1>4, <1>a, <1>b, <2>3 DEF Everywhere
<1>9. EnvOK' /\ Sizes' /\ Records' /\ Replied' /\ TodoOK'
  <2>1. EnvOK'
    BY <1>2, <1>c DEF IInv, EnvOK
  <2>2. Sizes'
    BY <1>2, <1>4, <1>5, <1>a, <1>c DEF IInv, Sizes
  <2>3. Records'
    BY <1>2, <1>c DEF IInv, Records, LogHasAll
  <2>4. Replied' /\ TodoOK'
    BY <1>2, <1>c DEF IInv, Replied, TodoOK, To
  <2> QED
    BY <2>1, <2>2, <2>3, <2>4
<1> QED
  BY <1>7, <1>8, <1>9 DEF IInv

\* A turn goes on and publishes nothing.
LEMMA QuietStep ==
    ASSUME IInv, NEW t \in Turns, EnvOK', left'.segments = left.segments, left'.pieces = left.pieces,
           Forward(left.segments, left.pieces, t, turn, turn'),
           \A g \in 1 .. left.segments : turn'[t].made[g] = turn[t].made[g],
           UNCHANGED <<queue, held, cur, todo, tries, running, subs, log, card, prints, history>>
    PROVE  IInv'
<1>a. PICK s, n, un : s = left.segments /\ n = left.pieces /\ un = turn'
  OBVIOUS
<1>b. PICK w : w = Waiting
  OBVIOUS
<1>c. IInv
  OBVIOUS
<1>1. s \in Nat /\ n \in Nat /\ s = left'.segments /\ n = left'.pieces
  BY <1>a, <1>c, EnvTypes DEF IInv
<1>2. /\ UNCHANGED <<queue, held, cur, todo, tries, running, subs, log, card, prints, wire, refused, muted, failed>>
      /\ Waiting' = w
  BY <1>b DEF history, Waiting
<1>3. TurnsOK(s, n, turn) /\ Forward(s, n, t, turn, un)
  BY <1>a, <1>c DEF IInv, Pipe, Flow
<1>4. TurnsOK(s, n, un) /\ Onward(n, s, turn, un)
  BY <1>1, <1>3, ForwardOK
<1>5. Pipe'
  <2>1. Flow(s, n, turn, w, cur, wire, failed, todo)
    BY <1>a, <1>b, <1>c DEF IInv, Pipe
  <2>2. Flow(s, n, un, w, cur, wire, failed, todo)
    BY <1>1, <1>4, <2>1, FlowQuiet
  <2> QED
    BY <1>1, <1>2, <1>a, <2>2 DEF Pipe
<1>6. Everywhere'
  <2>1. Located(s, n, turn, w, cur, wire, refused, failed, todo)
    BY <1>a, <1>b, <1>c DEF IInv, Everywhere
  <2>2. turn \in [Turns -> TurnType(s, n)] /\ \A g \in 1 .. s : un[t].made[g] = turn[t].made[g]
    BY <1>3, <1>a DEF TurnsOK, TurnType
  <2>3. \A p \in Pieces(s, n) : IsMade(un, p) <=> IsMade(turn, p)
    BY <1>3, <2>2, SameMade
  <2>4. Located(s, n, un, w, cur, wire, refused, failed, todo)
    BY <2>1, <2>3, LocatedQuiet
  <2> QED
    BY <1>1, <1>2, <1>a, <2>4 DEF Everywhere
<1>7. Sizes' /\ Records' /\ Replied' /\ TodoOK'
  <2>1. Sizes'
    BY <1>1, <1>2, <1>a, <1>c DEF IInv, Sizes
  <2>2. Records'
    BY <1>1, <1>2, <1>a, <1>c DEF IInv, Records, LogHasAll
  <2>3. Replied' /\ TodoOK'
    BY <1>2, <1>c DEF IInv, Replied, TodoOK, To
  <2> QED
    BY <2>1, <2>2, <2>3
<1> QED
  BY <1>5, <1>6, <1>7 DEF IInv

\* What a turn's action starts from.
LEMMA TurnFacts ==
    ASSUME IInv, NEW t \in Turns
    PROVE  /\ left.segments \in Nat /\ left.pieces \in Nat
           /\ TurnsOK(left.segments, left.pieces, turn)
           /\ turn \in [Turns -> TurnType(left.segments, left.pieces)]
           /\ turn[t] \in TurnType(left.segments, left.pieces)
           /\ turn[t].at \in {"work", "answer", "done"} /\ turn[t].seg \in 1 .. left.segments
           /\ Made(t) = turn[t].made[turn[t].seg] /\ Made(t) \in 0 .. left.pieces
           /\ turn[t].made \in [1 .. left.segments -> 0 .. left.pieces] /\ turn[t].seen \in BOOLEAN
           /\ \A g \in 1 .. left.segments :
                 turn[t].made[g] \in 0 .. left.pieces /\ (g > turn[t].seg => turn[t].made[g] = 0)
<1>1. left.segments \in Nat /\ left.pieces \in Nat
  BY EnvTypes DEF IInv
<1>2. TurnsOK(left.segments, left.pieces, turn)
  BY DEF IInv, Pipe, Flow
<1>3. turn \in [Turns -> TurnType(left.segments, left.pieces)]
  BY <1>2 DEF TurnsOK, TurnType
<1>4. turn[t] \in TurnType(left.segments, left.pieces)
  BY <1>3
<1>5. turn[t].made \in [1 .. left.segments -> 0 .. left.pieces] /\ turn[t].seen \in BOOLEAN
  BY <1>4 DEF TurnType
<1>6. /\ turn[t].at \in {"work", "answer", "done"} /\ turn[t].seg \in 1 .. left.segments
      /\ \A g \in 1 .. left.segments :
            turn[t].made[g] \in 0 .. left.pieces /\ (g > turn[t].seg => turn[t].made[g] = 0)
  BY <1>1, <1>2, TurnTypes
<1> QED
  BY <1>1, <1>2, <1>3, <1>4, <1>5, <1>6 DEF Made

LEMMA StreamsStep ==
    ASSUME IInv, NEW t \in Turns, Streams(t)
    PROVE  IInv'
<1>a. PICK s, n, g, k : s = left.segments /\ n = left.pieces /\ g = turn[t].seg /\ k = Made(t) + 1
  OBVIOUS
<1>b. PICK un, m : un = turn' /\ m = Delta(t, g, k)
  OBVIOUS
<1>c. PICK o : o = turn[t]
  OBVIOUS
<1>1. /\ s \in Nat /\ n \in Nat /\ TurnsOK(s, n, turn) /\ turn \in [Turns -> TurnType(s, n)]
      /\ o \in TurnType(s, n) /\ g \in 1 .. s /\ g = o.seg /\ o.made \in [1 .. s -> 0 .. n]
      /\ \A h \in 1 .. s : o.made[h] \in 0 .. n /\ (h > g => o.made[h] = 0)
      /\ Made(t) = o.made[g]
  BY <1>a, <1>c, TurnFacts
<1>2. /\ Publish(m) /\ OnlyPublishes /\ o.at = "work" /\ o.made[g] < n
      /\ un = [turn EXCEPT ![t].made[g] = @ + 1]
  BY <1>1, <1>a, <1>b, <1>c DEF Streams
<1>3. k = o.made[g] + 1 /\ k \in 1 .. n
  <2>1. PICK j : j = o.made[g]
    OBVIOUS
  <2>2. j \in 0 .. n /\ n \in Nat
    BY <1>1, <2>1
  <2>3. j < n
    BY <1>2, <2>1
  <2>4. k = j + 1
    BY <1>1, <1>a, <2>1
  <2>5. k \in 1 .. n
    BY <2>2, <2>3, <2>4
  <2> QED
    BY <2>1, <2>4, <2>5
<1>4. PICK r : r = [o EXCEPT !.made = [o.made EXCEPT ![g] = k]]
  OBVIOUS
<1>5. un = [turn EXCEPT ![t] = r]
  BY <1>1, <1>2, <1>3, <1>4, <1>c
<1>6. /\ r \in TurnType(s, n) /\ r.at = "work" /\ r.seg = g /\ r.made[g] = k
      /\ \A h \in 1 .. s : h # g => r.made[h] = o.made[h]
  <2>1. PICK d : d = [o.made EXCEPT ![g] = k]
    OBVIOUS
  <2>2. k \in 0 .. n
    BY <1>1, <1>3
  <2>3. d \in [1 .. s -> 0 .. n] /\ d[g] = k /\ \A h \in 1 .. s : h # g => d[h] = o.made[h]
    BY <1>1, <2>1, <2>2
  <2>4. r = [o EXCEPT !.made = d]
    BY <1>4, <2>1
  <2>5. r \in TurnType(s, n) /\ r.at = o.at /\ r.seg = o.seg /\ r.made = d
    BY <1>1, <2>3, <2>4 DEF TurnType
  <2> QED
    BY <1>1, <1>2, <2>3, <2>5
<1>7. un[t] = r /\ \A u \in Turns : u # t => un[u] = turn[u]
  BY <1>1, <1>5
<1>8. Forward(s, n, t, turn, un)
  <2>1. \A h \in 1 .. s : h > r.seg => r.made[h] = 0
    BY <1>1, <1>6
  <2>2. ASSUME NEW h \in 1 .. s PROVE o.made[h] <= r.made[h]
    <3>1. o.made[h] \in Nat /\ (h # g => r.made[h] = o.made[h])
      BY <1>1, <1>6
    <3>2. r.made[g] = o.made[g] + 1
      BY <1>3, <1>6
    <3> QED
      BY <3>1, <3>2
  <2>3. o.seg <= r.seg
    BY <1>1, <1>6
  <2> QED
    BY <1>2, <1>5, <1>6, <1>7, <1>c, <2>1, <2>2, <2>3 DEF Forward
<1>9. /\ MsgOK(s, n, m) /\ Single(m) /\ m.kind = "delta" /\ m.text[1] = [of |-> Stream(t, g), nr |-> k]
      /\ First(m).kind = "delta" /\ Trn(First(m)) = t /\ Seg(First(m)) = g /\ Nr(n, First(m)) = k
  BY <1>1, <1>3, <1>b, DeltaOK
<1>10. Past(n, un, First(m))
  <2>1. Nr(n, First(m)) <= un[t].made[g]
    BY <1>3, <1>6, <1>7, <1>9
  <2> QED
    BY <1>9, <2>1 DEF Past, Lasts
<1>11. ASSUME NEW f, FrameOK(s, n, f), Past(n, turn, f) PROVE Ord(n, f, First(m))
  <2>1. /\ Trn(First(m)) \in Turns /\ turn[Trn(First(m))].at = "work"
        /\ Seg(First(m)) = turn[Trn(First(m))].seg
        /\ Nr(n, First(m)) = turn[Trn(First(m))].made[Seg(First(m))] + 1
    BY <1>1, <1>2, <1>3, <1>9, <1>c
  <2> QED
    BY <1>1, <1>9, <1>11, <2>1, NextDelta
<1>12. PICK p : p = m.text[1]
  OBVIOUS
<1>13. p.of[1] = t /\ p.of[2] = g /\ p.nr = k /\ p = [of |-> <<t, g>>, nr |-> k]
  BY <1>9, <1>12 DEF Stream
<1>14. ~IsMade(turn, p)
  <2>1. turn[p.of[1]].made[p.of[2]] = o.made[g]
    BY <1>13, <1>c
  <2>2. p.nr = o.made[g] + 1 /\ o.made[g] \in Nat
    BY <1>1, <1>3, <1>13
  <2> QED
    BY <2>1, <2>2 DEF IsMade
<1>15. ASSUME NEW x \in Pieces(s, n) PROVE IsMade(un, x) <=> IsMade(turn, x) \/ x = p
  <2>1. PICK u, h, j : u = x.of[1] /\ h = x.of[2] /\ j = x.nr
    OBVIOUS
  <2>2. u \in Turns /\ h \in 1 .. s /\ j \in 1 .. n
    BY <2>1, PieceType
  <2>3. x = [of |-> <<u, h>>, nr |-> j]
    BY <2>1 DEF Pieces
  <2>4. (IsMade(un, x) <=> j <= un[u].made[h]) /\ (IsMade(turn, x) <=> j <= turn[u].made[h])
    BY <2>1 DEF IsMade
  <2>5. CASE u = t /\ h = g
    <3>1. x = p <=> j = k
      BY <1>13, <2>1, <2>3, <2>5
    <3>2. un[u].made[h] = k /\ turn[u].made[h] = o.made[g] /\ o.made[g] \in Nat
      BY <1>1, <1>6, <1>7, <1>c, <2>5
    <3> QED
      BY <1>3, <2>2, <2>4, <3>1, <3>2
  <2>6. CASE ~(u = t /\ h = g)
    <3>1. un[u].made[h] = turn[u].made[h]
      BY <1>6, <1>7, <1>c, <2>2, <2>6
    <3>2. x # p
      BY <1>13, <2>1, <2>6
    <3> QED
      BY <2>4, <3>1, <3>2
  <2> QED
    BY <2>5, <2>6
<1> QED
  <2>1. /\ Forward(left.segments, left.pieces, t, turn, turn')
        /\ MsgOK(left.segments, left.pieces, m) /\ Single(m) /\ Past(left.pieces, turn', First(m))
    BY <1>8, <1>9, <1>10, <1>a, <1>b
  <2>2. \A f : FrameOK(left.segments, left.pieces, f) /\ Past(left.pieces, turn, f) =>
                Ord(left.pieces, f, First(m))
    BY <1>11, <1>a
  <2>3. \A x \in Pieces(left.segments, left.pieces) :
          IsMade(turn', x) <=> IsMade(turn, x) \/ (m.kind = "delta" /\ m.text[1] = x)
    BY <1>9, <1>12, <1>15, <1>a, <1>b
  <2>4. m.kind = "delta" => ~IsMade(turn, m.text[1])
    BY <1>12, <1>14
  <2> QED
    BY <1>2, <2>1, <2>2, <2>3, <2>4, PublishStep

\* A message without text: the turn has the pieces it had.
LEMMA TextlessStep ==
    ASSUME IInv, NEW t \in Turns, NEW m, Publish(m), OnlyPublishes, m.kind # "delta",
           Forward(left.segments, left.pieces, t, turn, turn'),
           \A g \in 1 .. left.segments : turn'[t].made[g] = turn[t].made[g],
           MsgOK(left.segments, left.pieces, m), Single(m), Past(left.pieces, turn', First(m)),
           \A f : FrameOK(left.segments, left.pieces, f) /\ Past(left.pieces, turn, f) =>
                    Ord(left.pieces, f, First(m))
    PROVE  IInv'
<1>a. PICK s, n, un : s = left.segments /\ n = left.pieces /\ un = turn'
  OBVIOUS
<1>1. turn \in [Turns -> TurnType(s, n)]
  BY <1>a, TurnFacts
<1>2. Forward(s, n, t, turn, un) /\ \A g \in 1 .. s : un[t].made[g] = turn[t].made[g]
  BY <1>a
<1>3. \A p \in Pieces(s, n) : IsMade(un, p) <=> IsMade(turn, p)
  BY <1>1, <1>2, SameMade
<1>4. \A p \in Pieces(left.segments, left.pieces) :
          IsMade(turn', p) <=> IsMade(turn, p) \/ (m.kind = "delta" /\ m.text[1] = p)
  BY <1>3, <1>a
<1> QED
  BY <1>4, PublishStep

\* The end of a segment.
LEMMA EndStep ==
    ASSUME IInv, NEW t \in Turns, NEW r, turn[t].at = "work", Publish(End(t, turn[t].seg)), OnlyPublishes,
           turn' = [turn EXCEPT ![t] = r], r \in TurnType(left.segments, left.pieces),
           r.made = turn[t].made,
           \/ r.at = "work" /\ r.seg = turn[t].seg + 1
           \/ r.at = "answer" /\ r.seg = turn[t].seg
    PROVE  IInv'
<1>a. PICK s, n, g, o : s = left.segments /\ n = left.pieces /\ g = turn[t].seg /\ o = turn[t]
  OBVIOUS
<1>b. PICK un, m : un = turn' /\ m = End(t, g)
  OBVIOUS
<1>1. /\ s \in Nat /\ n \in Nat /\ TurnsOK(s, n, turn) /\ turn \in [Turns -> TurnType(s, n)]
      /\ g \in 1 .. s /\ \A h \in 1 .. s : o.made[h] \in 0 .. n /\ (h > g => o.made[h] = 0)
  BY <1>a, TurnFacts
<1>2. /\ un = [turn EXCEPT ![t] = r] /\ r \in TurnType(s, n) /\ r.made = o.made
      /\ (r.at = "work" /\ r.seg = g + 1) \/ (r.at = "answer" /\ r.seg = g)
  BY <1>a, <1>b
<1>3. un[t] = r
  BY <1>1, <1>2
<1>4. Forward(s, n, t, turn, un)
  <2>1. \A h \in 1 .. s : h > r.seg => r.made[h] = 0
    BY <1>1, <1>2
  <2>2. \A h \in 1 .. s : turn[t].made[h] <= un[t].made[h]
    BY <1>1, <1>2, <1>3, <1>a
  <2>3. turn[t].seg <= r.seg
    BY <1>1, <1>2, <1>a
  <2>4. turn[t].at = "work"
    OBVIOUS
  <2> QED
    BY <1>2, <1>3, <2>1, <2>2, <2>3, <2>4 DEF Forward
<1>5. /\ MsgOK(s, n, m) /\ Single(m) /\ m.kind = "end" /\ First(m).kind = "end"
      /\ Trn(First(m)) = t /\ Seg(First(m)) = g /\ Nr(n, First(m)) = n + 1
  BY <1>1, <1>b, EndOK
<1>6. Past(n, un, First(m))
  <2>1. g < r.seg \/ r.at # "work"
    BY <1>1, <1>2
  <2> QED
    BY <1>3, <1>5, <2>1 DEF Past, Lasts
<1>7. ASSUME NEW f, FrameOK(s, n, f), Past(n, turn, f) PROVE Ord(n, f, First(m))
  <2>1. /\ Trn(First(m)) \in Turns /\ turn[Trn(First(m))].at = "work"
        /\ Seg(First(m)) = turn[Trn(First(m))].seg
    BY <1>5, <1>a
  <2> QED
    BY <1>1, <1>5, <1>7, <2>1, NextEnd
<1> QED
  <2>1. /\ Forward(left.segments, left.pieces, t, turn, turn')
        /\ MsgOK(left.segments, left.pieces, m) /\ Single(m) /\ Past(left.pieces, turn', First(m))
        /\ Publish(m) /\ m.kind # "delta"
    BY <1>4, <1>5, <1>6, <1>a, <1>b
  <2>2. \A f : FrameOK(left.segments, left.pieces, f) /\ Past(left.pieces, turn, f) =>
                Ord(left.pieces, f, First(m))
    BY <1>7, <1>a
  <2>3. \A h \in 1 .. left.segments : turn'[t].made[h] = turn[t].made[h]
    BY <1>2, <1>3, <1>a, <1>b
  <2> QED
    BY <2>1, <2>2, <2>3, TextlessStep

\* The final message, or none.
LEMMA LastStep ==
    ASSUME IInv, NEW t \in Turns, turn[t].at # "done", turn' = [turn EXCEPT ![t].at = "done"],
           NEW flag \in Lasts, NEW says \in Says, Publish(Final(t, flag, says)), OnlyPublishes
    PROVE  IInv'
<1>a. PICK s, n, o : s = left.segments /\ n = left.pieces /\ o = turn[t]
  OBVIOUS
<1>b. PICK un, m : un = turn' /\ m = Final(t, flag, says)
  OBVIOUS
<1>1. /\ s \in Nat /\ n \in Nat /\ TurnsOK(s, n, turn) /\ turn \in [Turns -> TurnType(s, n)]
      /\ o \in TurnType(s, n) /\ o.seg \in 1 .. s
      /\ \A h \in 1 .. s : o.made[h] \in 0 .. n /\ (h > o.seg => o.made[h] = 0)
  BY <1>a, TurnFacts
<1>2. PICK r : r = [o EXCEPT !.at = "done"]
  OBVIOUS
<1>3. un = [turn EXCEPT ![t] = r] /\ un[t] = r
  BY <1>1, <1>2, <1>a, <1>b
<1>4. r \in TurnType(s, n) /\ r.at = "done" /\ r.seg = o.seg /\ r.made = o.made
  BY <1>1, <1>2 DEF TurnType
<1>5. Forward(s, n, t, turn, un)
  <2>1. \A h \in 1 .. s : (h > r.seg => r.made[h] = 0) /\ turn[t].made[h] <= r.made[h]
    BY <1>1, <1>4, <1>a
  <2>2. turn[t].seg <= r.seg
    BY <1>1, <1>4, <1>a
  <2> QED
    BY <1>3, <1>4, <2>1, <2>2 DEF Forward
<1>6. /\ MsgOK(s, n, m) /\ Single(m) /\ m.kind = flag /\ First(m).kind = flag /\ Trn(First(m)) = t
  BY <1>1, <1>b, FinalOK
<1>7. Past(n, un, First(m))
  BY <1>3, <1>4, <1>6 DEF Past, Lasts
<1>8. ASSUME NEW f, FrameOK(s, n, f), Past(n, turn, f) PROVE Ord(n, f, First(m))
  BY <1>6, <1>8, NextLast
<1> QED
  <2>1. /\ Forward(left.segments, left.pieces, t, turn, turn')
        /\ MsgOK(left.segments, left.pieces, m) /\ Single(m) /\ Past(left.pieces, turn', First(m))
        /\ Publish(m) /\ m.kind # "delta"
    BY <1>5, <1>6, <1>7, <1>a, <1>b DEF Lasts
  <2>2. \A f : FrameOK(left.segments, left.pieces, f) /\ Past(left.pieces, turn, f) =>
                Ord(left.pieces, f, First(m))
    BY <1>8, <1>a
  <2>3. \A h \in 1 .. left.segments : turn'[t].made[h] = turn[t].made[h]
    BY <1>3, <1>4, <1>a, <1>b
  <2> QED
    BY <2>1, <2>2, <2>3, TextlessStep

\* A turn stops making pieces, silently.
LEMMA SilentStep ==
    ASSUME IInv, NEW t \in Turns, NEW r, turn' = [turn EXCEPT ![t] = r],
           r \in TurnType(left.segments, left.pieces), r.made = turn[t].made, r.seg = turn[t].seg,
           r.at # "work", turn[t].at # "done",
           EnvOK', left'.segments = left.segments, left'.pieces = left.pieces,
           UNCHANGED <<queue, held, cur, todo, tries, running, subs, log, card, prints, history>>
    PROVE  IInv'
<1>1. /\ turn \in [Turns -> TurnType(left.segments, left.pieces)]
      /\ turn[t].seg \in 1 .. left.segments
      /\ \A g \in 1 .. left.segments :
            turn[t].made[g] \in 0 .. left.pieces /\ (g > turn[t].seg => turn[t].made[g] = 0)
  BY TurnFacts
<1>2. turn'[t] = r
  BY <1>1
<1>3. Forward(left.segments, left.pieces, t, turn, turn')
  <2>1. \A h \in 1 .. left.segments : (h > r.seg => r.made[h] = 0) /\ turn[t].made[h] <= r.made[h]
    BY <1>1
  <2>2. turn[t].seg <= r.seg
    BY <1>1
  <2> QED
    BY <1>2, <2>1, <2>2 DEF Forward
<1> QED
  BY <1>2, <1>3, QuietStep

\* The turn is done and has no message.
LEMMA NoneStep ==
    ASSUME IInv, NEW t \in Turns, turn[t].at # "done", turn' = [turn EXCEPT ![t].at = "done"],
           queue' = queue, OnlyPublishes
    PROVE  IInv'
<1>a. PICK o : o = turn[t]
  OBVIOUS
<1>1. o \in TurnType(left.segments, left.pieces) /\ turn \in [Turns -> TurnType(left.segments, left.pieces)]
  BY <1>a, TurnFacts
<1>2. PICK r : r = [o EXCEPT !.at = "done"]
  OBVIOUS
<1>3. turn' = [turn EXCEPT ![t] = r]
  BY <1>1, <1>2, <1>a
<1>4. r \in TurnType(left.segments, left.pieces) /\ r.made = o.made /\ r.at = "done" /\ r.seg = o.seg
  BY <1>1, <1>2 DEF TurnType
<1>5. left' = left /\ UNCHANGED <<queue, held, cur, todo, tries, running, subs, log, card, prints, history>>
  BY DEF OnlyPublishes
<1>6. EnvOK' /\ left'.segments = left.segments /\ left'.pieces = left.pieces
  BY <1>5 DEF IInv, EnvOK
<1> QED
  BY <1>3, <1>4, <1>5, <1>6, <1>a, SilentStep

LEMMA TurnSteps ==
    ASSUME IInv, NEW t \in Turns, TurnStep(t)
    PROVE  IInv'
<1>a. PICK o : o = turn[t]
  OBVIOUS
<1>1. /\ o \in TurnType(left.segments, left.pieces) /\ turn \in [Turns -> TurnType(left.segments, left.pieces)]
      /\ o.seg \in 1 .. left.segments /\ left.segments \in Nat
  BY <1>a, TurnFacts
<1>2. CASE Streams(t)
  BY <1>2, StreamsStep
<1>3. CASE Resumes(t)
  <2>1. PICK r : r = [o EXCEPT !.seg = o.seg + 1]
    OBVIOUS
  <2>2. turn[t].at = "work" /\ turn[t].seg < left.segments /\ Publish(End(t, turn[t].seg)) /\ OnlyPublishes
    BY <1>3 DEF Resumes
  <2>3. turn' = [turn EXCEPT ![t] = r]
    BY <1>3, <1>a, <2>1 DEF Resumes
  <2>4. r \in TurnType(left.segments, left.pieces) /\ r.made = o.made /\ r.at = o.at /\ r.seg = o.seg + 1
    <3>1. o.seg + 1 \in 1 .. left.segments
      BY <1>1, <1>a, <2>2
    <3> QED
      BY <1>1, <2>1, <3>1 DEF TurnType
  <2> QED
    BY <1>a, <2>2, <2>3, <2>4, EndStep
<1>4. CASE EndsStream(t)
  <2>1. PICK seen \in BOOLEAN : turn' = [turn EXCEPT ![t].at = "answer", ![t].seen = seen]
    BY <1>4 DEF EndsStream
  <2>2. turn[t].at = "work" /\ Publish(End(t, turn[t].seg)) /\ OnlyPublishes
    BY <1>4 DEF EndsStream
  <2>3. PICK r : r = [o EXCEPT !.at = "answer", !.seen = seen]
    OBVIOUS
  <2>4. turn' = [turn EXCEPT ![t] = r]
    BY <1>1, <1>a, <2>1, <2>3
  <2>5. r \in TurnType(left.segments, left.pieces) /\ r.made = o.made /\ r.at = "answer" /\ r.seg = o.seg
    BY <1>1, <2>3 DEF TurnType
  <2> QED
    BY <1>a, <2>2, <2>4, <2>5, EndStep
<1>5. CASE GivesUp(t)
  <2>1. PICK r : r = [o EXCEPT !.at = "answer", !.seen = FALSE]
    OBVIOUS
  <2>2. turn' = [turn EXCEPT ![t] = r] /\ turn[t].at = "work"
    BY <1>1, <1>5, <1>a, <2>1 DEF GivesUp
  <2>3. r \in TurnType(left.segments, left.pieces) /\ r.made = o.made /\ r.at = "answer" /\ r.seg = o.seg
    BY <1>1, <2>1 DEF TurnType
  <2>4. left' = left /\ UNCHANGED <<queue, held, cur, todo, tries, running, subs, log, card, prints, history>>
    BY <1>5 DEF GivesUp, OnlyPublishes
  <2>5. EnvOK' /\ left'.segments = left.segments /\ left'.pieces = left.pieces
    BY <2>4 DEF IInv, EnvOK
  <2> QED
    BY <1>a, <2>2, <2>3, <2>4, <2>5, SilentStep
<1>6. CASE Answers(t)
  <2>1. turn[t].at # "done" /\ turn' = [turn EXCEPT ![t].at = "done"] /\ OnlyPublishes
    BY <1>6 DEF Answers
  <2>2. CASE \E flag \in Lasts, says \in Says : Publish(Final(t, flag, says))
    BY <2>1, <2>2, LastStep
  <2>3. CASE queue' = queue
    BY <2>1, <2>3, NoneStep
  <2>4. (\E flag \in Lasts, says \in Says : Publish(Final(t, flag, says))) \/ queue' = queue
    BY <1>6 DEF Answers, Lasts, Says
  <2> QED
    BY <2>2, <2>3, <2>4
<1>7. CASE Replies(t)
  <2>1. turn[t].at # "done" /\ turn' = [turn EXCEPT ![t].at = "done"] /\ OnlyPublishes
    BY <1>7 DEF Replies
  <2>2. CASE \E flag \in Lasts, says \in Says : Publish(Final(t, flag, says))
    BY <2>1, <2>2, LastStep
  <2>3. CASE queue' = queue
    BY <2>1, <2>3, NoneStep
  <2>4. (\E flag \in Lasts, says \in Says : Publish(Final(t, flag, says))) \/ queue' = queue
    BY <1>7 DEF Replies, Lasts, Says
  <2> QED
    BY <2>2, <2>3, <2>4
<1>8. CASE Stopped(t)
  <2>1. PICK r : r = [o EXCEPT !.at = "done"]
    OBVIOUS
  <2>2. turn' = [turn EXCEPT ![t] = r] /\ turn[t].at # "done"
    BY <1>1, <1>8, <1>a, <2>1 DEF Stopped
  <2>3. r \in TurnType(left.segments, left.pieces) /\ r.made = o.made /\ r.at = "done" /\ r.seg = o.seg
    BY <1>1, <2>1 DEF TurnType
  <2>4. /\ left.moves > 0 /\ left' = [left EXCEPT !.moves = @ - 1]
        /\ UNCHANGED <<queue, held, cur, todo, tries, running, subs, log, card, prints, history>>
    BY <1>8 DEF Stopped
  <2>5. EnvOK' /\ left'.segments = left.segments /\ left'.pieces = left.pieces
    BY <2>4 DEF IInv, EnvOK
  <2> QED
    BY <1>a, <2>2, <2>3, <2>4, <2>5, SilentStep
<1> QED
  BY <1>2, <1>3, <1>4, <1>5, <1>6, <1>7, <1>8 DEF TurnStep

-----------------------------------------------------------------------------
(***************************************************************************)
(* The dispatcher's steps.                                                 *)
(***************************************************************************)
LEMMA SetOf == ASSUME NEW z, NEW p \in Seq(z) PROVE ToSet(p) = {p[k] : k \in 1 .. Len(p)}
  BY DEF ToSet

LEMMA ConcatSet ==
    ASSUME NEW z, NEW p \in Seq(z), NEW q \in Seq(z)
    PROVE  p \o q \in Seq(z) /\ ToSet(p \o q) = ToSet(p) \cup ToSet(q)
<1>1. PICK r : r = p \o q
  OBVIOUS
<1>2. /\ r \in Seq(z) /\ Len(r) = Len(p) + Len(q) /\ Len(p) \in Nat /\ Len(q) \in Nat
      /\ \A k \in 1 .. Len(p) : r[k] = p[k]
      /\ \A k \in 1 .. Len(q) : r[Len(p) + k] = q[k]
  BY <1>1, ConcatIs
<1>3. /\ ToSet(p) = {p[k] : k \in 1 .. Len(p)} /\ ToSet(q) = {q[k] : k \in 1 .. Len(q)}
      /\ ToSet(r) = {r[k] : k \in 1 .. Len(r)}
  BY <1>2, SetOf
<1>4. ASSUME NEW k \in 1 .. Len(r) PROVE r[k] \in ToSet(p) \cup ToSet(q)
  <2>1. CASE k <= Len(p)
    <3>1. k \in 1 .. Len(p)
      BY <1>2, <2>1
    <3> QED
      BY <1>2, <1>3, <3>1
  <2>2. CASE k > Len(p)
    <3>1. PICK l : l = k - Len(p)
      OBVIOUS
    <3>2. l \in 1 .. Len(q) /\ k = Len(p) + l
      BY <1>2, <2>2, <3>1
    <3> QED
      BY <1>2, <1>3, <3>2
  <2> QED
    BY <1>2, <2>1, <2>2
<1>5. ASSUME NEW k \in 1 .. Len(p) PROVE p[k] \in ToSet(r)
  <2>1. k \in 1 .. Len(r)
    BY <1>2
  <2> QED
    BY <1>2, <1>3, <2>1
<1>6. ASSUME NEW k \in 1 .. Len(q) PROVE q[k] \in ToSet(r)
  <2>1. PICK l : l = Len(p) + k
    OBVIOUS
  <2>2. l \in 1 .. Len(r)
    BY <1>2, <2>1
  <2> QED
    BY <1>2, <1>3, <2>1, <2>2
<1>7. ToSet(r) = ToSet(p) \cup ToSet(q)
  BY <1>3, <1>4, <1>5, <1>6
<1> QED
  BY <1>1, <1>2, <1>7

\* The transcript of chat c gets longer by q.
Extended(xr, wr, c, q) == xr = [wr EXCEPT ![c] = @ \o q]

LEMMA ExtendedIs ==
    ASSUME NEW z, NEW wr \in [Chats -> Seq(z)], NEW c \in Chats, NEW q \in Seq(z), NEW xr,
           Extended(xr, wr, c, q)
    PROVE  /\ xr \in [Chats -> Seq(z)] /\ ToSet(q) \subseteq ToSet(xr[c])
           /\ \A d \in Chats : ToSet(wr[d]) \subseteq ToSet(xr[d])
<1>1. PICK p, r : p = wr[c] /\ r = p \o q
  OBVIOUS
<1>2. p \in Seq(z)
  BY <1>1
<1>3. r \in Seq(z) /\ ToSet(r) = ToSet(p) \cup ToSet(q)
  BY <1>1, <1>2, ConcatSet
<1>4. xr = [wr EXCEPT ![c] = r]
  BY <1>1 DEF Extended
<1>5. xr \in [Chats -> Seq(z)] /\ xr[c] = r /\ \A d \in Chats : d # c => xr[d] = wr[d]
  BY <1>3, <1>4
<1> QED
  BY <1>1, <1>3, <1>5

\* Clients of S are shown the frames of q.
Gained(xr, wr, S, q, z) ==
    /\ xr \in [Clients -> Seq(z)]
    /\ \A k \in Clients : k \in S => ToSet(xr[k]) = ToSet(wr[k]) \cup ToSet(q)
    /\ \A k \in Clients : k \notin S => ToSet(xr[k]) = ToSet(wr[k])

LEMMA AddedIs ==
    ASSUME NEW z, NEW wr, wr \in [Clients -> Seq(z)], NEW q \in Seq(z), NEW S, NEW xr, Added(xr, wr, S, q)
    PROVE  Gained(xr, wr, S, q, z)
<1>1. ASSUME NEW k \in Clients
      PROVE  /\ xr[k] \in Seq(z)
             /\ k \in S => ToSet(xr[k]) = ToSet(wr[k]) \cup ToSet(q)
             /\ k \notin S => ToSet(xr[k]) = ToSet(wr[k])
  <2>1. PICK p : p = wr[k]
    OBVIOUS
  <2>2. p \in Seq(z)
    BY <2>1
  <2>3. p \o q \in Seq(z) /\ ToSet(p \o q) = ToSet(p) \cup ToSet(q)
    BY <2>2, ConcatSet
  <2>4. xr[k] = IF k \in S THEN p \o q ELSE p
    BY <2>1 DEF Added
  <2> QED
    BY <2>1, <2>2, <2>3, <2>4
<1>2. xr = [k \in Clients |-> xr[k]]
  BY DEF Added
<1> QED
  BY <1>1, <1>2 DEF Gained

LEMMA KeyChat == \A t \in Turns : Key(t)[1] = ChatOf[t] /\ Key(t)[1] \in Chats
  BY ChatType DEF Key

LEMMA InGrows ==
    ASSUME NEW wr, NEW xr, \A k \in Clients : ToSet(wr[k]) \subseteq ToSet(xr[k]), NEW c
    PROVE  In(wr, c) \subseteq In(xr, c)
  BY DEF In, Readers

LEMMA SaidGrows ==
    ASSUME NEW k, NEW says, NEW wr, NEW rf, NEW xr, NEW xf, Said(k, says, wr, rf),
           \A c \in Clients : ToSet(wr[c]) \subseteq ToSet(xr[c]), rf \subseteq xf
    PROVE  Said(k, says, xr, xf)
<1>1. PICK f \in In(wr, k[1]) \cup {Frames(r)[1] : r \in rf} :
          f.kind = "final" /\ f.piece = says /\ Key(f.id[1]) = k
  BY DEF Said
<1>2. f \in In(xr, k[1]) \cup {Frames(r)[1] : r \in xf}
  BY <1>1, InGrows
<1> QED
  BY <1>1, <1>2 DEF Said

\* The message is out of the dispatcher's hands, when a final one was said, or
\* it is still being sent.
LEMMA RepliesSent ==
    ASSUME NEW s \in Nat, NEW n \in Nat, NEW ps, NEW cr, NEW wr, NEW rf, NEW mu, NEW xr, NEW xf, NEW cx,
           RepliesOK(ps, cr, wr, rf, mu),
           MsgOK(s, n, cr), \A k \in Clients : ToSet(wr[k]) \subseteq ToSet(xr[k]), rf \subseteq xf,
           \/ cx = cr
           \/ cx = NoMsg /\ (cr.kind = "final" => First(cr) \in In(xr, ChatOf[cr.turn]) \/ cr \in xf)
    PROVE  RepliesOK(ps, cx, xr, xf, mu)
<1>1. ASSUME NEW k, NEW says, Said(k, says, wr, rf)
      PROVE  Said(k, says, xr, xf)
  BY <1>1, SaidGrows
<1>2. cr.turn \in Turns
  BY DEF MsgOK, MsgType
<1>3. ASSUME cr.kind = "final", cx # cr PROVE Said(Key(cr.turn), cr.says, xr, xf)
  <2>1. PICK f : f = First(cr)
    OBVIOUS
  <2>2. f.kind = "final" /\ f.piece = cr.says /\ f.id = cr.id
    BY <1>3, <2>1 DEF First
  <2>3. cr.id[1] = cr.turn /\ f = Frames(cr)[1]
    BY <1>3, <2>1, FirstOK DEF MsgOK
  <2>4. Key(f.id[1]) = Key(cr.turn)
    BY <2>2, <2>3
  <2>5. f \in In(xr, Key(cr.turn)[1]) \cup {Frames(r)[1] : r \in xf}
    BY <1>2, <1>3, <2>1, <2>3, KeyChat
  <2> QED
    BY <2>2, <2>4, <2>5 DEF Said
<1>4. ASSUME NEW k \in DOMAIN ps
      PROVE  \/ Said(k, ps[k], xr, xf)
             \/ cx # NoMsg /\ cx.kind = "final" /\ cx.says = ps[k] /\ Key(cx.turn) = k
  <2>1. CASE Said(k, ps[k], wr, rf)
    BY <1>1, <2>1
  <2>2. CASE cr # NoMsg /\ cr.kind = "final" /\ cr.says = ps[k] /\ Key(cr.turn) = k
    BY <1>3, <2>2
  <2> QED
    BY <2>1, <2>2 DEF RepliesOK
<1>5. ASSUME NEW m \in mu PROVE Said(Key(m.turn), m.says, xr, xf)
  BY <1>1 DEF RepliesOK
<1>6. DOMAIN ps \subseteq {Key(t) : t \in Turns}
  BY DEF RepliesOK
<1> QED
  BY <1>4, <1>5, <1>6 DEF RepliesOK

LEMMA RepliesHand ==
    ASSUME NEW ps, NEW cr, NEW wr, NEW rf, NEW mu, RepliesOK(ps, NoMsg, wr, rf, mu)
    PROVE  RepliesOK(ps, cr, wr, rf, mu)
  BY DEF RepliesOK

\* A final message is remembered; a repetition of what was said is muted.
LEMMA RepliesFinal ==
    ASSUME NEW ps, NEW wr, NEW rf, NEW mu, RepliesOK(ps, NoMsg, wr, rf, mu),
           NEW m, m # NoMsg, m.kind = "final", m.turn \in Turns,
           NEW qs, qs = [l \in DOMAIN ps \cup {Key(m.turn)} |-> IF l = Key(m.turn) THEN m.says ELSE ps[l]],
           NEW cr, NEW nu,
           \/ cr = m /\ nu = mu
           \/ cr = NoMsg /\ nu = mu \cup {m} /\ Key(m.turn) \in DOMAIN ps /\ ps[Key(m.turn)] = m.says
    PROVE  RepliesOK(qs, cr, wr, rf, nu)
<1>1. PICK k : k = Key(m.turn)
  OBVIOUS
<1>2. DOMAIN qs = {k} \cup DOMAIN ps /\ qs[k] = m.says /\ \A l \in DOMAIN ps : l # k => qs[l] = ps[l]
  BY <1>1
<1>3. DOMAIN qs \subseteq {Key(t) : t \in Turns}
  BY <1>1, <1>2 DEF RepliesOK
<1>4. \A l \in DOMAIN ps : Said(l, ps[l], wr, rf)
  BY DEF RepliesOK
<1>5. CASE cr = m /\ nu = mu
  BY <1>1, <1>2, <1>3, <1>4, <1>5 DEF RepliesOK
<1>6. CASE cr = NoMsg /\ nu = mu \cup {m} /\ k \in DOMAIN ps /\ ps[k] = m.says
  <2>1. \A l \in DOMAIN qs : Said(l, qs[l], wr, rf)
    BY <1>2, <1>4, <1>6
  <2>2. Said(Key(m.turn), m.says, wr, rf)
    BY <1>1, <1>4, <1>6
  <2>3. \A x \in nu : Said(Key(x.turn), x.says, wr, rf)
    BY <1>6, <2>2 DEF RepliesOK
  <2> QED
    BY <1>3, <2>1, <2>3 DEF RepliesOK
<1> QED
  BY <1>1, <1>5, <1>6

\* What the dispatcher's actions start from.
LEMMA SendFacts ==
    ASSUME IInv, Sending
    PROVE  /\ left.segments \in Nat /\ left.pieces \in Nat
           /\ MsgOK(left.segments, left.pieces, cur) /\ cur.turn \in Turns /\ To \in Chats
           /\ tries < MaxAttempts
           /\ cur.kind # "streamed" => Frames(cur) \in Seq(FrameType(left.segments, left.pieces))
           /\ Frames(cur) \in Seq([kind : Kinds, id : Ids(left.segments),
                                   piece : Pieces(left.segments, left.pieces) \cup Says])
           /\ Len(Frames(cur)) > 0 /\ Frames(cur)[1] = First(cur)
<1>a. PICK s, n, q, cr : s = left.segments /\ n = left.pieces /\ q = Frames(cur) /\ cr = cur
  OBVIOUS
<1>1. s \in Nat /\ n \in Nat /\ cur # NoMsg /\ tries < MaxAttempts
  BY <1>a, EnvTypes DEF IInv, Sizes, Sending
<1>2. MsgOK(s, n, cr)
  BY <1>1, <1>a DEF IInv, Pipe, Flow
<1>3. cr.turn \in Turns /\ cr.kind \in Kinds
  BY <1>2 DEF MsgOK, MsgType
<1>4. To \in Chats
  BY <1>3, <1>a, ChatType DEF To
<1>5. /\ \E z : q \in Seq(z)
      /\ Len(q) > 0 /\ \A i \in 1 .. Len(q) : FrameOK(s, n, q[i])
      /\ q[1] = First(cr)
  BY <1>1, <1>2, <1>a, FramesOf, FirstOK
<1>6. \A i \in 1 .. Len(q) : q[i].kind = cr.kind
  <2>1. CASE cr.kind = "delta"
    <3>1. /\ Len(q) = Len(cr.text)
          /\ \A i \in 1 .. Len(cr.text) : q[i] = [kind |-> "delta", id |-> cr.id, piece |-> cr.text[i]]
      BY <1>1, <1>2, <1>a, <2>1, FramesOf
    <3>2. ASSUME NEW i \in 1 .. Len(q) PROVE q[i].kind = "delta"
      <4>1. PICK f, p : f = q[i] /\ p = cr.text[i]
        OBVIOUS
      <4>2. f = [kind |-> "delta", id |-> cr.id, piece |-> p]
        BY <3>1, <4>1
      <4>3. f.kind = "delta"
        BY <4>2
      <4> QED
        BY <4>1, <4>3
    <3> QED
      BY <2>1, <3>2
  <2>2. CASE cr.kind # "delta"
    <3>1. Len(q) = 1 /\ q[1] = First(cr)
      BY <1>1, <1>2, <1>a, <2>2, FramesOf
    <3>2. \A i \in 1 .. Len(q) : i = 1
      BY <3>1
    <3>3. First(cr).kind = cr.kind
      BY DEF First
    <3> QED
      BY <3>1, <3>2, <3>3
  <2> QED
    BY <2>1, <2>2
<1> DEFINE All == [kind : Kinds, id : Ids(s), piece : Pieces(s, n) \cup Says]
<1>7. q \in Seq(All)
  <2>1. \A i \in 1 .. Len(q) : q[i] \in All
    BY <1>5 DEF FrameOK
  <2>2. PICK z : q \in Seq(z)
    BY <1>5
  <2> HIDE DEF All
  <2> QED
    BY <2>1, <2>2
<1>8. ASSUME cr.kind # "streamed" PROVE q \in Seq(FrameType(s, n))
  <2>1. ASSUME NEW i \in 1 .. Len(q) PROVE q[i] \in FrameType(s, n)
    <3>1. PICK f : f = q[i]
      OBVIOUS
    <3>2. f \in All /\ f.kind = cr.kind
      BY <1>5, <1>6, <3>1 DEF FrameOK
    <3>3. f.kind \in {"delta", "end", "final"}
      BY <1>3, <1>8, <3>2 DEF Kinds
    <3>4. f \in FrameType(s, n)
      BY <3>2, <3>3 DEF FrameType
    <3> QED
      BY <3>1, <3>4
  <2> HIDE DEF All
  <2> QED
    BY <1>7, <2>1
<1> QED
  BY <1>1, <1>2, <1>3, <1>4, <1>5, <1>7, <1>8, <1>a

LEMMA WaitingSame == held' = held /\ queue' = queue => Waiting' = Waiting
  BY DEF Waiting

\* A step of the dispatcher or of a connection that sends nothing on.
LEMMA AsideStep ==
    ASSUME IInv, EnvOK', left'.segments = left.segments, left'.pieces = left.pieces,
           UNCHANGED <<turn, queue, held, cur, todo, tries, log, prints, wire, refused, muted, failed>>,
           running' \in BOOLEAN, subs' \subseteq Clients
    PROVE  IInv'
<1>1. Waiting' = Waiting
  BY WaitingSame
<1>2. Pipe' /\ Everywhere' /\ Replied' /\ TodoOK'
  BY <1>1 DEF IInv, Pipe, Everywhere, Replied, TodoOK, To
<1>3. Sizes'
  BY DEF IInv, Sizes
<1>4. Records'
  BY DEF IInv, Records, LogHasAll
<1> QED
  BY <1>2, <1>3, <1>4 DEF IInv

\* Where the message is after a step of its sending: out of the dispatcher's
\* hands, when some client (of S) was shown it or it was given up, or still
\* being sent, to connections whose transcript has it.
Handed(S) ==
    /\ cur' = NoMsg /\ todo' = {}
    /\ S # {} \/ cur \in refused'

Stays(S) ==
    /\ cur' = cur
    /\ Keeps(S, cur, cur, failed, todo, failed', todo')
    /\ cur \in failed \/ todo # {} \/ refused' # refused => cur \in failed' \/ todo' # {}
    /\ todo' # {} => /\ To \notin CardChats /\ todo' \subseteq Readers(To)
                     /\ ToSet(Frames(cur)) \subseteq ToSet(log'[To])

\* A step of the sending: clients of S are shown the message.
LEMMA SendStep ==
    ASSUME IInv, Sending, cur.kind # "streamed",
           NEW S, S \subseteq Readers(To), S # {} => To \in CardChats \/ todo # {},
           \A k \in S : todo = {} \/ k \in todo, Added(wire', wire, S, Frames(cur)),
           log' = log \/ Extended(log', log, To, Frames(cur)),
           refused' = refused \/ refused' = refused \cup {cur},
           failed' = failed \/ failed' = failed \cup {cur},
           Handed(S) \/ Stays(S),
           EnvOK', left'.segments = left.segments, left'.pieces = left.pieces,
           tries' \in 0 .. MaxAttempts, cur' # NoMsg => tries' < MaxAttempts, subs' \subseteq Clients,
           UNCHANGED <<turn, queue, held, running, prints, muted>>
    PROVE  IInv'
<1>a. PICK s, n, xr, lr : s = left.segments /\ n = left.pieces /\ xr = wire' /\ lr = log'
  OBVIOUS
<1>b. PICK w, q, z, c : w = Waiting /\ q = Frames(cur) /\ z = FrameType(s, n) /\ c = To
  OBVIOUS
<1>c. PICK xf, fx, cx, tx : xf = refused' /\ fx = failed' /\ cx = cur' /\ tx = todo'
  OBVIOUS
<1>d. IInv
  OBVIOUS
<1>1. /\ s \in Nat /\ n \in Nat /\ MsgOK(s, n, cur) /\ cur.turn \in Turns /\ c \in Chats /\ q \in Seq(z)
      /\ Len(q) > 0 /\ q[1] = First(cur) /\ cur # NoMsg /\ c = ChatOf[cur.turn]
  BY <1>a, <1>b, SendFacts DEF Sending, To
<1>2. Waiting' = w /\ left'.segments = s /\ left'.pieces = n
  BY <1>a, <1>b, WaitingSame
<1>3. /\ wire \in [Clients -> Seq(z)] /\ log \in [Chats -> Seq(z)]
      /\ \A m \in muted \cup failed : MsgOK(s, n, m)
      /\ \A k \in Clients : On[k] \notin CardChats => ToSet(wire[k]) \subseteq ToSet(log[On[k]])
  BY <1>a, <1>b, <1>d DEF IInv, Records, LogHasAll
<1>4. /\ xr \in [Clients -> Seq(z)]
      /\ \A k \in Clients : k \in S => ToSet(xr[k]) = ToSet(wire[k]) \cup ToSet(q)
      /\ \A k \in Clients : k \notin S => ToSet(xr[k]) = ToSet(wire[k])
  <2>1. Added(xr, wire, S, q)
    BY <1>a, <1>b
  <2>2. wire \in [Clients -> Seq(z)]
    BY <1>3
  <2>3. q \in Seq(z)
    BY <1>1
  <2>4. Gained(xr, wire, S, q, z)
    BY ONLY <2>1, <2>2, <2>3, AddedIs
  <2> QED
    BY ONLY <2>4 DEF Gained
<1>5. \A k \in Clients : ToSet(wire[k]) \subseteq ToSet(xr[k])
  BY <1>4
<1>6. lr \in [Chats -> Seq(z)] /\ \A d \in Chats : ToSet(log[d]) \subseteq ToSet(lr[d])
  <2>1. CASE lr = log
    BY <1>3, <2>1
  <2>2. CASE Extended(lr, log, c, q)
    <3>1. log \in [Chats -> Seq(z)]
      BY <1>3
    <3>2. c \in Chats /\ q \in Seq(z)
      BY <1>1
    <3> QED
      BY <2>2, <3>1, <3>2, ExtendedIs
  <2> QED
    BY <1>a, <1>b, <2>1, <2>2
<1>7. S \subseteq Readers(c) /\ S \subseteq Clients
  BY <1>b DEF Readers
<1>8. /\ xf = refused \/ xf = refused \cup {cur}
      /\ fx = failed \/ fx = failed \cup {cur}
      /\ refused \subseteq xf /\ failed \subseteq fx
  BY <1>c
<1>9. \/ cx = NoMsg /\ tx = {} /\ (S # {} \/ cur \in xf)
      \/ /\ cx = cur /\ Keeps(S, cur, cur, failed, todo, fx, tx)
         /\ cur \in failed \/ todo # {} \/ xf # refused => cur \in fx \/ tx # {}
         /\ tx # {} => /\ c \notin CardChats /\ tx \subseteq Readers(c)
                       /\ ToSet(q) \subseteq ToSet(lr[c])
  BY <1>a, <1>b, <1>c DEF Handed, Stays
<1>10. Flow(s, n, turn, w, cur, wire, failed, todo)
  BY <1>a, <1>b, <1>d DEF IInv, Pipe
<1>11. Pipe'
  <2>1. Keeps(S, cur, cx, failed, todo, fx, tx)
    BY <1>9 DEF Keeps
  <2>2. Added(xr, wire, S, Frames(cur)) /\ \A k \in S : todo = {} \/ k \in todo
    BY <1>a
  <2>3. Flow(s, n, turn, w, cx, xr, fx, tx)
    BY <1>1, <1>8, <1>10, <2>1, <2>2, FlowShow
  <2> QED
    BY <1>2, <1>a, <1>c, <2>3 DEF Pipe
<1>12. Everywhere'
  <2>1. Located(s, n, turn, w, cur, wire, refused, failed, todo)
    BY <1>a, <1>b, <1>d DEF IInv, Everywhere
  <2>2. S \subseteq Readers(ChatOf[cur.turn]) /\ Added(xr, wire, S, Frames(cur))
    BY <1>1, <1>7, <1>a
  <2>3. \/ cx = NoMsg /\ (S # {} \/ cur \in xf)
        \/ cx = cur /\ (cur \in failed \/ todo # {} \/ xf # refused => cur \in fx \/ tx # {})
    BY <1>9
  <2>4. Located(s, n, turn, w, cx, xr, xf, fx, tx)
    BY <1>1, <1>3, <1>8, <1>10, <2>1, <2>2, <2>3, LocatedSend
  <2> QED
    BY <1>2, <1>a, <1>c, <2>4 DEF Everywhere
<1>13. Sizes'
  BY <1>2, <1>a, <1>d DEF IInv, Sizes
<1>14. Records'
  <2>1. ASSUME NEW k \in Clients, On[k] \notin CardChats PROVE ToSet(xr[k]) \subseteq ToSet(lr[On[k]])
    <3>1. On[k] \in Chats
      BY DeliveryAssumption DEF DeliveryAssumption
    <3>2. ToSet(wire[k]) \subseteq ToSet(lr[On[k]])
      BY <1>3, <1>6, <2>1, <3>1
    <3>3. CASE k \in S
      <4>1. On[k] = c
        BY <1>7, <3>3 DEF Readers
      <4>2. todo # {}
        BY <2>1, <3>3, <4>1, <1>b
      <4>3. ToSet(q) \subseteq ToSet(log[c])
        BY <1>b, <1>d, <4>2 DEF IInv, TodoOK
      <4>4. ToSet(q) \subseteq ToSet(lr[c])
        BY <1>1, <1>6, <4>3
      <4> QED
        BY <1>4, <3>2, <3>3, <4>1, <4>4
    <3>4. CASE k \notin S
      BY <1>4, <3>2, <3>4
    <3> QED
      BY <3>3, <3>4
  <2>2. \A m \in muted \cup fx : MsgOK(s, n, m)
    BY <1>1, <1>3, <1>8
  <2> QED
    BY <1>2, <1>4, <1>6, <1>a, <1>b, <1>c, <2>1, <2>2 DEF Records, LogHasAll
<1>15. Replied'
  <2>1. RepliesOK(prints, cur, wire, refused, muted)
    BY <1>d DEF IInv, Replied
  <2>2. cx = cur \/ (cx = NoMsg /\ (First(cur) \in In(xr, ChatOf[cur.turn]) \/ cur \in xf))
    <3>1. ASSUME S # {} PROVE First(cur) \in In(xr, ChatOf[cur.turn])
      <4>1. PICK k : k \in S
        BY <3>1
      <4>2. k \in Readers(ChatOf[cur.turn]) /\ k \in Clients
        BY <1>1, <1>7, <4>1
      <4>3. First(cur) \in ToSet(q)
        <5>1. 1 \in DOMAIN q
          BY <1>1
        <5> QED
          BY <1>1, <5>1 DEF ToSet
      <4>4. First(cur) \in ToSet(xr[k])
        BY <1>4, <4>1, <4>2, <4>3
      <4> QED
        BY <4>2, <4>4 DEF In
    <3> QED
      BY <1>9, <3>1
  <2>3. RepliesOK(prints, cx, xr, xf, muted)
    <3>1. MsgOK(s, n, cur) /\ cur # NoMsg
      BY <1>1
    <3>2. refused \subseteq xf
      BY <1>8
    <3> QED
      BY <1>1, <1>5, <2>1, <2>2, <3>1, <3>2, RepliesSent
  <2> QED
    BY <1>a, <1>c, <2>3 DEF Replied
<1>16. TodoOK'
  BY <1>1, <1>9, <1>a, <1>b, <1>c DEF TodoOK, To
<1> QED
  BY <1>11, <1>12, <1>13, <1>14, <1>15, <1>16 DEF IInv

\* A message flagged as streamed goes to nobody.
LEMMA SkipStep ==
    ASSUME IInv, SkipStreamed
    PROVE  IInv'
<1>a. PICK s, n, w : s = left.segments /\ n = left.pieces /\ w = Waiting
  OBVIOUS
<1>1. /\ Sending /\ cur.kind = "streamed" /\ cur' = NoMsg
      /\ UNCHANGED <<left, turn, queue, held, todo, tries, running, subs, log, card, prints, wire, refused, muted, failed>>
  BY DEF SkipStreamed, history
<1>2. s \in Nat /\ n \in Nat /\ MsgOK(s, n, cur) /\ Waiting' = w
  BY <1>1, <1>a, SendFacts, WaitingSame
<1>3. /\ Flow(s, n, turn, w, cur, wire, failed, todo)
      /\ Located(s, n, turn, w, cur, wire, refused, failed, todo)
  BY <1>a DEF IInv, Pipe, Everywhere
<1>4. Flow(s, n, turn, w, NoMsg, wire, failed, todo)
  BY <1>2, <1>3, FlowDrop
<1>5. Located(s, n, turn, w, NoMsg, wire, refused, failed, todo)
  BY <1>1, <1>2, <1>3, LocatedDrop
<1>6. Pipe' /\ Everywhere'
  BY <1>1, <1>2, <1>4, <1>5, <1>a DEF Pipe, Everywhere
<1>7. EnvOK' /\ Sizes' /\ Records'
  BY <1>1 DEF IInv, EnvOK, Sizes, Records, LogHasAll
<1>8. Replied'
  <2>1. RepliesOK(prints, cur, wire, refused, muted)
    BY DEF IInv, Replied
  <2>2. RepliesOK(prints, NoMsg, wire, refused, muted)
    BY <1>1, <1>2, <2>1, RepliesSent
  <2> QED
    BY <1>1, <2>2 DEF Replied
<1>9. TodoOK'
  BY <1>1 DEF IInv, TodoOK
<1> QED
  BY <1>6, <1>7, <1>8, <1>9 DEF IInv

\* The message at the head of what waits.
LEMMA HeadIs ==
    ASSUME IInv, Waiting # <<>>
    PROVE  /\ Len(Waiting) > 0 /\ Len(Waiting) \in Nat /\ Head(Waiting) = Waiting[1]
           /\ MsgOK(left.segments, left.pieces, Waiting[1]) /\ Single(Waiting[1])
           /\ Waiting[1].turn \in Turns /\ Waiting[1] # NoMsg
           /\ Len(Tail(Waiting)) <= QueueMax
<1>a. PICK s, n, w : s = left.segments /\ n = left.pieces /\ w = Waiting
  OBVIOUS
<1>1. WaitOK(s, n, turn, w) /\ s \in Nat /\ n \in Nat
  BY <1>a, EnvTypes DEF IInv, Pipe, Flow
<1>2. w \in Seq(MsgType(s, n)) /\ w # <<>>
  BY <1>1, <1>a DEF WaitOK
<1>3. Len(w) > 0 /\ Len(w) \in Nat /\ Head(w) = w[1] /\ 1 \in 1 .. Len(w)
  BY <1>2
<1>4. MsgOK(s, n, w[1]) /\ Single(w[1])
  BY <1>1, <1>3 DEF WaitOK
<1>5. w[1].turn \in Turns /\ w[1] # NoMsg
  BY <1>1, <1>4, FramesOf DEF MsgOK, MsgType
<1>6. Len(Tail(w)) <= QueueMax
  <2>1. Len(Tail(w)) = Len(w) - 1
    BY <1>2, <1>3, TailIs
  <2>2. Len(w) = Len(held) + Len(queue)
    BY <1>a, WaitingType DEF IInv
  <2>3. Len(held) <= 1 /\ Len(queue) <= QueueMax /\ Len(held) \in Nat /\ Len(queue) \in Nat /\ QueueMax \in Nat
    BY DeliveryAssumption DEF IInv, Sizes, DeliveryAssumption
  <2> QED
    BY <2>1, <2>2, <2>3
<1> QED
  BY <1>3, <1>4, <1>5, <1>6, <1>a

\* The first h messages that wait are taken, as cur' or as a repetition.
LEMMA TakeStep ==
    ASSUME IInv, cur = NoMsg, NEW h \in 1 .. Len(Waiting),
           Waiting' = SubSeq(Waiting, h + 1, Len(Waiting)),
           \/ cur' = NoMsg /\ \A k \in 1 .. h : Waiting[k].kind # "delta"
           \/ MsgOK(left.segments, left.pieces, cur') /\ Takes(cur', Waiting, h),
           held' \in Seq(MsgType(left.segments, left.pieces)), Len(held') <= 1,
           queue' \in Seq(MsgType(left.segments, left.pieces)), Len(queue') <= QueueMax,
           tries' = 0, \A m \in muted' : MsgOK(left.segments, left.pieces, m), Replied',
           UNCHANGED <<left, turn, todo, running, subs, log, card, wire, refused, failed>>
    PROVE  IInv'
<1>a. PICK s, n, w, v, mc : s = left.segments /\ n = left.pieces /\ w = Waiting /\ v = Waiting' /\ mc = cur'
  OBVIOUS
<1>1. s \in Nat /\ n \in Nat /\ w \in Seq(MsgType(s, n)) /\ h \in 1 .. Len(w)
  BY <1>a, EnvTypes, WaitingType DEF IInv
<1>2. v = SubSeq(w, h + 1, Len(w))
  BY <1>a
<1>3. \/ mc = NoMsg /\ \A k \in 1 .. h : w[k].kind # "delta"
      \/ MsgOK(s, n, mc) /\ Takes(mc, w, h)
  BY <1>a
<1>4. Flow(s, n, turn, w, NoMsg, wire, failed, todo) /\ Located(s, n, turn, w, NoMsg, wire, refused, failed, todo)
  BY <1>a DEF IInv, Pipe, Everywhere
<1>5. Flow(s, n, turn, v, mc, wire, failed, todo)
  BY <1>1, <1>2, <1>3, <1>4, FlowTake
<1>6. Located(s, n, turn, v, mc, wire, refused, failed, todo)
  BY <1>1, <1>2, <1>3, <1>4, LocatedTake
<1>7. Pipe' /\ Everywhere'
  BY <1>5, <1>6, <1>a DEF Pipe, Everywhere
<1>8. EnvOK' /\ Records' /\ TodoOK'
  BY DEF IInv, EnvOK, Records, LogHasAll, TodoOK
<1>9. Sizes'
  <2>1. 0 \in 0 .. MaxAttempts /\ 0 < MaxAttempts
    BY DeliveryAssumption DEF DeliveryAssumption
  <2> QED
    BY <2>1 DEF IInv, Sizes
<1> QED
  BY <1>7, <1>8, <1>9 DEF IInv

\* Deltas for one chat are merged.
LEMMA TakeDelta ==
    ASSUME IInv, Take, Head(Waiting).kind = "delta"
    PROVE  IInv'
<1>a. PICK s, n, w, q, mc : s = left.segments /\ n = left.pieces /\ w = Waiting /\ q = Tail(Waiting) /\ mc = cur'
  OBVIOUS
<1>b. PICK m, k : m = w[1] /\ k = Run(m, q)
  OBVIOUS
<1>1. /\ cur = NoMsg /\ w # <<>> /\ tries' = 0
      /\ UNCHANGED <<left, turn, todo, running, subs, log, card, wire, refused, failed>>
  BY <1>a DEF Take
<1>2. /\ s \in Nat /\ n \in Nat /\ w \in Seq(MsgType(s, n)) /\ WaitOK(s, n, turn, w)
  BY <1>a, EnvTypes, WaitingType DEF IInv, Pipe, Flow
<1>3. Len(w) > 0 /\ Head(w) = m /\ m.kind = "delta" /\ Len(q) <= QueueMax
  BY <1>1, <1>a, <1>b, HeadIs
<1>4. Merge(m, q) /\ muted' = muted /\ prints' = prints
  BY <1>3, <1>a DEF Take
<1>5. IsTail(q, w) /\ IsMerged(mc, m, q) /\ Parts(q, k, held', queue')
  BY <1>4, <1>a, <1>b DEF Merge, IsTail, IsMerged, Parts
<1>6. /\ k \in 0 .. Len(q) /\ k + 1 \in 1 .. Len(w)
      /\ MsgOK(s, n, mc) /\ Takes(mc, w, k + 1)
  BY <1>2, <1>3, <1>5, <1>b, MergeOK
<1>7. q = Tail(w)
  BY <1>a
<1>8. PICK a, b : a = held' /\ b = queue'
  OBVIOUS
<1>9. /\ a \in Seq(MsgType(s, n)) /\ b \in Seq(MsgType(s, n)) /\ Len(a) <= 1 /\ Len(b) <= Len(q)
      /\ a \o b = SubSeq(w, k + 2, Len(w))
  BY <1>2, <1>3, <1>5, <1>6, <1>7, <1>8, MergeRest
<1>10. Len(b) <= QueueMax
  <2>1. Len(b) \in Nat /\ Len(q) \in Nat /\ QueueMax \in Nat
    BY <1>2, <1>3, <1>7, <1>9, TailIs, DeliveryAssumption DEF DeliveryAssumption
  <2> QED
    BY <1>3, <1>9, <2>1
<1>11. PICK h : h = k + 1
  OBVIOUS
<1>12. h \in 1 .. Len(Waiting) /\ Waiting' = SubSeq(Waiting, h + 1, Len(Waiting))
  <2>1. k + 2 = h + 1
    BY <1>6, <1>11
  <2>2. Waiting' = a \o b
    BY <1>8 DEF Waiting
  <2> QED
    BY <1>6, <1>9, <1>11, <1>a, <2>1, <2>2
<1>13. MsgOK(left.segments, left.pieces, cur') /\ Takes(cur', Waiting, h)
  BY <1>6, <1>11, <1>a
<1>14. Replied'
  <2>1. RepliesOK(prints, NoMsg, wire, refused, muted)
    BY <1>1 DEF IInv, Replied
  <2>2. RepliesOK(prints, mc, wire, refused, muted)
    BY <2>1, RepliesHand
  <2> QED
    BY <1>1, <1>4, <1>a, <2>2 DEF Replied
<1>15. \A x \in muted' : MsgOK(left.segments, left.pieces, x)
  BY <1>4 DEF IInv, Records
<1>16. /\ held' \in Seq(MsgType(left.segments, left.pieces)) /\ Len(held') <= 1
       /\ queue' \in Seq(MsgType(left.segments, left.pieces)) /\ Len(queue') <= QueueMax
  BY <1>8, <1>9, <1>10, <1>a
<1> QED
  BY <1>1, <1>12, <1>13, <1>14, <1>15, <1>16, TakeStep

\* Any other message is taken alone.
LEMMA TakeOther ==
    ASSUME IInv, Take, Head(Waiting).kind # "delta"
    PROVE  IInv'
<1>a. PICK s, n, w, q, mc : s = left.segments /\ n = left.pieces /\ w = Waiting /\ q = Tail(Waiting) /\ mc = cur'
  OBVIOUS
<1>b. PICK m : m = w[1]
  OBVIOUS
<1>1. /\ cur = NoMsg /\ w # <<>> /\ tries' = 0
      /\ UNCHANGED <<left, turn, todo, running, subs, log, card, wire, refused, failed>>
  BY <1>a DEF Take
<1>2. s \in Nat /\ n \in Nat /\ w \in Seq(MsgType(s, n))
  BY <1>a, EnvTypes, WaitingType DEF IInv
<1>3. /\ Len(w) > 0 /\ Head(w) = m /\ m.kind # "delta" /\ Len(q) <= QueueMax /\ Len(w) \in Nat
      /\ MsgOK(s, n, m) /\ m.turn \in Turns /\ m # NoMsg
  BY <1>1, <1>a, <1>b, HeadIs
<1>c. PICK muting : muting = (m.kind = "final" /\ Repeats(m))
  OBVIOUS
<1>4. /\ mc = (IF m.kind = "final" /\ Repeats(m) THEN NoMsg ELSE m) /\ held' = <<>> /\ queue' = q
      /\ muted' = (IF m.kind = "final" /\ Repeats(m) THEN muted \cup {m} ELSE muted)
      /\ prints' = (IF m.kind = "final" THEN Remembers(m) ELSE prints)
  BY <1>3, <1>a DEF Take
<1>5. q \in Seq(MsgType(s, n)) /\ q = SubSeq(w, 1 + 1, Len(w)) /\ 1 \in 1 .. Len(w)
  <2>1. q = SubSeq(w, 2, Len(w)) /\ q \in Seq(MsgType(s, n))
    BY <1>2, <1>3, <1>a, TailIs, TailSub
  <2> QED
    BY <1>3, <2>1
<1>6. /\ held' \in Seq(MsgType(left.segments, left.pieces)) /\ Len(held') <= 1
      /\ queue' \in Seq(MsgType(left.segments, left.pieces)) /\ Len(queue') <= QueueMax
      /\ Waiting' = q
  <2>1. PICK e : e = held'
    OBVIOUS
  <2>2. e = <<>>
    BY <1>4, <2>1
  <2>3. e \in Seq(MsgType(s, n)) /\ Len(e) = 0
    BY <2>2
  <2>4. e \o q = q
    BY <1>5, <2>2
  <2> QED
    BY <1>3, <1>4, <1>5, <1>a, <2>1, <2>3, <2>4 DEF Waiting
<1>7. mc = NoMsg \/ (MsgOK(s, n, mc) /\ Takes(mc, w, 1))
  <2>1. CASE mc = m
    <3>1. Len(Frames(m)) = 1 /\ Frames(m)[1] = First(m)
      BY <1>2, <1>3, FramesOf
    <3>2. Takes(m, w, 1)
      BY <1>b, <3>1, LikeSelf DEF Takes
    <3> QED
      BY <1>3, <2>1, <3>2
  <2>2. CASE mc = NoMsg
    BY <2>2
  <2> QED
    BY <1>4, <2>1, <2>2
<1>8. \A k \in 1 .. 1 : w[k].kind # "delta"
  BY <1>3, <1>b
<1>9. \A x \in muted' : MsgOK(left.segments, left.pieces, x)
  <2>1. \A x \in muted : MsgOK(left.segments, left.pieces, x)
    BY DEF IInv, Records
  <2> QED
    BY <1>3, <1>4, <1>a, <2>1
<1>10. Replied'
  <2>1. RepliesOK(prints, NoMsg, wire, refused, muted)
    BY <1>1 DEF IInv, Replied
  <2>2. PICK qs, nu : qs = prints' /\ nu = muted'
    OBVIOUS
  <2>3. RepliesOK(qs, mc, wire, refused, nu)
    <3>1. CASE m.kind = "final"
      <4>1. qs = [l \in DOMAIN prints \cup {Key(m.turn)} |-> IF l = Key(m.turn) THEN m.says ELSE prints[l]]
        BY <1>4, <2>2, <3>1 DEF Remembers
      <4>2. \/ mc = m /\ nu = muted
            \/ mc = NoMsg /\ nu = muted \cup {m} /\ Key(m.turn) \in DOMAIN prints
               /\ prints[Key(m.turn)] = m.says
        BY <1>4, <2>2, <3>1 DEF Repeats
      <4> QED
        BY <1>3, <2>1, <3>1, <4>1, <4>2, RepliesFinal
    <3>2. CASE m.kind # "final"
      <4>1. qs = prints /\ nu = muted
        BY <1>4, <2>2, <3>2
      <4> QED
        BY <2>1, <4>1, RepliesHand
    <3> QED
      BY <3>1, <3>2
  <2> QED
    BY <1>1, <1>a, <2>2, <2>3 DEF Replied
<1>11. 1 \in 1 .. Len(Waiting) /\ Waiting' = SubSeq(Waiting, 1 + 1, Len(Waiting))
  BY <1>5, <1>6, <1>a
<1>12. \/ cur' = NoMsg /\ \A k \in 1 .. 1 : Waiting[k].kind # "delta"
       \/ MsgOK(left.segments, left.pieces, cur') /\ Takes(cur', Waiting, 1)
  BY <1>7, <1>8, <1>a
<1> QED
  BY <1>1, <1>6, <1>9, <1>10, <1>11, <1>12, TakeStep

\* A send raises: the message is sent again or given up.
LEMMA FailStep ==
    ASSUME IInv, Sending, cur.kind # "streamed", Fails,
           NEW S, S \subseteq Readers(To), S # {} => To \in CardChats,
           \A k \in S : todo = {}, Added(wire', wire, S, Frames(cur)),
           UNCHANGED <<turn, queue, held, running, subs, log, prints, muted>>
    PROVE  IInv'
<1>1. /\ left.fails > 0 /\ left' = [left EXCEPT !.fails = @ - 1]
      /\ failed' = failed \cup {cur} /\ todo' = {} /\ tries' = tries + 1
      /\ IF tries + 1 = MaxAttempts
         THEN cur' = NoMsg /\ refused' = refused \cup {cur}
         ELSE cur' = cur /\ refused' = refused
  BY DEF Fails
<1>2. EnvOK' /\ left'.segments = left.segments /\ left'.pieces = left.pieces
  BY <1>1 DEF IInv, EnvOK
<1>3. tries \in 0 .. MaxAttempts /\ tries < MaxAttempts /\ MaxAttempts \in Nat /\ subs \subseteq Clients
  BY DeliveryAssumption DEF IInv, Sizes, Sending, DeliveryAssumption
<1>4. tries' \in 0 .. MaxAttempts /\ (cur' # NoMsg => tries' < MaxAttempts)
  <2>1. tries + 1 \in 0 .. MaxAttempts /\ (tries + 1 # MaxAttempts => tries + 1 < MaxAttempts)
    BY <1>3
  <2> QED
    BY <1>1, <2>1
<1>5. CASE tries + 1 = MaxAttempts
  <2>1. Handed(S) /\ refused' = refused \cup {cur}
    BY <1>1, <1>5 DEF Handed
  <2> QED
    BY <1>1, <1>2, <1>3, <1>4, <2>1, SendStep
<1>6. CASE tries + 1 # MaxAttempts
  <2>1. cur' = cur /\ refused' = refused /\ cur \in failed' /\ todo' = {}
    BY <1>1, <1>6
  <2>2. Stays(S)
    BY <2>1 DEF Stays, Keeps
  <2> QED
    BY <1>1, <1>2, <1>3, <1>4, <2>1, <2>2, SendStep
<1> QED
  BY <1>5, <1>6

\* Nobody is shown anything.
LEMMA NobodyShown == ASSUME IInv, wire' = wire PROVE Added(wire', wire, {}, Frames(cur))
<1>1. wire = [k \in Clients |-> wire[k]]
  BY DEF IInv, Records
<1> QED
  BY <1>1 DEF Added

\* The attempt goes on to the next connection, or is over.
LEMMA GoesOnStep ==
    ASSUME IInv, Sending, NEW k \in todo, GoesOn(k),
           NEW S, S \subseteq {k}, Added(wire', wire, S, Frames(cur)),
           refused' = refused \/ refused' = refused \cup {cur}, S # {} \/ cur \in refused',
           EnvOK', left'.segments = left.segments, left'.pieces = left.pieces, subs' \subseteq Clients,
           UNCHANGED <<turn, queue, held, tries, running, log, prints, muted, failed>>
    PROVE  IInv'
<1>1. /\ cur # NoMsg /\ cur.kind # "streamed" /\ To \notin CardChats /\ todo # {}
      /\ todo \subseteq Readers(To) /\ ToSet(Frames(cur)) \subseteq ToSet(log[To])
  BY DEF IInv, TodoOK
<1>2. todo' = todo \ {k} /\ cur' = IF todo = {k} THEN NoMsg ELSE cur
  BY DEF GoesOn
<1>3. tries' \in 0 .. MaxAttempts /\ (cur' # NoMsg => tries' < MaxAttempts)
  BY <1>1 DEF IInv, Sizes
<1>4. S \subseteq Readers(To) /\ \A l \in S : l \in todo
  BY <1>1
<1>5. CASE todo = {k}
  <2>1. Handed(S)
    BY <1>2, <1>5 DEF Handed
  <2> QED
    BY <1>1, <1>3, <1>4, <2>1, SendStep
<1>6. CASE todo # {k}
  <2>1. todo' # {} /\ cur' = cur /\ todo' \subseteq todo /\ k \notin todo'
    BY <1>2, <1>6
  <2>2. Keeps(S, cur, cur, failed, todo, failed', todo')
    BY <2>1 DEF Keeps
  <2>3. Stays(S)
    BY <1>1, <2>1, <2>2 DEF Stays
  <2> QED
    BY <1>1, <1>3, <1>4, <2>3, SendStep
<1> QED
  BY <1>5, <1>6

LEMMA BeginsStep ==
    ASSUME IInv, Begins
    PROVE  IInv'
<1>1. /\ Sending /\ cur.kind # "streamed" /\ To \notin CardChats /\ todo = {}
      /\ UNCHANGED <<left, turn, queue, held, tries, running, subs, card, prints, wire, muted, failed>>
  BY DEF Begins
<1>2. EnvOK' /\ left'.segments = left.segments /\ left'.pieces = left.pieces
  BY <1>1 DEF IInv, EnvOK
<1>3. Added(wire', wire, {}, Frames(cur))
  BY <1>1, NobodyShown
<1>4. tries' \in 0 .. MaxAttempts /\ (cur' # NoMsg => tries' < MaxAttempts) /\ subs' \subseteq Clients
  BY <1>1 DEF IInv, Sizes, Sending
<1>5. CASE subs \cap Readers(To) = {}
  <2>1. cur' = NoMsg /\ refused' = refused \cup {cur} /\ todo' = {} /\ log' = log
    BY <1>1, <1>5 DEF Begins
  <2>2. Handed({})
    BY <2>1 DEF Handed
  <2>3. failed' = failed
    BY <1>1
  <2> QED
    BY <1>1, <1>2, <1>3, <1>4, <2>1, <2>2, <2>3, SendStep
<1>6. CASE subs \cap Readers(To) # {}
  <2>1. /\ cur' = cur /\ refused' = refused /\ todo' = subs \cap Readers(To)
        /\ log' = [log EXCEPT ![To] = @ \o Frames(cur)]
    BY <1>1, <1>6 DEF Begins
  <2>2. Extended(log', log, To, Frames(cur))
    BY <2>1 DEF Extended
  <2>3. ToSet(Frames(cur)) \subseteq ToSet(log'[To])
    <3>1. PICK z, q, c : z = FrameType(left.segments, left.pieces) /\ q = Frames(cur) /\ c = To
      OBVIOUS
    <3>2. log \in [Chats -> Seq(z)] /\ q \in Seq(z) /\ c \in Chats
      BY <1>1, <3>1, SendFacts DEF IInv, Records
    <3>3. Extended(log', log, c, q)
      BY <2>2, <3>1
    <3> QED
      BY <3>1, <3>2, <3>3, ExtendedIs
  <2>4. Stays({})
    <3>1. Keeps({}, cur, cur, failed, todo, failed', todo')
      BY <1>1 DEF Keeps
    <3> QED
      BY <1>1, <1>6, <2>1, <2>3, <3>1 DEF Stays
  <2>5. failed' = failed /\ refused' = refused
    BY <1>1, <2>1
  <2>6. UNCHANGED <<turn, queue, held, running, prints, muted>>
    BY <1>1
  <2> QED
    BY <1>1, <1>2, <1>3, <1>4, <2>2, <2>4, <2>5, <2>6, SendStep
<1> QED
  BY <1>5, <1>6

LEMMA ClientSteps ==
    ASSUME IInv, NEW k \in Clients, ClientStep(k)
    PROVE  IInv'
<1>1. subs \subseteq Clients
  BY DEF IInv, Sizes
<1>2. ASSUME left' = left PROVE EnvOK' /\ left'.segments = left.segments /\ left'.pieces = left.pieces
  BY <1>2 DEF IInv, EnvOK
<1>3. CASE SendsTo(k)
  <2>1. /\ Sending /\ k \in todo /\ GoesOn(k) /\ wire' = [wire EXCEPT ![k] = @ \o Frames(cur)]
        /\ UNCHANGED <<left, turn, queue, held, tries, running, subs, log, prints, refused, muted, failed>>
    BY <1>3 DEF SendsTo
  <2>2. Added(wire', wire, {k}, Frames(cur))
    <3>1. wire = [l \in Clients |-> wire[l]]
      BY DEF IInv, Records
    <3> QED
      BY <2>1, <3>1 DEF Added
  <2>3. refused' = refused /\ subs' \subseteq Clients
    BY <1>1, <2>1
  <2> QED
    BY <1>2, <2>1, <2>2, <2>3, GoesOnStep
<1>4. CASE Gone(k)
  <2>1. /\ Sending /\ k \in todo /\ GoesOn(k) /\ refused' = refused \cup {cur} /\ subs' = subs \ {k}
        /\ UNCHANGED <<turn, queue, held, tries, running, log, prints, wire, muted, failed>>
    BY <1>4 DEF Gone
  <2>2. left' = left \/ (left.moves > 0 /\ left' = [left EXCEPT !.moves = @ - 1])
    BY <1>4 DEF Gone
  <2>3. EnvOK' /\ left'.segments = left.segments /\ left'.pieces = left.pieces
    BY <2>2 DEF IInv, EnvOK
  <2>4. Added(wire', wire, {}, Frames(cur)) /\ subs' \subseteq Clients
    BY <1>1, <2>1, NobodyShown
  <2> QED
    BY <2>1, <2>3, <2>4, GoesOnStep
<1>5. CASE Raises(k)
  <2>1. /\ Sending /\ k \in todo /\ Fails
        /\ UNCHANGED <<turn, queue, held, running, subs, log, prints, wire, muted>>
    BY <1>5 DEF Raises
  <2>2. cur.kind # "streamed"
    BY <2>1 DEF IInv, TodoOK
  <2>3. Added(wire', wire, {}, Frames(cur))
    BY <2>1, NobodyShown
  <2> QED
    BY <2>1, <2>2, <2>3, FailStep
<1> QED
  BY <1>3, <1>4, <1>5 DEF ClientStep

\* All the readers of a Feishu chat are shown the message.
LEMMA ChatStep ==
    ASSUME IInv, Sending, cur.kind # "streamed", To \in CardChats, InChat
    PROVE  /\ Added(wire', wire, Readers(To), Frames(cur)) /\ Readers(To) # {} /\ todo = {}
<1>1. Added(wire', wire, Readers(To), Frames(cur))
  BY DEF InChat, Added
<1>2. Readers(To) # {}
  BY DeliveryAssumption DEF DeliveryAssumption, Readers
<1>3. todo = {}
  BY DEF IInv, TodoOK
<1> QED
  BY <1>1, <1>2, <1>3

LEMMA FeishuSteps ==
    ASSUME IInv, SentToCard \/ SentToFeishu \/ FeishuRaises
    PROVE  IInv'
<1>1. CASE SentToCard \/ SentToFeishu
  <2>1. /\ Sending /\ cur.kind # "streamed" /\ To \in CardChats /\ InChat /\ cur' = NoMsg
        /\ UNCHANGED <<turn, queue, held, todo, tries, running, subs, log, prints, refused, muted, failed>>
    BY <1>1 DEF SentToCard, SentToFeishu
  <2>2. left' = left \/ (left.fails > 0 /\ left' = [left EXCEPT !.fails = @ - 1])
    BY <1>1 DEF SentToCard, SentToFeishu
  <2>3. EnvOK' /\ left'.segments = left.segments /\ left'.pieces = left.pieces
    BY <2>2 DEF IInv, EnvOK
  <2>4. Added(wire', wire, Readers(To), Frames(cur)) /\ Readers(To) # {} /\ todo = {}
    BY <2>1, ChatStep
  <2>5. Handed(Readers(To))
    BY <2>1, <2>4 DEF Handed
  <2>6. tries' \in 0 .. MaxAttempts /\ subs' \subseteq Clients
    BY <2>1 DEF IInv, Sizes
  <2>7. log' = log /\ refused' = refused /\ failed' = failed
    BY <2>1
  <2> QED
    BY <2>1, <2>3, <2>4, <2>5, <2>6, <2>7, SendStep
<1>2. CASE FeishuRaises
  <2>1. /\ Sending /\ cur.kind # "streamed" /\ To \in CardChats /\ Fails /\ (InChat \/ wire' = wire)
        /\ UNCHANGED <<turn, queue, held, running, subs, log, prints, muted>>
    BY <1>2 DEF FeishuRaises
  <2>2. CASE InChat
    <3>1. Added(wire', wire, Readers(To), Frames(cur)) /\ todo = {}
      BY <2>1, <2>2, ChatStep
    <3> QED
      BY <2>1, <3>1, FailStep
  <2>3. CASE wire' = wire
    <3>1. Added(wire', wire, {}, Frames(cur))
      BY <2>3, NobodyShown
    <3> QED
      BY <2>1, <3>1, FailStep
  <2> QED
    BY <2>1, <2>2, <2>3
<1> QED
  BY <1>1, <1>2

LEMMA DispatcherSteps ==
    ASSUME IInv, DispatcherStep
    PROVE  IInv'
<1>1. CASE Take
  <2>1. CASE Head(Waiting).kind = "delta"
    BY <1>1, <2>1, TakeDelta
  <2>2. CASE Head(Waiting).kind # "delta"
    BY <1>1, <2>2, TakeOther
  <2> QED
    BY <2>1, <2>2
<1>2. CASE SkipStreamed
  BY <1>2, SkipStep
<1>3. CASE Begins
  BY <1>3, BeginsStep
<1>4. CASE \E k \in Clients : ClientStep(k)
  BY <1>4, ClientSteps
<1>5. CASE SentToCard \/ SentToFeishu \/ FeishuRaises
  BY <1>5, FeishuSteps
<1> QED
  BY <1>1, <1>2, <1>3, <1>4, <1>5 DEF DispatcherStep

LEMMA NextKeeps ==
    ASSUME IInv, [Next]_vars
    PROVE  IInv'
<1>1. running \in BOOLEAN /\ subs \subseteq Clients
  BY DEF IInv, Sizes
<1>2. CASE \E t \in Turns : TurnStep(t)
  BY <1>2, TurnSteps
<1>3. CASE DispatcherStep
  BY <1>3, DispatcherSteps
<1>4. CASE Ends
  <2>1. /\ left.moves > 0 /\ left' = [left EXCEPT !.moves = @ - 1] /\ running' = FALSE
        /\ UNCHANGED <<turn, queue, held, cur, todo, tries, subs, log, card, prints, wire, refused, muted, failed>>
    BY <1>4 DEF Ends, history
  <2>2. EnvOK' /\ left'.segments = left.segments /\ left'.pieces = left.pieces
    BY <2>1 DEF IInv, EnvOK
  <2>3. running' \in BOOLEAN /\ subs' \subseteq Clients
    BY <1>1, <2>1
  <2> QED
    BY <2>1, <2>2, <2>3, AsideStep
<1>5. CASE \E k \in Clients : Moves(k)
  <2>1. PICK k \in Clients : Moves(k)
    BY <1>5
  <2>2. /\ left.moves > 0 /\ left' = [left EXCEPT !.moves = @ - 1]
        /\ subs' = (IF k \in subs THEN subs \ {k} ELSE subs \cup {k})
        /\ UNCHANGED <<turn, queue, held, cur, todo, tries, running, log, card, prints, wire, refused, muted, failed>>
    BY <2>1 DEF Moves, history
  <2>3. EnvOK' /\ left'.segments = left.segments /\ left'.pieces = left.pieces
    BY <2>2 DEF IInv, EnvOK
  <2>4. running' \in BOOLEAN /\ subs' \subseteq Clients
    BY <1>1, <2>2
  <2> QED
    BY <2>2, <2>3, <2>4, AsideStep
<1>6. CASE UNCHANGED vars
  <2>1. UNCHANGED <<left, turn, queue, held, cur, todo, tries, running, subs, log, card, prints, wire, refused, muted, failed>>
    BY <1>6 DEF vars
  <2>2. EnvOK' /\ left'.segments = left.segments /\ left'.pieces = left.pieces
    BY <2>1 DEF IInv, EnvOK
  <2>3. running' \in BOOLEAN /\ subs' \subseteq Clients
    BY <1>1, <2>1
  <2> QED
    BY <2>1, <2>2, <2>3, AsideStep
<1> QED
  BY <1>2, <1>3, <1>4, <1>5, <1>6 DEF Next

\* At the start nothing was made, nothing waits and nothing was shown.
LEMMA Starts ==
    ASSUME Init
    PROVE  IInv
<1>a. PICK s, n, e : s = left.segments /\ n = left.pieces /\ e = <<>>
  OBVIOUS
<1>1. EnvOK
  BY DeliveryAssumption DEF Init, EnvOK, DeliveryAssumption
<1>2. s \in Nat /\ n \in Nat /\ 1 \in 1 .. s
  BY <1>1, <1>a, EnvTypes
<1>3. \A z : e \in Seq(z) /\ Len(e) = 0
  BY <1>a
<1>4. /\ turn = [t \in Turns |-> [at |-> "work", seg |-> 1, seen |-> TRUE, made |-> [g \in 1 .. s |-> 0]]]
      /\ queue = e /\ held = e /\ cur = NoMsg /\ todo = {} /\ tries = 0 /\ running = TRUE /\ subs = Clients
      /\ log = [c \in Chats |-> e] /\ prints = e /\ wire = [k \in Clients |-> e]
      /\ refused = {} /\ muted = {} /\ failed = {}
  BY <1>a DEF Init
<1>5. Waiting = e
  BY <1>4, <1>a DEF Waiting
<1>6. TurnsOK(s, n, turn)
  <2>1. PICK d : d = [g \in 1 .. s |-> 0]
    OBVIOUS
  <2>2. d \in [1 .. s -> 0 .. n] /\ \A g \in 1 .. s : d[g] = 0
    BY <1>2, <2>1
  <2>3. turn = [t \in Turns |-> [at |-> "work", seg |-> 1, seen |-> TRUE, made |-> d]]
    BY <1>4, <2>1
  <2>4. turn \in [Turns -> TurnType(s, n)] /\ \A t \in Turns : turn[t].made = d
    BY <1>2, <2>2, <2>3 DEF TurnType
  <2> QED
    BY <2>2, <2>4 DEF TurnsOK, TurnType
<1>7. \A k \in Clients : wire[k] = e
  BY <1>4
<1>8. Pipe
  <2>1. WaitOK(s, n, turn, e)
    BY <1>3 DEF WaitOK
  <2>2. FlowOK(s, n, turn, e, e) /\ Repeating(n, failed, e)
    BY <1>3 DEF FlowOK, Repeating
  <2>3. Flow(s, n, turn, e, NoMsg, wire, failed, todo)
    BY <1>3, <1>6, <1>7, <2>1, <2>2 DEF Flow
  <2> QED
    BY <1>4, <1>5, <1>a, <2>3 DEF Pipe
<1>9. Everywhere
  <2>1. ASSUME NEW p \in Pieces(s, n) PROVE ~IsMade(turn, p)
    <3>1. p.of[1] \in Turns /\ p.of[2] \in 1 .. s /\ p.nr \in 1 .. n
      BY PieceType
    <3>2. turn[p.of[1]].made[p.of[2]] = 0
      BY <1>4, <3>1
    <3> QED
      BY <1>2, <3>1, <3>2 DEF IsMade
  <2>2. \A p : ~GivenUp(p, refused)
    BY <1>4 DEF GivenUp
  <2>3. Located(s, n, turn, Waiting, cur, wire, refused, failed, todo)
    BY <1>4, <2>1, <2>2 DEF Located
  <2> QED
    BY <1>a, <2>3 DEF Everywhere
<1>10. Sizes
  <2>1. QueueMax \in Nat /\ MaxAttempts \in Nat
    BY DeliveryAssumption DEF DeliveryAssumption
  <2> QED
    BY <1>3, <1>4, <2>1 DEF Sizes
<1>11. Records
  <2>1. log \in [Chats -> Seq(FrameType(s, n))] /\ wire \in [Clients -> Seq(FrameType(s, n))]
    BY <1>3, <1>4
  <2>2. \A k \in Clients : ToSet(wire[k]) \subseteq ToSet(log[On[k]])
    <3>1. ToSet(e) = {}
      BY <1>a DEF ToSet
    <3> QED
      BY <1>7, <3>1
  <2> QED
    BY <1>4, <1>a, <2>1, <2>2 DEF Records, LogHasAll
<1>12. Replied
  <2>1. DOMAIN e = {}
    BY <1>a
  <2> QED
    BY <1>4, <2>1 DEF Replied, RepliesOK
<1>13. TodoOK
  BY <1>4 DEF TodoOK
<1> QED
  BY <1>1, <1>8, <1>9, <1>10, <1>11, <1>12, <1>13 DEF IInv

LEMMA Invariant == Spec => []IInv
<1>1. Init => IInv
  BY Starts
<1>2. IInv /\ [Next]_vars => IInv'
  BY NextKeeps
<1> QED
  BY <1>1, <1>2, PTL DEF Spec

-----------------------------------------------------------------------------
(***************************************************************************)
(* What the invariant says.                                                *)
(***************************************************************************)
\* What was repeated are frames of a message a send of which raised.
LEMMA TwiceSent ==
    ASSUME NEW s \in Nat, NEW n \in Nat, \A m \in failed : MsgOK(s, n, m),
           NEW f, NEW g, Twice(failed, f, g)
    PROVE  SentAgain(f, g)
<1>1. PICK m \in failed : IsOf(f, m) /\ IsOf(g, m)
  BY DEF Twice
<1>2. PICK z : Frames(m) \in Seq(z)
  BY <1>1, FramesOf
<1>3. ToSet(Frames(m)) = {Frames(m)[j] : j \in 1 .. Len(Frames(m))}
  BY <1>2, SetOf
<1>4. f \in ToSet(Frames(m)) /\ g \in ToSet(Frames(m))
  BY <1>1, <1>3 DEF IsOf
<1> QED
  BY <1>1, <1>4 DEF SentAgain

\* The places of the frames are those of the properties.
LEMMA PlaceIs ==
    ASSUME NEW x
    PROVE  /\ Place(x).of[1] = Trn(x) /\ Place(x).of[2] = Seg(x) /\ Place(x).nr = Nr(left.pieces, x)
           /\ TurnOf(x) = Trn(x)
<1>1. CASE x.kind = "delta"
  BY <1>1 DEF Place, TurnOf, Trn, Seg, Nr
<1>2. CASE x.kind # "delta"
  <2>1. Place(x) = [of |-> x.id, nr |-> left.pieces + 1]
    BY <1>2 DEF Place
  <2>2. Place(x).of = x.id /\ Place(x).nr = left.pieces + 1
    BY <2>1
  <2> QED
    BY <1>2, <2>2 DEF TurnOf, Trn, Seg, Nr
<1> QED
  BY <1>1, <1>2

LEMMA InvInOrder == IInv => InOrder
<1> SUFFICES ASSUME IInv, NEW c \in Clients, NEW i \in 1 .. Len(wire[c]), NEW j \in 1 .. Len(wire[c]),
                    i < j, TurnOf(wire[c][i]) = TurnOf(wire[c][j])
             PROVE  Follows(wire[c][i], wire[c][j]) \/ SentAgain(wire[c][i], wire[c][j])
  BY DEF InOrder
<1>a. PICK s, n, f, g : s = left.segments /\ n = left.pieces /\ f = wire[c][i] /\ g = wire[c][j]
  OBVIOUS
<1>b. s \in Nat /\ n \in Nat
  BY <1>a, EnvTypes DEF IInv
<1>1. Ord(n, f, g) \/ Twice(failed, f, g)
  BY <1>a DEF IInv, Pipe, Flow, Repeating
<1>2. CASE Twice(failed, f, g)
  <2>1. \A m \in failed : MsgOK(s, n, m)
    BY <1>a DEF IInv, Records
  <2> QED
    BY <1>2, <1>a, <1>b, <2>1, TwiceSent
<1>3. CASE Ord(n, f, g)
  <2>1. f.kind \in {"delta", "end", "final"} /\ g.kind \in {"delta", "end", "final"}
    <3>1. PICK q, z : q = wire[c] /\ z = FrameType(left.segments, n)
      OBVIOUS
    <3>2. q \in Seq(z) /\ i \in 1 .. Len(q) /\ j \in 1 .. Len(q) /\ f = q[i] /\ g = q[j]
      BY <1>a, <3>1 DEF IInv, Records
    <3>3. f \in z /\ g \in z
      BY <3>2
    <3> QED
      BY <3>1, <3>3 DEF FrameType
  <2>2. Trn(f) = Trn(g)
    BY <1>a, PlaceIs
  <2>3. /\ f.kind \notin Lasts
        /\ g.kind \in Lasts \/ Seg(f) < Seg(g) \/ (Seg(f) = Seg(g) /\ Nr(n, f) < Nr(n, g))
    BY <1>3, <2>2 DEF Ord
  <2>4. Earlier(Place(f), Place(g)) <=> Seg(f) < Seg(g) \/ (Seg(f) = Seg(g) /\ Nr(n, f) < Nr(n, g))
    BY <1>a, PlaceIs DEF Earlier
  <2>5. f.kind # "final" /\ (Earlier(Place(f), Place(g)) \/ g.kind = "final")
    BY <2>1, <2>3, <2>4 DEF Lasts
  <2> QED
    BY <1>a, <2>5 DEF Follows
<1> QED
  BY <1>1, <1>2, <1>3

\* In how many of four places something is.
HowMany(p, a, b, c, d) == Cardinality({i \in 1 .. 4 : p \in <<a, b, c, d>>[i]})

\* Of four places of which no two share the piece, one or none has it.
LEMMA OneOf ==
    ASSUME NEW p, NEW a, NEW b, NEW c, NEW d,
           ~(p \in a /\ (p \in b \/ p \in c \/ p \in d)),
           ~(p \in b /\ (p \in c \/ p \in d)), ~(p \in c /\ p \in d)
    PROVE  /\ (p \in a \/ p \in b \/ p \in c \/ p \in d) => HowMany(p, a, b, c, d) = 1
           /\ ~(p \in a \/ p \in b \/ p \in c \/ p \in d) => HowMany(p, a, b, c, d) = 0
<1>1. PICK here : here = {i \in 1 .. 4 : p \in <<a, b, c, d>>[i]}
  OBVIOUS
<1>2. \A i : i \in here <=> \/ i = 1 /\ p \in a
                            \/ i = 2 /\ p \in b
                            \/ i = 3 /\ p \in c
                            \/ i = 4 /\ p \in d
  BY <1>1
<1>a. HowMany(p, a, b, c, d) = Cardinality(here)
  BY <1>1 DEF HowMany
<1>3. CASE ~(p \in a \/ p \in b \/ p \in c \/ p \in d)
  <2>1. here = {}
    BY <1>2, <1>3
  <2> QED
    BY <1>a, <1>3, <2>1, FS_EmptySet
<1>4. CASE p \in a \/ p \in b \/ p \in c \/ p \in d
  <2>1. PICK i : here = {i}
    <3>1. CASE p \in a
      <4>1. here = {1}
        BY <1>2, <3>1
      <4> QED
        BY <4>1
    <3>2. CASE p \in b
      <4>1. here = {2}
        BY <1>2, <3>2
      <4> QED
        BY <4>1
    <3>3. CASE p \in c
      <4>1. here = {3}
        BY <1>2, <3>3
      <4> QED
        BY <4>1
    <3>4. CASE p \in d
      <4>1. here = {4}
        BY <1>2, <3>4
      <4> QED
        BY <4>1
    <3> QED
      BY <1>4, <3>1, <3>2, <3>3, <3>4
  <2>2. Cardinality(here) = 1
    BY <2>1, FS_Singleton
  <2> QED
    BY <1>a, <1>4, <2>2
<1> QED
  BY <1>3, <1>4

\* A part of what waits.
LEMMA InWaiting ==
    ASSUME NEW s \in Nat, NEW n \in Nat, NEW z, NEW q \in Seq(z), NEW p,
           \A k \in 1 .. Len(q) : MsgOK(s, n, q[k]) /\ Single(q[k])
    PROVE  p \in InMessages(ToSet(q)) <=> Waits(p, q)
<1>1. ToSet(q) = {q[k] : k \in 1 .. Len(q)}
  BY DEF ToSet
<1>2. ASSUME NEW k \in 1 .. Len(q)
      PROVE  q[k] # NoMsg /\ (p \in ToSet(q[k].text) <=> q[k].kind = "delta" /\ q[k].text[1] = p)
  <2>1. PICK m, x : m = q[k] /\ x = q[k].text
    OBVIOUS
  <2>2. MsgOK(s, n, m) /\ Single(m) /\ m.text = x
    BY <2>1
  <2>3. m # NoMsg /\ x \in Seq(Pieces(s, n)) /\ Len(x) \in Nat
    <3>1. m # NoMsg
      <4>1. MsgOK(s, n, m)
        BY <2>2
      <4> QED
        BY <4>1, FramesOf
    <3>2. m \in MsgType(s, n) /\ m.text = x
      BY <2>2 DEF MsgOK
    <3>3. x \in Seq(Pieces(s, n))
      BY <3>2 DEF MsgType
    <3>4. Len(x) \in Nat
      BY <3>3
    <3> QED
      BY <3>1, <3>3, <3>4
  <2>4. (m.kind = "delta" <=> Len(x) > 0) /\ (m.kind = "delta" => Len(x) = 1)
    BY <2>2 DEF MsgOK, Single
  <2>5. ToSet(x) = {x[i] : i \in 1 .. Len(x)}
    BY <2>3 DEF ToSet
  <2>6. p \in ToSet(x) <=> m.kind = "delta" /\ x[1] = p
    <3>1. CASE m.kind = "delta"
      <4>1. Len(x) = 1
        BY <2>4, <3>1
      <4>2. ToSet(x) = {x[1]}
        BY <2>5, <4>1
      <4> QED
        BY <3>1, <4>2
    <3>2. CASE m.kind # "delta"
      <4>1. Len(x) = 0
        BY <2>3, <2>4, <3>2
      <4>2. ToSet(x) = {}
        BY <2>5, <4>1
      <4> QED
        BY <3>2, <4>2
    <3> QED
      BY <3>1, <3>2
  <2> QED
    BY <2>1, <2>3, <2>6
<1>3. p \in InMessages(ToSet(q)) <=> \E m \in ToSet(q) : m # NoMsg /\ p \in ToSet(m.text)
  BY DEF InMessages
<1>4. p \in InMessages(ToSet(q)) <=> \E k \in 1 .. Len(q) : q[k] # NoMsg /\ p \in ToSet(q[k].text)
  BY <1>1, <1>3
<1> QED
  BY <1>2, <1>4 DEF Waits

\* Messages being sent or given up.
LEMMA InHand ==
    ASSUME NEW s \in Nat, NEW n \in Nat, NEW M, NEW p, \A m \in M : m = NoMsg \/ MsgOK(s, n, m)
    PROVE  p \in InMessages(M) <=> \E m \in M : Has(p, m)
<1>1. p \in InMessages(M) <=> \E m \in M : m # NoMsg /\ p \in ToSet(m.text)
  BY DEF InMessages
<1>2. ASSUME NEW m \in M, m # NoMsg PROVE p \in ToSet(m.text) <=> Has(p, m)
  <2>1. PICK x : x = m.text
    OBVIOUS
  <2>2. x \in Seq(Pieces(s, n))
    BY <1>2, <2>1 DEF MsgOK, MsgType
  <2>3. ToSet(x) = {x[i] : i \in 1 .. Len(x)}
    BY <2>2 DEF ToSet
  <2>4. Has(p, m) <=> \E i \in 1 .. Len(x) : x[i] = p
    BY <1>2, <2>1 DEF Has
  <2> QED
    BY <2>1, <2>3, <2>4
<1> QED
  BY <1>1, <1>2 DEF Has

LEMMA InShown ==
    ASSUME NEW z, wire \in [Clients -> Seq(z)], NEW c, NEW p
    PROVE  p \in Shown(c) <=> SeenIn(p, wire, c)
<1>1. p \in Shown(c) <=> \E f \in FramesIn(c) : f.kind = "delta" /\ f.piece = p
  BY DEF Shown
<1>2. \A f : f \in FramesIn(c) <=> \E k \in Readers(c) : f \in ToSet(wire[k])
  BY DEF FramesIn
<1>3. ASSUME NEW k \in Readers(c)
      PROVE  (\E f \in ToSet(wire[k]) : f.kind = "delta" /\ f.piece = p) <=> Seen(p, wire[k])
  <2>1. PICK q : q = wire[k]
    OBVIOUS
  <2>2. q \in Seq(z)
    BY <2>1 DEF Readers
  <2>3. ToSet(q) = {q[i] : i \in 1 .. Len(q)}
    BY <2>2, SetOf
  <2>4. (\E f \in ToSet(q) : f.kind = "delta" /\ f.piece = p)
           <=> \E i \in 1 .. Len(q) : q[i].kind = "delta" /\ q[i].piece = p
    BY <2>3
  <2> QED
    BY <2>1, <2>4 DEF Seen
<1> QED
  BY <1>1, <1>2, <1>3 DEF SeenIn

\* A piece waits on the queue or is held back, not both.
LEMMA WaitsConcat ==
    ASSUME NEW z, NEW a \in Seq(z), NEW b \in Seq(z), NEW p,
           \A k, l \in 1 .. Len(a \o b) :
              k < l /\ (a \o b)[k].kind = "delta" /\ (a \o b)[k].text[1] = p =>
                 ~((a \o b)[l].kind = "delta" /\ (a \o b)[l].text[1] = p)
    PROVE  (Waits(p, a \o b) <=> Waits(p, a) \/ Waits(p, b)) /\ ~(Waits(p, a) /\ Waits(p, b))
<1>1. PICK r : r = a \o b
  OBVIOUS
<1>2. /\ Len(r) = Len(a) + Len(b) /\ Len(a) \in Nat /\ Len(b) \in Nat
      /\ \A k \in 1 .. Len(a) : r[k] = a[k]
      /\ \A k \in 1 .. Len(b) : r[Len(a) + k] = b[k]
  BY <1>1, ConcatIs
<1> DEFINE At(q, k) == q[k].kind = "delta" /\ q[k].text[1] = p
<1>3. \A k, l \in 1 .. Len(r) : k < l /\ At(r, k) => ~At(r, l)
  BY <1>1
<1>4. ASSUME NEW k \in 1 .. Len(a) PROVE k \in 1 .. Len(r) /\ (At(r, k) <=> At(a, k))
  <2>1. k \in 1 .. Len(r) /\ r[k] = a[k]
    BY <1>2
  <2> QED
    BY <2>1
<1>5. ASSUME NEW k \in 1 .. Len(b)
      PROVE  /\ Len(a) + k \in 1 .. Len(r) /\ (At(r, Len(a) + k) <=> At(b, k))
             /\ \A l \in 1 .. Len(a) : l < Len(a) + k
  <2>1. PICK l : l = Len(a) + k
    OBVIOUS
  <2>2. l \in 1 .. Len(r) /\ r[l] = b[k] /\ \A j \in 1 .. Len(a) : j < l
    BY <1>2, <2>1
  <2> QED
    BY <2>1, <2>2
<1>6. ASSUME NEW k \in 1 .. Len(r)
      PROVE  k \in 1 .. Len(a) \/ \E l \in 1 .. Len(b) : k = Len(a) + l
  <2>1. CASE k <= Len(a)
    BY <1>2, <2>1
  <2>2. CASE k > Len(a)
    <3>1. k - Len(a) \in 1 .. Len(b) /\ k = Len(a) + (k - Len(a))
      BY <1>2, <2>2
    <3> QED
      BY <3>1
  <2> QED
    BY <1>2, <2>1, <2>2
<1>7. /\ Waits(p, a) <=> \E k \in 1 .. Len(a) : At(a, k)
      /\ Waits(p, b) <=> \E k \in 1 .. Len(b) : At(b, k)
      /\ Waits(p, r) <=> \E k \in 1 .. Len(r) : At(r, k)
  BY DEF Waits
<1> HIDE DEF At
<1>8. Waits(p, r) <=> Waits(p, a) \/ Waits(p, b)
  <2>1. ASSUME Waits(p, r) PROVE Waits(p, a) \/ Waits(p, b)
    <3>1. PICK k \in 1 .. Len(r) : At(r, k)
      BY <1>7, <2>1
    <3>2. CASE k \in 1 .. Len(a)
      BY <1>4, <1>7, <3>1, <3>2
    <3>3. CASE \E l \in 1 .. Len(b) : k = Len(a) + l
      BY <1>5, <1>7, <3>1, <3>3
    <3> QED
      BY <1>6, <3>2, <3>3
  <2>2. ASSUME Waits(p, a) PROVE Waits(p, r)
    BY <1>4, <1>7, <2>2
  <2>3. ASSUME Waits(p, b) PROVE Waits(p, r)
    BY <1>5, <1>7, <2>3
  <2> QED
    BY <2>1, <2>2, <2>3
<1>9. ASSUME Waits(p, a), Waits(p, b) PROVE FALSE
  <2>1. PICK k \in 1 .. Len(a), l \in 1 .. Len(b) : At(a, k) /\ At(b, l)
    BY <1>7, <1>9
  <2>2. k \in 1 .. Len(r) /\ At(r, k)
    BY <1>4, <2>1
  <2>3. Len(a) + l \in 1 .. Len(r) /\ At(r, Len(a) + l) /\ k < Len(a) + l
    BY <1>5, <2>1
  <2> QED
    BY <1>3, <2>2, <2>3
<1> QED
  BY <1>1, <1>8, <1>9

\* A piece done with that is at hand is one that may be repeated.
LEMMA InRepeatable ==
    ASSUME NEW p, NEW b, b <=> p \in InMessages({cur})
    PROVE  /\ p \in Repeatable <=> b /\ (cur \in failed \/ todo # {})
  BY DEF Repeatable

LEMMA InvPlaced == IInv => Placed
<1> SUFFICES ASSUME IInv, NEW t \in left.turns \cap Streaming, NEW g \in 1 .. left.segments,
                    NEW k \in 1 .. left.pieces
             PROVE  LET places == <<InMessages(ToSet(queue)), InMessages(ToSet(held)), InMessages({cur}),
                                    (Shown(ChatOf[t]) \cup InMessages(refused)) \ Repeatable>>
                        here == {i \in 1 .. 4 : [of |-> Stream(t, g), nr |-> k] \in places[i]}
                    IN  Cardinality(here) = IF k <= turn[t].made[g] THEN 1 ELSE 0
  BY DEF Placed
<1>a. PICK s, n, p : s = left.segments /\ n = left.pieces /\ p = [of |-> Stream(t, g), nr |-> k]
  OBVIOUS
<1>b. PICK z, ch : z = MsgType(s, n) /\ ch = ChatOf[t]
  OBVIOUS
<1>1. s \in Nat /\ n \in Nat /\ t \in Turns
  BY <1>a, EnvTypes DEF IInv
<1>2. p \in Pieces(s, n) /\ p.of[1] = t /\ (IsMade(turn, p) <=> k <= turn[t].made[g])
  <2>1. p.of = <<t, g>> /\ p.nr = k
    BY <1>a DEF Stream
  <2>2. p.of[1] = t /\ p.of[2] = g
    BY <2>1
  <2>3. p \in Pieces(s, n)
    BY <1>1, <1>a DEF Stream, Pieces
  <2> QED
    BY <2>1, <2>2, <2>3 DEF IsMade
<1>3. /\ Flow(s, n, turn, Waiting, cur, wire, failed, todo)
      /\ Located(s, n, turn, Waiting, cur, wire, refused, failed, todo)
  BY <1>a DEF IInv, Pipe, Everywhere
<1>4. queue \in Seq(z) /\ held \in Seq(z)
  BY <1>a, <1>b DEF IInv, Sizes
<1>5. \A i \in 1 .. Len(Waiting) : MsgOK(s, n, Waiting[i]) /\ Single(Waiting[i])
  BY <1>3 DEF Flow, WaitOK
<1>6. /\ \A i \in 1 .. Len(held) : MsgOK(s, n, held[i]) /\ Single(held[i])
      /\ \A i \in 1 .. Len(queue) : MsgOK(s, n, queue[i]) /\ Single(queue[i])
  <2>1. PICK r : r = held \o queue
    OBVIOUS
  <2>2. /\ Len(r) = Len(held) + Len(queue) /\ Len(held) \in Nat /\ Len(queue) \in Nat
        /\ \A i \in 1 .. Len(held) : r[i] = held[i]
        /\ \A i \in 1 .. Len(queue) : r[Len(held) + i] = queue[i]
    BY <1>4, <2>1, ConcatIs
  <2>3. \A i \in 1 .. Len(r) : MsgOK(s, n, r[i]) /\ Single(r[i])
    BY <1>5, <2>1 DEF Waiting
  <2>4. ASSUME NEW i \in 1 .. Len(held) PROVE MsgOK(s, n, held[i]) /\ Single(held[i])
    <3>1. i \in 1 .. Len(r) /\ r[i] = held[i]
      BY <2>2
    <3> QED
      BY <2>3, <3>1
  <2>5. ASSUME NEW i \in 1 .. Len(queue) PROVE MsgOK(s, n, queue[i]) /\ Single(queue[i])
    <3>1. PICK l : l = Len(held) + i
      OBVIOUS
    <3>2. l \in 1 .. Len(r) /\ r[l] = queue[i]
      BY <2>2, <3>1
    <3> QED
      BY <2>3, <3>2
  <2> QED
    BY <2>4, <2>5
<1>7. (p \in InMessages(ToSet(queue)) <=> Waits(p, queue)) /\ (p \in InMessages(ToSet(held)) <=> Waits(p, held))
  BY <1>1, <1>4, <1>6, InWaiting
<1>8. p \in InMessages({cur}) <=> Has(p, cur)
  <2>1. cur = NoMsg \/ MsgOK(s, n, cur)
    BY <1>3 DEF Flow
  <2>2. p \in InMessages({cur}) <=> \E m \in {cur} : Has(p, m)
    BY <1>1, <2>1, InHand
  <2> QED
    BY <2>2
<1>9. p \in InMessages(refused) <=> GivenUp(p, refused)
  <2>1. \A m \in refused : MsgOK(s, n, m)
    BY <1>3 DEF Located
  <2> QED
    BY <1>1, <2>1, InHand DEF GivenUp
<1>10. p \in Shown(ch) <=> SeenIn(p, wire, ch)
  <2>1. PICK y : y = FrameType(left.segments, left.pieces)
    OBVIOUS
  <2>2. wire \in [Clients -> Seq(y)]
    BY <2>1 DEF IInv, Records
  <2> QED
    BY <2>2, InShown
<1>11. /\ Waits(p, Waiting) \/ Has(p, cur) \/ (\E c \in Clients : Seen(p, wire[c])) => IsMade(turn, p)
       /\ ~(Waits(p, Waiting) /\ Has(p, cur))
       /\ \A c \in Clients :
             Seen(p, wire[c]) => ~Waits(p, Waiting) /\ (Has(p, cur) => cur \in failed \/ todo # {})
       /\ \A i, j \in 1 .. Len(Waiting) :
             i < j /\ Waiting[i].kind = "delta" /\ Waiting[i].text[1] = p =>
                ~(Waiting[j].kind = "delta" /\ Waiting[j].text[1] = p)
  BY <1>1, <1>2, <1>3, FlowPlaces
<1>12. (Waits(p, Waiting) <=> Waits(p, held) \/ Waits(p, queue)) /\ ~(Waits(p, held) /\ Waits(p, queue))
  <2>1. \A i, j \in 1 .. Len(held \o queue) :
            i < j /\ (held \o queue)[i].kind = "delta" /\ (held \o queue)[i].text[1] = p =>
                ~((held \o queue)[j].kind = "delta" /\ (held \o queue)[j].text[1] = p)
    BY <1>11 DEF Waiting
  <2> QED
    BY <1>4, <2>1, WaitsConcat DEF Waiting
<1>13. SeenIn(p, wire, ch) => /\ IsMade(turn, p) /\ ~Waits(p, Waiting)
                              /\ Has(p, cur) => cur \in failed \/ todo # {}
  BY <1>11 DEF SeenIn, Readers
<1>14. /\ IsMade(turn, p) => \/ Waits(p, Waiting) \/ Has(p, cur) \/ SeenIn(p, wire, ch) \/ GivenUp(p, refused)
       /\ GivenUp(p, refused) => /\ IsMade(turn, p) /\ ~Waits(p, Waiting)
                                 /\ Has(p, cur) => cur \in failed \/ todo # {}
  BY <1>2, <1>3, <1>b DEF Located
<1>15. p \in Repeatable <=> Has(p, cur) /\ (cur \in failed \/ todo # {})
  BY <1>8, InRepeatable
<1>16. PICK a, b, c, d : /\ a = InMessages(ToSet(queue)) /\ b = InMessages(ToSet(held))
                         /\ c = InMessages({cur})
                         /\ d = (Shown(ch) \cup InMessages(refused)) \ Repeatable
  OBVIOUS
<1>17. /\ p \in a <=> Waits(p, queue)
       /\ p \in b <=> Waits(p, held)
       /\ p \in c <=> Has(p, cur)
       /\ p \in d <=> /\ SeenIn(p, wire, ch) \/ GivenUp(p, refused)
                      /\ ~(Has(p, cur) /\ (cur \in failed \/ todo # {}))
  BY <1>7, <1>8, <1>9, <1>10, <1>15, <1>16
<1>18. p \in d => ~Waits(p, Waiting) /\ ~Has(p, cur)
  BY <1>13, <1>14, <1>17
<1>19. /\ ~(p \in a /\ (p \in b \/ p \in c \/ p \in d))
       /\ ~(p \in b /\ (p \in c \/ p \in d)) /\ ~(p \in c /\ p \in d)
  BY <1>11, <1>12, <1>17, <1>18
<1>20. k <= turn[t].made[g] <=> p \in a \/ p \in b \/ p \in c \/ p \in d
  <2>1. IsMade(turn, p) <=> \/ Waits(p, held) \/ Waits(p, queue) \/ Has(p, cur)
                            \/ SeenIn(p, wire, ch) \/ GivenUp(p, refused)
    BY <1>11, <1>12, <1>13, <1>14
  <2> QED
    BY <1>2, <1>17, <2>1
<1>21. /\ (p \in a \/ p \in b \/ p \in c \/ p \in d) => HowMany(p, a, b, c, d) = 1
       /\ ~(p \in a \/ p \in b \/ p \in c \/ p \in d) => HowMany(p, a, b, c, d) = 0
  BY <1>19, OneOf
<1>22. HowMany(p, a, b, c, d) = IF k <= turn[t].made[g] THEN 1 ELSE 0
  BY <1>20, <1>21
<1> QED
  BY <1>16, <1>22, <1>a, <1>b DEF HowMany

LEMMA InvConsistent == IInv => DeliveryConsistent
<1> SUFFICES ASSUME IInv PROVE DeliveryConsistent
  OBVIOUS
<1>a. PICK s, n : s = left.segments /\ n = left.pieces
  OBVIOUS
<1>1. s \in Nat /\ n \in Nat
  BY <1>a, EnvTypes DEF IInv
<1>2. ASSUME NEW m, MsgOK(s, n, m) PROVE Message(m)
  <2>1. PICK x : x = m.text
    OBVIOUS
  <2>2. m.kind \in Kinds /\ m.turn \in Turns /\ x \in Seq(Pieces(s, n)) /\ (m.kind = "delta" <=> Len(x) > 0)
    BY <1>2, <2>1 DEF MsgOK, MsgType
  <2>3. Len(x) > 0 <=> x # <<>>
    BY <2>2
  <2> QED
    BY <2>1, <2>2, <2>3 DEF Message, Kinds
<1>3. \A t \in Turns : /\ turn[t].at \in {"work", "answer", "done"}
                       /\ turn[t].seg \in 1 .. left.segments /\ Made(t) <= left.pieces
  <2> SUFFICES ASSUME NEW t \in Turns
               PROVE  /\ turn[t].at \in {"work", "answer", "done"}
                      /\ turn[t].seg \in 1 .. left.segments /\ Made(t) <= left.pieces
    OBVIOUS
  <2>1. /\ turn[t].at \in {"work", "answer", "done"} /\ turn[t].seg \in 1 .. left.segments
        /\ Made(t) \in 0 .. left.pieces
    BY TurnFacts
  <2> QED
    BY <1>1, <1>a, <2>1
<1>4. \A m \in ToSet(queue \o held) : Message(m)
  <2>1. PICK z, r, w : z = MsgType(s, n) /\ r = queue \o held /\ w = held \o queue
    OBVIOUS
  <2>2. queue \in Seq(z) /\ held \in Seq(z)
    BY <1>a, <2>1 DEF IInv, Sizes
  <2>3. \A i \in 1 .. Len(w) : MsgOK(s, n, w[i])
    BY <1>a, <2>1 DEF IInv, Pipe, Flow, WaitOK, Waiting
  <2>4. /\ Len(w) = Len(held) + Len(queue) /\ Len(held) \in Nat /\ Len(queue) \in Nat
        /\ \A i \in 1 .. Len(held) : w[i] = held[i]
        /\ \A i \in 1 .. Len(queue) : w[Len(held) + i] = queue[i]
    BY <2>1, <2>2, ConcatIs
  <2>5. /\ r \in Seq(z) /\ Len(r) = Len(queue) + Len(held)
        /\ \A i \in 1 .. Len(queue) : r[i] = queue[i]
        /\ \A i \in 1 .. Len(held) : r[Len(queue) + i] = held[i]
    BY <2>1, <2>2, ConcatIs
  <2>6. ASSUME NEW i \in 1 .. Len(r) PROVE MsgOK(s, n, r[i])
    <3>1. CASE i <= Len(queue)
      <4>1. PICK l : l = Len(held) + i
        OBVIOUS
      <4>2. i \in 1 .. Len(queue) /\ l \in 1 .. Len(w)
        BY <2>4, <2>5, <3>1, <4>1
      <4>3. r[i] = w[l]
        BY <2>4, <2>5, <4>1, <4>2
      <4> QED
        BY <2>3, <4>2, <4>3
    <3>2. CASE i > Len(queue)
      <4>1. PICK l : l = i - Len(queue)
        OBVIOUS
      <4>2. l \in 1 .. Len(held) /\ l \in 1 .. Len(w) /\ i = Len(queue) + l
        BY <2>4, <2>5, <3>2, <4>1
      <4>3. r[i] = w[l]
        BY <2>4, <2>5, <4>2
      <4> QED
        BY <2>3, <4>2, <4>3
    <3> QED
      BY <2>4, <2>5, <3>1, <3>2
  <2>7. ToSet(r) = {r[i] : i \in 1 .. Len(r)}
    <3>1. r \in Seq(z)
      BY <2>5
    <3> QED
      BY <3>1 DEF ToSet
  <2> QED
    BY <1>2, <2>1, <2>6, <2>7
<1>5. (\A m \in refused \cup muted \cup failed : Message(m)) /\ (cur = NoMsg \/ Message(cur))
  BY <1>2, <1>a DEF IInv, Pipe, Flow, Everywhere, Located, Records
<1>6. /\ Len(queue) <= QueueMax /\ Len(held) <= 1
      /\ tries <= MaxAttempts /\ (cur # NoMsg => tries < MaxAttempts)
      /\ running \in BOOLEAN /\ subs \subseteq Clients
  BY DeliveryAssumption DEF IInv, Sizes, DeliveryAssumption
<1>b. todo \subseteq Clients /\ \A k \in todo : cur # NoMsg /\ On[k] = To
  <2>1. todo # {} => cur # NoMsg /\ todo \subseteq Readers(To)
    BY DEF IInv, TodoOK
  <2> QED
    BY <2>1 DEF Readers
<1>7. /\ \A c \in Chats : ToSet(log[c]) \subseteq Frame
      /\ \A k \in Clients : ToSet(wire[k]) \subseteq Frame
  <2>1. FrameType(s, n) = Frame
    BY <1>a DEF FrameType, Frame, Ids, Pieces, Says
  <2>2. ASSUME NEW q \in Seq(FrameType(s, n)) PROVE ToSet(q) \subseteq Frame
    <3>1. ToSet(q) = {q[i] : i \in 1 .. Len(q)} /\ \A i \in 1 .. Len(q) : q[i] \in FrameType(s, n)
      BY DEF ToSet
    <3> QED
      BY <2>1, <3>1
  <2>3. /\ \A c \in Chats : log[c] \in Seq(FrameType(s, n))
        /\ \A k \in Clients : wire[k] \in Seq(FrameType(s, n))
    BY <1>a DEF IInv, Records
  <2> QED
    BY <2>2, <2>3
<1>8. TypeOK
  BY <1>3, <1>4, <1>5, <1>6, <1>7, <1>b DEF TypeOK
<1>9. OnlyRepeatsMuted
  <2> SUFFICES ASSUME NEW m \in muted
               PROVE  \E f \in FramesIn(ChatOf[m.turn]) \cup {Frames(r)[1] : r \in refused} :
                          f.kind = "final" /\ f.piece = m.says /\ Key(f.id[1]) = Key(m.turn)
    BY DEF OnlyRepeatsMuted
  <2>1. Said(Key(m.turn), m.says, wire, refused) /\ m.turn \in Turns
    <3>1. Said(Key(m.turn), m.says, wire, refused)
      BY DEF IInv, Replied, RepliesOK
    <3>2. MsgOK(left.segments, left.pieces, m)
      BY DEF IInv, Records
    <3> QED
      BY <3>1, <3>2 DEF MsgOK, MsgType
  <2>2. Key(m.turn)[1] = ChatOf[m.turn]
    BY <2>1, KeyChat
  <2> QED
    BY <2>1, <2>2 DEF Said, In, FramesIn
<1> QED
  BY <1>8, <1>9 DEF DeliveryConsistent, IInv, Records

(***************************************************************************)
(* The theorems.                                                           *)
(***************************************************************************)
\* A client sees the text of a turn in the order the turn produced it, each
\* piece once and nothing after its end, whatever is merged and held back; what
\* it may see again is only a message a send of which raised, before anything
\* that comes after it (ChannelManager._dispatch_outbound, _send_with_retry).
THEOREM InOrderHolds == Spec => []InOrder
  BY Invariant, InvInOrder, PTL

\* Every piece a turn has published is in one place: on the queue, held back,
\* being sent, or done with (shown or given up); what some client was shown is
\* in hand again only while an attempt at its message goes on or after one that
\* raised (_coalesce_stream_deltas, _send_with_retry).
THEOREM PlacedHolds == Spec => []Placed
  BY Invariant, InvPlaced, PTL

\* Only a repetition of what was said is kept from a client, and the
\* transcript has all a client was shown (_should_suppress_outbound).
THEOREM DeliveryConsistentHolds == Spec => []DeliveryConsistent
  BY Invariant, InvConsistent, PTL
=============================================================================
