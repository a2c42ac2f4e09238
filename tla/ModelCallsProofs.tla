------------------------- MODULE ModelCallsProofs -------------------------
(***************************************************************************)
(* The requests to the model, for any turns, requests and limits: one      *)
(* answer is shown, every fallback is tried before a request fails for     *)
(* want of a model, and a turn stays within its budget.                    *)
(***************************************************************************)
EXTENDS ModelCalls, FiniteSetTheorems, WellFoundedInduction, TLAPS

\* A set of naturals that is not empty has a least element.
LEMMA Least ==
    ASSUME NEW S, S \subseteq Nat, S # {}
    PROVE  \E x \in S : \A y \in S : x <= y
<1>1. PICK x \in S : \A y \in S : ~(<<y, x>> \in OpToRel(<, Nat))
  BY NatLessThanWellFounded, WFMin
<1>2. ASSUME NEW y \in S PROVE ~(y < x)
  <2>1. <<y, x>> \in Nat \X Nat
    OBVIOUS
  <2> QED
    BY <1>1, <2>1 DEF OpToRel
<1>3. \A y \in S : y \in Nat /\ x \in Nat
  OBVIOUS
<1> QED
  BY <1>2, <1>3

LEMMA Limits ==
    /\ Retries \in Nat /\ Threshold \in Nat /\ Identical \in Nat /\ MaxAttempts \in Nat
    /\ Threshold > 0 /\ MaxAttempts > 0 /\ MaxCalls \in Nat /\ Fallbacks \in Nat
  BY ModelCallsAssumption DEF ModelCallsAssumption

\* The failover goes to the next fallback that can be created.
LEMMA NextModelIs ==
    ASSUME NEW i \in 1 .. Fallbacks + 1, broken \subseteq 1 .. Fallbacks
    PROVE  /\ NextModel(i) \in i .. Fallbacks + 1 /\ NextModel(i) \notin broken
           /\ \A k \in i .. NextModel(i) - 1 : k \in broken
<1> DEFINE Whole == {j \in i .. Fallbacks + 1 : j \notin broken}
<1>1. Whole \subseteq Nat /\ Fallbacks + 1 \in Whole
  BY Limits
<1>2. PICK j \in Whole : \A k \in Whole : j <= k
  <2> HIDE DEF Whole
  <2> QED
    BY <1>1, Least
<1>3. \A k \in i .. j - 1 : k \in broken
  BY <1>1, <1>2, Limits
<1>4. \E n \in i .. Fallbacks + 1 : n \notin broken /\ \A k \in i .. n - 1 : k \in broken
  BY <1>3
<1> QED
  BY <1>4 DEF NextModel

-----------------------------------------------------------------------------
Models == 0 .. Fallbacks
Counts == 0 .. MaxAttempts
Places == {"unsent", "idle", "begin", "primary", "fallback", "sleep"}
SomeFallbacks == SUBSET (1 .. Fallbacks)
SomeAskings == SUBSET (Counts \X Models)
RequestType ==
    [at : Places, idx : Models, attempt : Counts, key : Results, same : Counts,
     heard : BOOLEAN, sent : BOOLEAN, stripped : BOOLEAN, pictures : BOOLEAN,
     tried : SomeFallbacks, voices : SomeAskings]

\* Text is shown by the model that is being asked, and by no other before it;
\* identical errors and attempts are counted as far as the attempts allow; and
\* what was tried is every fallback up to the one that is asked.
RequestOK(r, q) ==
    /\ q.heard <=> q.sent
    /\ IF q.sent THEN q.at \in {"primary", "fallback"} /\ q.voices = {<<q.attempt, q.idx>>}
                 ELSE q.voices = {}
    /\ q.at \in {"begin", "sleep"} /\ ~q.stripped => q.same <= q.attempt
    /\ q.at \in {"begin", "sleep"} /\ ~q.stripped /\ r \notin Persistent => q.attempt <= Retries
    /\ q.at = "begin" /\ ~q.stripped => q.attempt < MaxAttempts
    /\ q.at = "sleep" => ~q.stripped
    /\ q.at \in {"primary", "fallback"} /\ ~q.stripped => q.same < q.attempt
    /\ r \notin Persistent => q.attempt <= Retries + 1
    /\ q.at = "primary" => q.tried = {}
    /\ q.at = "fallback" => q.idx > 0 /\ q.tried = (1 .. q.idx) \ broken
    /\ r \in Mains => q.at # "unsent"

CallInv ==
    /\ req \in [Requests -> RequestType]
    /\ \A r \in Requests : RequestOK(r, req[r])
    /\ broken \subseteq 1 .. Fallbacks

\* A step of one request keeps the others as they are.
LEMMA OneRequest ==
    ASSUME CallInv, NEW r \in Requests, NEW x \in RequestType, RequestOK(r, x),
           req' = [req EXCEPT ![r] = x], broken' = broken
    PROVE  CallInv'
<1>1. req' \in [Requests -> RequestType]
  BY DEF CallInv
<1>2. ASSUME NEW q \in Requests PROVE RequestOK(q, req[q])'
  <2>1. req'[q] = IF q = r THEN x ELSE req[q]
    BY DEF CallInv
  <2>2. RequestOK(q, req'[q])
    BY <2>1 DEF CallInv
  <2> QED
    BY <2>2 DEF RequestOK
<1> QED
  BY <1>1, <1>2 DEF CallInv

\* The steps of a request, on its record: a new one, a new error, and a place.
FreshAt(p, a) == [Fresh EXCEPT !.pictures = p, !.at = a]

LEMMA Ranges ==
    /\ 0 \in Models /\ 0 \in Counts /\ {} \in SomeFallbacks /\ {} \in SomeAskings
    /\ "ok" \in Results /\ "none" \in Results /\ Outcomes \subseteq Results
    /\ Models \subseteq Nat /\ Counts \subseteq Nat
  BY Limits DEF Models, Counts, SomeFallbacks, SomeAskings, Results, Outcomes

LEMMA FreshType == Fresh \in RequestType
  BY Ranges DEF Fresh, RequestType, Places

LEMMA FreshIs ==
    ASSUME NEW p \in BOOLEAN, NEW a \in {"idle", "unsent", "begin"}
    PROVE  /\ [Fresh EXCEPT !.at = a, !.pictures = p] = FreshAt(p, a)
           /\ [Fresh EXCEPT !.pictures = p] = FreshAt(p, "idle")
           /\ FreshAt(p, a) \in RequestType
           /\ FreshAt(p, a).at = a /\ FreshAt(p, a).attempt = 0 /\ FreshAt(p, a).same = 0
           /\ FreshAt(p, a).heard = FALSE /\ FreshAt(p, a).sent = FALSE
           /\ FreshAt(p, a).voices = {} /\ FreshAt(p, a).stripped = FALSE
<1>1. Fresh.at = "idle" /\ Fresh.attempt = 0 /\ Fresh.same = 0 /\ Fresh.heard = FALSE
      /\ Fresh.sent = FALSE /\ Fresh.voices = {} /\ Fresh.stripped = FALSE
  BY DEF Fresh
<1>2. FreshAt(p, a) \in RequestType
  BY FreshType DEF FreshAt, RequestType, Places
<1>3. /\ [Fresh EXCEPT !.at = a, !.pictures = p] = FreshAt(p, a)
      /\ [Fresh EXCEPT !.pictures = p] = FreshAt(p, "idle")
  BY FreshType, <1>1 DEF FreshAt, RequestType, Places
<1>4. /\ FreshAt(p, a).at = a /\ FreshAt(p, a).attempt = 0 /\ FreshAt(p, a).same = 0
      /\ FreshAt(p, a).heard = FALSE /\ FreshAt(p, a).sent = FALSE
      /\ FreshAt(p, a).voices = {} /\ FreshAt(p, a).stripped = FALSE
  BY FreshType, <1>1 DEF FreshAt, RequestType
<1> QED
  BY <1>2, <1>3, <1>4

LEMMA FreshOK ==
    ASSUME NEW r, NEW p \in BOOLEAN, NEW a \in {"idle", "unsent", "begin"},
           a = "unsent" => r \notin Mains
    PROVE  FreshAt(p, a) \in RequestType /\ RequestOK(r, FreshAt(p, a))
<1> DEFINE x == FreshAt(p, a)
<1>1. /\ x.at = a /\ x.attempt = 0 /\ x.same = 0 /\ x.heard = FALSE /\ x.sent = FALSE
      /\ x.voices = {} /\ x.stripped = FALSE /\ x \in RequestType
  BY FreshIs
<1> HIDE DEF x
<1>2. RequestOK(r, x)
  BY <1>1, Limits DEF RequestOK
<1> QED
  BY <1>1, <1>2 DEF x

\* The end of an attempt settles the request, or it was shown nothing yet and
\* goes on without its images or after a delay.
LEMMA ReturnedOK ==
    ASSUME CallInv, NEW r \in Requests, NEW o \in Results, Returned(r, o),
           req[r].at \in {"begin", "primary", "fallback"},
           Transient(o) => req[r].at # "begin"
    PROVE  \E x \in RequestType :
               /\ RequestOK(r, x) /\ req' = [req EXCEPT ![r] = x]
               /\ \/ x.at = "idle" /\ turn' = Record(r)
                  \/ x.at \in {"begin", "sleep"} /\ turn' = turn
<1> DEFINE q == req[r]
<1>0. /\ q \in RequestType /\ RequestOK(r, q)
      /\ Same(r, o) \in Nat /\ Same(r, o) <= q.same + 1 /\ Same(r, o) > 0
      /\ q.same \in Nat /\ q.attempt \in Nat /\ q.attempt <= MaxAttempts /\ q.pictures \in BOOLEAN
  BY Limits DEF CallInv, RequestType, Same, Counts
<1>1. CASE Settle(r, o)
  <2> DEFINE p == q.pictures /\ ~(q.stripped /\ o = "ok")
             x == FreshAt(p, "idle")
  <2>1. p \in BOOLEAN
    BY <1>0
  <2>2. req' = [req EXCEPT ![r] = [Fresh EXCEPT !.pictures = p]] /\ turn' = Record(r)
    BY <1>1 DEF Settle
  <2> HIDE DEF p
  <2>3. req' = [req EXCEPT ![r] = x]
    BY <2>1, <2>2, FreshIs
  <2>4. x \in RequestType /\ RequestOK(r, x) /\ x.at = "idle"
    BY <2>1, FreshOK, FreshIs
  <2> HIDE DEF x
  <2> QED
    BY <2>2, <2>3, <2>4
<1>2. CASE ~Settle(r, o)
  <2>1. ~q.stripped /\ ~q.sent
    BY <1>2 DEF Returned
  <2>2. /\ Same(r, o) \in Counts
        /\ q.at = "begin" => Same(r, o) <= q.attempt + 1
        /\ q.at # "begin" => Same(r, o) <= q.attempt
    BY <1>0, <2>1, Limits DEF RequestOK, Counts
  <2>3. CASE ~Transient(o)
    <3> DEFINE y == [q EXCEPT !.key = o, !.same = Same(r, o)]
               x == [y EXCEPT !.at = "begin", !.stripped = TRUE]
    <3>1. req' = [req EXCEPT ![r] = x] /\ turn' = turn
      BY <1>2, <2>1, <2>3 DEF Returned
    <3>2. x \in RequestType
      BY <1>0, <2>2 DEF RequestType, Places
    <3>3. /\ x.at = "begin" /\ x.stripped = TRUE /\ x.heard = q.heard /\ x.sent = q.sent
          /\ x.voices = q.voices /\ x.attempt = q.attempt
      BY <1>0 DEF RequestType
    <3> HIDE DEF x, y
    <3>4. RequestOK(r, x)
      BY <1>0, <2>1, <3>3 DEF RequestOK
    <3> QED
      BY <3>1, <3>2, <3>3, <3>4
  <2>4. CASE Transient(o)
    <3> DEFINE y == [q EXCEPT !.key = o, !.same = Same(r, o)]
               x == [y EXCEPT !.at = "sleep"]
    <3>1. req' = [req EXCEPT ![r] = x] /\ turn' = turn /\ ~GivesUp(r, o)
      BY <1>2, <2>1, <2>4 DEF Returned, Transient
    <3>2. x \in RequestType
      BY <1>0, <2>2 DEF RequestType, Places
    <3>3. /\ x.at = "sleep" /\ x.stripped = q.stripped /\ x.heard = q.heard /\ x.sent = q.sent
          /\ x.voices = q.voices /\ x.attempt = q.attempt /\ x.same = Same(r, o)
      BY <1>0 DEF RequestType
    <3> HIDE DEF x, y
    <3>4. r \notin Persistent => q.attempt <= Retries
      BY <1>0, <3>1, Limits DEF GivesUp
    <3>5. RequestOK(r, x)
      BY <1>0, <2>1, <2>2, <2>4, <3>3, <3>4 DEF RequestOK
    <3> QED
      BY <3>1, <3>2, <3>3, <3>5
  <2> QED
    BY <2>3, <2>4
<1> QED
  BY <1>1, <1>2

\* What the failover asks next has every fallback before it tried or broken.
LEMMA GoOnOK ==
    ASSUME CallInv, NEW r \in Requests, NEW i, NEW o \in Results, GoOn(r, i, o),
           Asked(r), ~req[r].heard, i = IF req[r].at = "primary" THEN 1 ELSE req[r].idx + 1
    PROVE  \E x \in RequestType :
               /\ RequestOK(r, x) /\ req' = [req EXCEPT ![r] = x]
               /\ \/ x.at = "idle" /\ turn' = Record(r)
                  \/ x.at \in {"begin", "sleep", "fallback"} /\ turn' = turn
<1> DEFINE q == req[r]
           j == NextModel(i)
<1>0. /\ q \in RequestType /\ RequestOK(r, q) /\ q.idx \in 0 .. Fallbacks
      /\ q.tried \in SUBSET (1 .. Fallbacks) /\ ~q.sent
  BY DEF CallInv, RequestType, RequestOK, Models, SomeFallbacks
<1>1. i \in 1 .. Fallbacks + 1
  BY <1>0, Limits
<1>2. /\ j \in i .. Fallbacks + 1 /\ j \notin broken
      /\ \A k \in i .. j - 1 : k \in broken
  BY <1>1, NextModelIs DEF CallInv
<1>3. CASE j <= Fallbacks
  <2> DEFINE x == [q EXCEPT !.at = "fallback", !.idx = j, !.tried = @ \cup {j}]
  <2>1. req' = [req EXCEPT ![r] = x] /\ turn' = turn
    BY <1>0, <1>3 DEF GoOn, CallInv
  <2>2. j \in Models /\ q.tried \cup {j} \in SomeFallbacks
    BY <1>0, <1>1, <1>2, <1>3, Limits DEF Models, SomeFallbacks
  <2>3. x \in RequestType
    BY <1>0, <2>2 DEF RequestType, Places
  <2>4. /\ x.at = "fallback" /\ x.idx = j /\ x.tried = q.tried \cup {j} /\ x.sent = q.sent
        /\ x.heard = q.heard /\ x.voices = q.voices /\ x.attempt = q.attempt
        /\ x.same = q.same /\ x.stripped = q.stripped
    BY <1>0 DEF RequestType
  <2>5. q.tried = (1 .. i - 1) \ broken
    BY <1>0, Limits DEF Asked, RequestOK
  <2> HIDE DEF x
  <2>6. x.tried = (1 .. x.idx) \ broken /\ x.idx > 0
    <3> HIDE DEF j
    <3>1. 1 .. j = (1 .. i - 1) \cup (i .. j - 1) \cup {j}
      BY <1>1, <1>2, Limits
    <3> QED
      BY <1>1, <1>2, <2>4, <2>5, <3>1, Limits
  <2>7. q.at \in {"primary", "fallback"}
    BY DEF Asked
  <2>8. RequestOK(r, x)
    BY <1>0, <2>4, <2>6, <2>7 DEF RequestOK
  <2> QED
    BY <2>1, <2>3, <2>4, <2>8
<1>4. CASE ~(j <= Fallbacks)
  <2>1. Returned(r, o)
    BY <1>4 DEF GoOn
  <2>2. req[r].at \in {"begin", "primary", "fallback"} /\ req[r].at # "begin"
    BY DEF Asked
  <2> QED
    BY <2>1, <2>2, ReturnedOK
<1> QED
  BY <1>3, <1>4

\* A request counts an attempt when it begins.
AttemptAt(r, p, k, f) == [Attempt(r) EXCEPT !.at = p, !.idx = k, !.tried = f]

LEMMA AttemptOK ==
    ASSUME CallInv, NEW r \in Requests, req[r].at = "begin",
           NEW p \in {"primary", "fallback"}, NEW k \in Models, NEW f \in SomeFallbacks,
           p = "primary" => f = {},
           p = "fallback" => k > 0 /\ f = (1 .. k) \ broken
    PROVE  /\ AttemptAt(r, p, k, f) \in RequestType /\ RequestOK(r, AttemptAt(r, p, k, f))
           /\ AttemptAt(r, p, k, f).at = p
           /\ k = 0 /\ f = {} => AttemptAt(r, p, k, f) = [Attempt(r) EXCEPT !.at = p]
<1> DEFINE q == req[r]
           n == q.attempt + (IF q.stripped THEN 0 ELSE 1)
<1>1. /\ q \in RequestType /\ RequestOK(r, q)
      /\ q.attempt \in Nat /\ q.attempt <= MaxAttempts /\ q.same \in Nat
      /\ q.stripped \in BOOLEAN
  BY Limits DEF CallInv, RequestType, Counts
<1>2. n \in Counts
  BY <1>1, Limits DEF RequestOK, Counts
<1>3. /\ Attempt(r) \in RequestType /\ Attempt(r).attempt = n /\ Attempt(r).idx = 0
      /\ Attempt(r).heard = FALSE /\ Attempt(r).sent = q.sent
      /\ Attempt(r).voices = q.voices /\ Attempt(r).same = q.same
      /\ Attempt(r).stripped = q.stripped
  <2> HIDE DEF n
  <2>1. Attempt(r) = [q EXCEPT !.idx = 0, !.heard = FALSE, !.tried = {}, !.attempt = n]
    BY <1>1 DEF Attempt, n, RequestType
  <2> QED
    BY <1>1, <1>2, <2>1, Ranges DEF RequestType
<1> DEFINE x == AttemptAt(r, p, k, f)
<1>4. x \in RequestType
  BY <1>3 DEF RequestType, Places, AttemptAt
<1>5. /\ x.at = p /\ x.idx = k /\ x.tried = f /\ x.attempt = n /\ x.heard = FALSE
      /\ x.sent = q.sent /\ x.voices = q.voices /\ x.same = q.same /\ x.stripped = q.stripped
  BY <1>3 DEF RequestType, AttemptAt
<1>6. ASSUME k = 0, f = {} PROVE x = [Attempt(r) EXCEPT !.at = p]
  <2>1. Attempt(r).tried = {}
    BY <1>1, <1>3 DEF Attempt, RequestType
  <2> QED
    BY <1>3, <1>6, <2>1 DEF RequestType, AttemptAt
<1>7. RequestOK(r, x)
  <2> HIDE DEF x
  <2> QED
    BY <1>1, <1>5, Limits DEF RequestOK
<1> QED
  BY <1>4, <1>5, <1>6, <1>7

\* What the steps of a request do: its record stays well-formed, the others do
\* not change, and an answer is charged only when the request ends with it.
Charged(r, x) ==
    \/ x.at = "idle" /\ req[r].at \notin {"idle", "unsent"} /\ turn' = Record(r)
    \/ x.at # "idle" /\ req[r].at # "idle" /\ turn' = turn
    \/ x.at = "idle" /\ r \in Mains /\ turn' = turn

LEMMA RequestSteps ==
    ASSUME CallInv, NEW r \in Requests, RequestStep(r)
    PROVE  /\ \E x \in RequestType :
                 RequestOK(r, x) /\ req' = [req EXCEPT ![r] = x] /\ Charged(r, x)
           /\ broken' = broken
<1> DEFINE q == req[r]
           Goal == \E x \in RequestType :
                       RequestOK(r, x) /\ req' = [req EXCEPT ![r] = x] /\ Charged(r, x)
<1>0. /\ q \in RequestType /\ RequestOK(r, q) /\ q.pictures \in BOOLEAN
      /\ q.attempt \in Nat /\ q.same \in Nat /\ q.idx \in Nat
  BY Ranges DEF CallInv, RequestType
<1>1. ASSUME Begin(r) PROVE Goal /\ broken' = broken
  <2> DEFINE x == AttemptAt(r, "primary", 0, {})
  <2>0. req[r].at = "begin"
    BY <1>1 DEF Begin
  <2>1. /\ x \in RequestType /\ RequestOK(r, x) /\ x.at = "primary"
        /\ x = [Attempt(r) EXCEPT !.at = "primary"]
    BY <2>0, AttemptOK, Ranges
  <2> QED
    BY <1>1, <2>1 DEF Begin, Charged
<1>2. ASSUME BeginOpen(r) PROVE Goal /\ broken' = broken
  <2> DEFINE j == NextModel(1)
  <2>1. j \in 1 .. Fallbacks + 1 /\ j \notin broken /\ \A k \in 1 .. j - 1 : k \in broken
    BY NextModelIs, Limits DEF CallInv
  <2>2. CASE j <= Fallbacks
    <3> DEFINE x == AttemptAt(r, "fallback", j, {j})
    <3>1. req' = [req EXCEPT ![r] = x] /\ turn' = turn /\ req[r].at = "begin"
      BY <1>2, <2>2 DEF BeginOpen, AttemptAt
    <3>2. j \in Models /\ {j} \in SomeFallbacks /\ j > 0 /\ {j} = (1 .. j) \ broken
      <4> HIDE DEF j
      <4>1. 1 .. j = (1 .. j - 1) \cup {j}
        BY <2>1, Limits
      <4> QED
        BY <2>1, <2>2, <4>1, Limits DEF Models, SomeFallbacks
    <3> HIDE DEF j
    <3>3. x \in RequestType /\ RequestOK(r, x) /\ x.at = "fallback"
      BY <3>1, <3>2, AttemptOK
    <3> QED
      BY <1>2, <3>1, <3>3 DEF BeginOpen, Charged
  <2>3. CASE ~(j <= Fallbacks)
    <3>1. Returned(r, "none") /\ req[r].at = "begin"
      BY <1>2, <2>3 DEF BeginOpen
    <3>2. "none" \in Results /\ ~Transient("none")
      BY DEF Results, Transient
    <3> QED
      BY <1>2, <3>1, <3>2, ReturnedOK DEF BeginOpen, Charged
  <2> QED
    BY <2>2, <2>3
<1>3. ASSUME Streams(r) PROVE Goal /\ broken' = broken
  <2> DEFINE v == q.voices \cup {<<q.attempt, q.idx>>}
             x == [q EXCEPT !.heard = TRUE, !.sent = TRUE, !.voices = v]
  <2>1. req' = [req EXCEPT ![r] = x] /\ turn' = turn /\ q.at \in {"primary", "fallback"}
    BY <1>0, <1>3 DEF Streams, CallInv, Asked
  <2>2. v \in SomeAskings /\ v = {<<q.attempt, q.idx>>}
    BY <1>0 DEF RequestType, RequestOK, SomeAskings
  <2> HIDE DEF v
  <2>3. x \in RequestType
    BY <1>0, <2>2 DEF RequestType
  <2>4. /\ x.at = q.at /\ x.heard = TRUE /\ x.sent = TRUE /\ x.voices = v
        /\ x.idx = q.idx /\ x.attempt = q.attempt /\ x.same = q.same
        /\ x.stripped = q.stripped /\ x.tried = q.tried
    BY <1>0 DEF RequestType
  <2> HIDE DEF x
  <2>5. RequestOK(r, x)
    BY <1>0, <2>1, <2>2, <2>4 DEF RequestOK
  <2> QED
    BY <1>3, <2>1, <2>3, <2>4, <2>5 DEF Streams, Charged
<1>4. ASSUME Retry(r) PROVE Goal /\ broken' = broken
  <2> DEFINE x == [q EXCEPT !.at = "begin"]
  <2>1. req' = [req EXCEPT ![r] = x] /\ turn' = turn /\ q.at = "sleep" /\ q.attempt < MaxAttempts
    BY <1>4 DEF Retry
  <2>2. x \in RequestType
    BY <1>0 DEF RequestType, Places
  <2>3. /\ x.at = "begin" /\ x.heard = q.heard /\ x.sent = q.sent /\ x.voices = q.voices
        /\ x.attempt = q.attempt /\ x.same = q.same /\ x.stripped = q.stripped
    BY <1>0 DEF RequestType
  <2> HIDE DEF x
  <2>4. RequestOK(r, x)
    BY <1>0, <2>1, <2>3 DEF RequestOK
  <2> QED
    BY <1>4, <2>1, <2>2, <2>3, <2>4 DEF Retry, Charged
<1>5. ASSUME TimesOut(r) PROVE Goal /\ broken' = broken
  <2> DEFINE x == FreshAt(q.pictures, "idle")
  <2>1. x \in RequestType /\ RequestOK(r, x) /\ x.at = "idle"
        /\ x = [Fresh EXCEPT !.pictures = q.pictures]
    BY <1>0, FreshOK, FreshIs
  <2> HIDE DEF x
  <2> QED
    BY <1>5, <2>1 DEF TimesOut, Timed, Charged
<1>6. ASSUME AskOther(r) PROVE Goal /\ broken' = broken
  <2> DEFINE x == FreshAt(q.pictures, "begin")
  <2>1. x \in RequestType /\ RequestOK(r, x) /\ x.at = "begin"
        /\ x = [Fresh EXCEPT !.at = "begin", !.pictures = q.pictures]
    BY <1>0, FreshOK, FreshIs
  <2> HIDE DEF x
  <2> QED
    BY <1>6, <2>1 DEF AskOther, Send, Charged
<1>7. ASSUME NEW o \in Outcomes, PrimaryAnswers(r, o) PROVE Goal /\ broken' = broken
  <2>1. o \in Results /\ "none" \in Results /\ req[r].at = "primary"
    BY <1>7, Ranges DEF PrimaryAnswers
  <2>2. CASE Returned(r, o)
    BY <1>7, <2>1, <2>2, ReturnedOK DEF PrimaryAnswers, Charged
  <2>3. CASE GoOn(r, 1, "none") /\ ~req[r].heard
    BY <1>7, <2>1, <2>3, GoOnOK DEF PrimaryAnswers, Charged, Asked
  <2> QED
    BY <1>7, <2>2, <2>3 DEF PrimaryAnswers
<1>8. ASSUME NEW o \in Outcomes, FallbackAnswers(r, o) PROVE Goal /\ broken' = broken
  <2>1. o \in Results /\ req[r].at = "fallback"
    BY <1>8, Ranges DEF FallbackAnswers
  <2>2. CASE Returned(r, o)
    BY <1>8, <2>1, <2>2, ReturnedOK DEF FallbackAnswers, Charged
  <2>3. CASE GoOn(r, req[r].idx + 1, o) /\ ~req[r].heard
    BY <1>8, <2>1, <2>3, GoOnOK DEF FallbackAnswers, Charged, Asked
  <2> QED
    BY <1>8, <2>2, <2>3 DEF FallbackAnswers
<1> QED
  BY <1>1, <1>2, <1>3, <1>4, <1>5, <1>6, <1>7, <1>8 DEF RequestStep

-----------------------------------------------------------------------------
\* The turns and the breaker.
TurnInv ==
    /\ turn \in [Turns -> [on : BOOLEAN, calls : Nat, used : Nat]]
    /\ \A t \in Turns : turn[t].calls <= MaxCalls
    /\ failures \in 0 .. Threshold /\ breaker \in {"closed", "open", "cooled"}

Reflections(t) == {r \in Others : Owner[r] = t}
Settled(t) == {r \in Reflections(t) : req[r].at = "idle"}

\* Every answer charged over the budget is one of a reflection that has ended,
\* or the turn's own last one.
TurnBudget(t) ==
    /\ turn[t].used <= Budget + 1 + Cardinality(Settled(t))
    /\ req[Main[t]].at # "idle" => turn[t].used <= Budget + Cardinality(Settled(t))

BudgetInv == \A t \in Turns : TurnBudget(t)

IInv == CallInv /\ TurnInv /\ BudgetInv

LEMMA Members ==
    /\ \A t \in Turns : /\ Main[t] \in Mains /\ Main[t] \in Requests /\ Main[t] \notin Others
                        /\ Owner[Main[t]] = t /\ t # NoTurn
    /\ \A r \in Mains : r \in Requests /\ r \notin Others
    /\ \A r \in Others : r \in Requests
    /\ \A r \in Requests : r \in Mains \/ r \in Others
    /\ \A r \in Mains : \E t \in Turns : r = Main[t]
    /\ \A s, t \in Turns : Main[s] = Main[t] => s = t
  BY ModelCallsAssumption DEF ModelCallsAssumption, Mains, Requests

LEMMA SettledFinite ==
    ASSUME NEW t \in Turns
    PROVE  /\ IsFiniteSet(Settled(t)) /\ Cardinality(Settled(t)) \in Nat
           /\ IsFiniteSet(Reflections(t)) /\ Cardinality(Reflections(t)) \in Nat
           /\ Cardinality(Settled(t)) <= Cardinality(Reflections(t))
<1>1. IsFiniteSet(Reflections(t))
  BY ModelCallsAssumption DEF ModelCallsAssumption, Reflections
<1>2. Settled(t) \subseteq Reflections(t)
  BY DEF Settled
<1> QED
  BY <1>1, <1>2, FS_Subset, FS_CardinalityType

\* A turn that is charged nothing stays within its budget, unless its own
\* request begins with the budget used up.
LEMMA BudgetKept ==
    ASSUME TurnInv, NEW t \in Turns, TurnBudget(t),
           turn'[t].used = turn[t].used, Settled(t)' = Settled(t),
           req'[Main[t]].at # "idle" => req[Main[t]].at # "idle" \/ turn[t].used <= Budget
    PROVE  TurnBudget(t)'
<1>1. turn[t].used \in Nat /\ Cardinality(Settled(t)) \in Nat /\ Budget \in Nat
  BY SettledFinite, ModelCallsAssumption DEF TurnInv, ModelCallsAssumption
<1> QED
  BY <1>1 DEF TurnBudget

\* A reflection that ends charges one answer.
LEMMA BudgetCharged ==
    ASSUME TurnInv, NEW t \in Turns, TurnBudget(t), NEW r, r \notin Settled(t),
           turn'[t].used \in Nat, turn'[t].used <= turn[t].used + 1,
           Settled(t)' = Settled(t) \cup {r},
           req'[Main[t]].at # "idle" => req[Main[t]].at # "idle"
    PROVE  TurnBudget(t)'
<1>1. turn[t].used \in Nat /\ Cardinality(Settled(t)) \in Nat /\ Budget \in Nat
  BY SettledFinite, ModelCallsAssumption DEF TurnInv, ModelCallsAssumption
<1>2. Cardinality(Settled(t))' = Cardinality(Settled(t)) + 1
  BY SettledFinite, FS_AddElement
<1> QED
  BY <1>1, <1>2 DEF TurnBudget

\* A turn's own answer is charged once its request has ended.
LEMMA BudgetOwn ==
    ASSUME TurnInv, NEW t \in Turns, TurnBudget(t), req[Main[t]].at # "idle",
           turn'[t].used \in Nat, turn'[t].used <= turn[t].used + 1,
           Settled(t)' = Settled(t), req'[Main[t]].at = "idle"
    PROVE  TurnBudget(t)'
<1>1. turn[t].used \in Nat /\ Cardinality(Settled(t)) \in Nat /\ Budget \in Nat
  BY SettledFinite, ModelCallsAssumption DEF TurnInv, ModelCallsAssumption
<1> QED
  BY <1>1 DEF TurnBudget

\* What a request's step changes in the places of the others.
LEMMA PlacesOf ==
    ASSUME CallInv, NEW r \in Requests, NEW x \in RequestType, req' = [req EXCEPT ![r] = x],
           NEW q \in Requests
    PROVE  req'[q].at = IF q = r THEN x.at ELSE req[q].at
  BY DEF CallInv

LEMMA SettledIs ==
    ASSUME CallInv, NEW r \in Requests, NEW x \in RequestType, req' = [req EXCEPT ![r] = x],
           NEW t \in Turns
    PROVE  Settled(t)' = IF x.at = "idle" /\ r \in Reflections(t)
                         THEN Settled(t) \cup {r} ELSE Settled(t) \ {r}
<1>1. \A q \in Requests : req'[q].at = IF q = r THEN x.at ELSE req[q].at
  BY PlacesOf
<1>2. Reflections(t)' = Reflections(t) /\ Reflections(t) \subseteq Requests
  BY Members DEF Reflections
<1> QED
  BY <1>1, <1>2 DEF Settled

\* What is charged to a turn.
LEMMA RecordIs ==
    ASSUME TurnInv, NEW r \in Requests, turn' = Record(r)
    PROVE  /\ turn' \in [Turns -> [on : BOOLEAN, calls : Nat, used : Nat]]
           /\ \A t \in Turns : /\ turn'[t].calls = turn[t].calls
                               /\ turn'[t].used <= turn[t].used + 1
                               /\ t # Owner[r] => turn'[t] = turn[t]
<1>1. Owner[r] \in Turns \cup {NoTurn} /\ NoTurn \notin Turns
  BY ModelCallsAssumption DEF ModelCallsAssumption
<1>2. CASE turn' = turn
  BY <1>2 DEF TurnInv
<1>3. CASE Owner[r] \in Turns /\ turn' = [turn EXCEPT ![Owner[r]].used = @ + 1]
  BY <1>3 DEF TurnInv
<1> QED
  BY <1>1, <1>2, <1>3 DEF Record, Accessible, Accumulated

LEMMA InitIInv == Init => IInv
<1> SUFFICES ASSUME Init PROVE IInv
  OBVIOUS
<1>1. ASSUME NEW r \in Requests
      PROVE  /\ req[r] \in RequestType /\ RequestOK(r, req[r])
             /\ req[r].at = IF r \in Mains THEN "idle" ELSE "unsent"
  <2> DEFINE p == r \in Pictures
             a == IF r \in Mains THEN "idle" ELSE "unsent"
  <2>1. req[r] = FreshAt(p, a)
    BY <1>1 DEF Init, FreshAt
  <2>2. p \in BOOLEAN /\ a \in {"idle", "unsent", "begin"} /\ (a = "unsent" => r \notin Mains)
    OBVIOUS
  <2>3. a = IF r \in Mains THEN "idle" ELSE "unsent"
    OBVIOUS
  <2> HIDE DEF p, a
  <2>4. FreshAt(p, a) \in RequestType /\ RequestOK(r, FreshAt(p, a))
    BY <2>2, FreshOK
  <2>5. FreshAt(p, a).at = a
    BY <2>2, FreshIs
  <2> QED
    BY <2>1, <2>3, <2>4, <2>5
<1>2. CallInv
  BY <1>1 DEF CallInv, Init
<1>3. TurnInv
  <2>1. \A t \in Turns : turn[t] = [on |-> TRUE, calls |-> 0, used |-> 0]
    BY DEF Init
  <2>2. turn \in [Turns -> [on : BOOLEAN, calls : Nat, used : Nat]]
    BY DEF Init
  <2>3. failures = 0 /\ breaker = "closed" /\ \A t \in Turns : turn[t].calls = 0
    BY <2>1 DEF Init
  <2>4. MaxCalls \in Nat /\ Threshold \in Nat
    BY Limits
  <2> QED
    BY <2>2, <2>3, <2>4 DEF TurnInv
<1>4. ASSUME NEW t \in Turns PROVE TurnBudget(t)
  <2>1. Settled(t) = {}
    BY <1>1, Members DEF Settled, Reflections
  <2>2. turn[t].used = 0 /\ Budget \in Nat
    BY ModelCallsAssumption DEF Init, ModelCallsAssumption
  <2> QED
    BY <2>1, <2>2, FS_EmptySet DEF TurnBudget
<1> QED
  BY <1>2, <1>3, <1>4 DEF IInv, BudgetInv

\* The breaker's counters stay in their range.
LEMMA BreakerKept ==
    ASSUME TurnInv, NEW r \in Requests, RequestStep(r)
    PROVE  failures' \in 0 .. Threshold /\ breaker' \in {"closed", "open", "cooled"}
<1>1. ASSUME CountFailure PROVE failures' \in 0 .. Threshold
  <2>1. failures + 1 \in Nat /\ Threshold \in Nat /\ failures + 1 > 0
    BY Limits DEF TurnInv
  <2>2. \E m \in {failures + 1, Threshold} : \A y \in {failures + 1, Threshold} : m <= y
    BY <2>1
  <2>3. Min({failures + 1, Threshold}) \in {failures + 1, Threshold}
        /\ \A y \in {failures + 1, Threshold} : Min({failures + 1, Threshold}) <= y
    BY <2>2 DEF Min
  <2> QED
    BY <1>1, <2>1, <2>3 DEF CountFailure
<1>2. UNCHANGED <<failures, breaker>> \/ (failures' = 0 /\ breaker' = "closed") \/ CountFailure
  BY DEF RequestStep, Begin, BeginOpen, Streams, Retry, TimesOut, AskOther, Send,
         PrimaryAnswers, FallbackAnswers
<1> QED
  BY <1>1, <1>2, Limits DEF TurnInv, CountFailure

LEMMA StepIInv == IInv /\ [Next]_vars => IInv'
<1> SUFFICES ASSUME IInv, [Next]_vars PROVE IInv'
  OBVIOUS
<1>0. CallInv /\ TurnInv /\ \A t \in Turns : TurnBudget(t)
  BY DEF IInv, BudgetInv
<1>1. ASSUME NEW r \in Requests, RequestStep(r) PROVE IInv'
  <2>1. PICK x \in RequestType :
            RequestOK(r, x) /\ req' = [req EXCEPT ![r] = x] /\ Charged(r, x) /\ broken' = broken
    BY <1>0, <1>1, RequestSteps
  <2>2. CallInv'
    BY <1>0, <2>1, OneRequest
  <2>3. TurnInv'
    <3>1. /\ turn' \in [Turns -> [on : BOOLEAN, calls : Nat, used : Nat]]
          /\ \A t \in Turns : turn'[t].calls = turn[t].calls
      BY <1>0, <2>1, RecordIs DEF Charged, TurnInv
    <3> QED
      BY <1>0, <1>1, <3>1, BreakerKept DEF TurnInv
  <2>4. ASSUME NEW t \in Turns PROVE TurnBudget(t)'
    <3>1. /\ req'[Main[t]].at = IF Main[t] = r THEN x.at ELSE req[Main[t]].at
          /\ Settled(t)' = IF x.at = "idle" /\ r \in Reflections(t)
                           THEN Settled(t) \cup {r} ELSE Settled(t) \ {r}
          /\ TurnBudget(t)
      <4>1. CallInv /\ req' = [req EXCEPT ![r] = x] /\ Main[t] \in Requests
        BY <1>0, <2>1, Members
      <4>2. req'[Main[t]].at = IF Main[t] = r THEN x.at ELSE req[Main[t]].at
        BY <4>1, PlacesOf
      <4>3. Settled(t)' = IF x.at = "idle" /\ r \in Reflections(t)
                          THEN Settled(t) \cup {r} ELSE Settled(t) \ {r}
        BY <4>1, SettledIs
      <4> QED
        BY <1>0, <4>2, <4>3
    <3>2. CASE x.at = "idle" /\ req[r].at \notin {"idle", "unsent"} /\ turn' = Record(r)
      <4>1. turn'[t].used \in Nat /\ turn'[t].used <= turn[t].used + 1
            /\ (t # Owner[r] => turn'[t] = turn[t])
        BY <1>0, <3>2, RecordIs
      <4>2. CASE r \in Reflections(t)
        <5>1. r \notin Settled(t) /\ Main[t] # r
          BY <3>2, <4>2, Members DEF Settled, Reflections
        <5> QED
          BY <1>0, <3>1, <3>2, <4>1, <4>2, <5>1, BudgetCharged
      <4>3. CASE r = Main[t]
        <5>1. r \notin Reflections(t) /\ r \notin Settled(t)
          BY <4>3, Members DEF Reflections, Settled
        <5> QED
          BY <1>0, <3>1, <3>2, <4>1, <4>3, <5>1, BudgetOwn
      <4>4. CASE r \notin Reflections(t) /\ r # Main[t]
        <5>1. t # Owner[r]
          BY <4>4, Members DEF Reflections
        <5>2. Settled(t)' = Settled(t)
          BY <3>1, <4>4 DEF Settled
        <5> QED
          BY <1>0, <3>1, <4>1, <4>4, <5>1, <5>2, BudgetKept
      <4> QED
        BY <4>2, <4>3, <4>4
    <3>3. CASE x.at # "idle" /\ req[r].at # "idle" /\ turn' = turn
      <4>1. Settled(t)' = Settled(t)
        BY <3>1, <3>3 DEF Settled
      <4> QED
        BY <1>0, <3>1, <3>3, <4>1, BudgetKept
    <3>4. CASE x.at = "idle" /\ r \in Mains /\ turn' = turn
      <4>1. Settled(t)' = Settled(t)
        BY <3>1, <3>4, Members DEF Settled, Reflections
      <4> QED
        BY <1>0, <3>1, <3>4, <4>1, BudgetKept
    <3> QED
      BY <2>1, <3>2, <3>3, <3>4 DEF Charged
  <2> QED
    BY <2>2, <2>3, <2>4 DEF IInv, BudgetInv
<1>2. ASSUME NEW s \in Turns, Ask(s) PROVE IInv'
  <2> DEFINE r == Main[s]
             x == FreshAt(req[r].pictures, "begin")
  <2>0. r \in Requests /\ req[r].pictures \in BOOLEAN
    BY <1>0, Members DEF CallInv, RequestType
  <2>1. x \in RequestType /\ RequestOK(r, x) /\ x.at = "begin"
        /\ x = [Fresh EXCEPT !.at = "begin", !.pictures = req[r].pictures]
    BY <2>0, FreshOK, FreshIs
  <2> HIDE DEF x
  <2>2. /\ req' = [req EXCEPT ![r] = x] /\ broken' = broken
        /\ failures' = failures /\ breaker' = breaker
        /\ turn' = [turn EXCEPT ![s].calls = @ + 1]
        /\ turn[s].calls < MaxCalls /\ ~(turn[s].used > Budget) /\ req[r].at = "idle"
    BY <1>2, <2>1 DEF Ask, Send, Exceeded
  <2>3. CallInv'
    BY <1>0, <2>0, <2>1, <2>2, OneRequest
  <2>4. TurnInv' /\ \A t \in Turns : turn'[t].used = turn[t].used
    BY <1>0, <2>2, Limits DEF TurnInv
  <2>5. ASSUME NEW t \in Turns PROVE TurnBudget(t)'
    <3>1. /\ req'[Main[t]].at = IF Main[t] = r THEN x.at ELSE req[Main[t]].at
          /\ Settled(t)' = Settled(t) \ {r}
      <4>1. /\ CallInv /\ req' = [req EXCEPT ![r] = x] /\ Main[t] \in Requests
            /\ r \in Requests /\ r \notin Others
        BY <1>0, <2>2, Members
      <4>2. r \notin Reflections(t)
        BY <4>1 DEF Reflections
      <4> HIDE DEF r
      <4>3. req'[Main[t]].at = IF Main[t] = r THEN x.at ELSE req[Main[t]].at
        BY <2>1, <4>1 DEF CallInv
      <4>4. Settled(t)' = IF x.at = "idle" /\ r \in Reflections(t)
                          THEN Settled(t) \cup {r} ELSE Settled(t) \ {r}
        BY <2>1, <4>1, SettledIs
      <4> QED
        BY <4>2, <4>3, <4>4
    <3>2. Settled(t)' = Settled(t)
      BY <3>1, Members DEF Settled, Reflections
    <3>3. turn[s].used \in Nat /\ Budget \in Nat
      BY <1>0, ModelCallsAssumption DEF TurnInv, ModelCallsAssumption
    <3>4. Main[t] = r => turn[t].used <= Budget
      BY <2>2, <3>3, Members
    <3> QED
      BY <1>0, <2>4, <3>1, <3>2, <3>4, BudgetKept
  <2> QED
    BY <2>3, <2>4, <2>5 DEF IInv, BudgetInv
<1>3. ASSUME NEW s \in Turns, EndTurn(s) PROVE IInv'
  <2> DEFINE r == Main[s]
             x == FreshAt(req[r].pictures, "idle")
  <2>0. r \in Requests /\ req[r].pictures \in BOOLEAN
    BY <1>0, Members DEF CallInv, RequestType
  <2>1. x \in RequestType /\ RequestOK(r, x) /\ x.at = "idle"
        /\ x = [Fresh EXCEPT !.pictures = req[r].pictures]
    BY <2>0, FreshOK, FreshIs
  <2> HIDE DEF x
  <2>2. /\ req' = req \/ req' = [req EXCEPT ![r] = x]
        /\ broken' = broken /\ failures' = failures /\ breaker' = breaker
        /\ turn' = [turn EXCEPT ![s].on = FALSE]
    BY <1>3, <2>1 DEF EndTurn
  <2>3. TurnInv' /\ \A t \in Turns : turn'[t].used = turn[t].used
    BY <1>0, <2>2, Limits DEF TurnInv
  <2>4. CASE req' = req
    <3>1. CallInv'
      BY <1>0, <2>2, <2>4 DEF CallInv, RequestOK
    <3>2. \A t \in Turns : Settled(t)' = Settled(t) /\ req'[Main[t]].at = req[Main[t]].at
      BY <2>4 DEF Settled, Reflections
    <3>3. \A t \in Turns : TurnBudget(t)'
      BY <1>0, <2>3, <3>2, BudgetKept
    <3> QED
      BY <2>3, <3>1, <3>3 DEF IInv, BudgetInv
  <2>5. CASE req' = [req EXCEPT ![r] = x]
    <3>1. CallInv'
      BY <1>0, <2>0, <2>1, <2>2, <2>5, OneRequest
    <3>2. ASSUME NEW t \in Turns PROVE TurnBudget(t)'
      <4>1. /\ req'[Main[t]].at = IF Main[t] = r THEN x.at ELSE req[Main[t]].at
            /\ Settled(t)' = IF r \in Reflections(t)
                             THEN Settled(t) \cup {r} ELSE Settled(t) \ {r}
        <5>1. /\ CallInv /\ req' = [req EXCEPT ![r] = x] /\ Main[t] \in Requests
              /\ r \in Requests
          BY <1>0, <2>5, Members
        <5> HIDE DEF r
        <5>2. req'[Main[t]].at = IF Main[t] = r THEN x.at ELSE req[Main[t]].at
          BY <2>1, <5>1 DEF CallInv
        <5>3. Settled(t)' = IF x.at = "idle" /\ r \in Reflections(t)
                            THEN Settled(t) \cup {r} ELSE Settled(t) \ {r}
          BY <2>1, <5>1, SettledIs
        <5> QED
          BY <2>1, <5>2, <5>3
      <4>2. Settled(t)' = Settled(t)
        BY <4>1, Members DEF Settled, Reflections
      <4>3. req'[Main[t]].at # "idle" => req[Main[t]].at # "idle"
        BY <2>1, <4>1
      <4> QED
        BY <1>0, <2>3, <4>2, <4>3, BudgetKept
    <3> QED
      BY <2>3, <3>1, <3>2 DEF IInv, BudgetInv
  <2> QED
    BY <2>2, <2>4, <2>5
<1>4. ASSUME UNCHANGED <<req, broken, turn>>, failures' = failures,
             breaker' \in {breaker, "cooled"}
      PROVE  IInv'
  <2>1. CallInv'
    BY <1>0, <1>4 DEF CallInv, RequestOK
  <2>2. TurnInv'
    BY <1>0, <1>4 DEF TurnInv
  <2>3. \A t \in Turns : Settled(t)' = Settled(t) /\ req'[Main[t]].at = req[Main[t]].at
    BY <1>4 DEF Settled, Reflections
  <2>4. \A t \in Turns : TurnBudget(t)'
    BY <1>0, <1>4, <2>3, BudgetKept
  <2> QED
    BY <2>1, <2>2, <2>4 DEF IInv, BudgetInv
<1> QED
  BY <1>1, <1>2, <1>3, <1>4 DEF Next, vars, CoolDown

LEMMA Invariance == Spec => []IInv
  BY InitIInv, StepIInv, PTL DEF Spec

-----------------------------------------------------------------------------
\* The types hold and a turn's answers stay within its budget but for those
\* under way when it was used up, for any turns and requests.
THEOREM CallsConsistentHolds == Spec => []CallsConsistent
<1>1. ASSUME IInv PROVE CallsConsistent
  <2>1. TypeOK
    BY <1>1 DEF IInv, CallInv, TurnInv, TypeOK, RequestType, RequestOK, Models, Counts,
                Places, SomeFallbacks, SomeAskings
  <2>2. ASSUME NEW t \in Turns
        PROVE  turn[t].used <= Budget + 1 + Cardinality({r \in Others : Owner[r] = t})
    <3>1. /\ turn[t].used \in Nat /\ Budget \in Nat
          /\ turn[t].used <= Budget + 1 + Cardinality(Settled(t))
      BY <1>1, ModelCallsAssumption
         DEF IInv, TurnInv, BudgetInv, TurnBudget, ModelCallsAssumption
    <3> QED
      BY <3>1, SettledFinite DEF Reflections
  <2> QED
    BY <2>1, <2>2 DEF CallsConsistent, BudgetHolds
<1> QED
  BY <1>1, Invariance, PTL

\* The client sees the text of one asking only, whatever fails and is tried
\* again.
THEOREM OneVoiceHolds == Spec => []OneVoice
<1>1. ASSUME IInv PROVE OneVoice
  <2>1. ASSUME NEW r \in Requests PROVE Cardinality(req[r].voices) <= 1
    <3>1. req[r].voices = {} \/ req[r].voices = {<<req[r].attempt, req[r].idx>>}
      BY <1>1 DEF IInv, CallInv, RequestOK
    <3>2. Cardinality({<<req[r].attempt, req[r].idx>>}) = 1
      BY FS_Singleton
    <3>3. Cardinality({}) = 0
      BY FS_EmptySet
    <3>4. Cardinality(req[r].voices) \in {0, 1}
      BY <3>1, <3>2, <3>3, Zenon
    <3> QED
      BY <3>4
  <2> QED
    BY <2>1 DEF OneVoice
<1> QED
  BY <1>1, Invariance, PTL

Tried ==
    \A r \in Requests, o \in Outcomes :
        /\ PrimaryAnswers(r, o) \/ FallbackAnswers(r, o)
        /\ req'[r].at = "idle" /\ ShouldFallback(o) /\ ~req[r].sent
        => req[r].tried = (1 .. Fallbacks) \ broken

LEMMA TriedEach == IInv => Tried
<1> SUFFICES ASSUME IInv, NEW r \in Requests, NEW o \in Outcomes,
                    PrimaryAnswers(r, o) \/ FallbackAnswers(r, o),
                    req'[r].at = "idle", ShouldFallback(o), ~req[r].sent
             PROVE  req[r].tried = (1 .. Fallbacks) \ broken
  BY DEF Tried
<1> DEFINE i == IF req[r].at = "primary" THEN 1 ELSE req[r].idx + 1
           j == NextModel(i)
<1>0. /\ CallInv /\ RequestOK(r, req[r]) /\ req[r].idx \in 0 .. Fallbacks /\ ~req[r].heard
      /\ req \in [Requests -> RequestType]
  BY DEF IInv, CallInv, RequestOK, RequestType, Models
<1>1. i \in 1 .. Fallbacks + 1
  BY <1>0, Limits
<1>2. Asked(r) /\ (Fallbacks > 0 => \E e : GoOn(r, i, e))
  <2>1. CASE PrimaryAnswers(r, o)
    <3>1. req[r].at = "primary" /\ i = 1
      BY <2>1 DEF PrimaryAnswers
    <3>2. Fallbacks > 0 => GoOn(r, 1, "none")
      BY <1>0, <2>1, Limits DEF PrimaryAnswers, ShouldFallback
    <3> QED
      BY <3>1, <3>2 DEF Asked
  <2>2. CASE FallbackAnswers(r, o)
    BY <1>0, <2>2 DEF FallbackAnswers, Asked, ShouldFallback
  <2> QED
    BY <2>1, <2>2
<1>3. j \in i .. Fallbacks + 1 /\ j \notin broken /\ \A k \in i .. j - 1 : k \in broken
  BY <1>0, <1>1, NextModelIs DEF CallInv
<1>4. ~(j <= Fallbacks)
  <2>1. SUFFICES ASSUME j <= Fallbacks PROVE req'[r].at = "fallback"
    OBVIOUS
  <2>2. PICK e : GoOn(r, i, e)
    <3>1. Fallbacks > 0
      BY <1>1, <1>3, <2>1, Limits
    <3> QED
      BY <1>2, <3>1
  <2>3. req' = [req EXCEPT ![r] = [req[r] EXCEPT !.at = "fallback", !.idx = j,
                                                 !.tried = req[r].tried \cup {j}]]
    BY <1>0, <2>1, <2>2 DEF GoOn
  <2> HIDE DEF j
  <2> QED
    BY <1>0, <2>3 DEF RequestType
<1>5. req[r].tried = (1 .. i - 1) \ broken
  BY <1>0, <1>2, Limits DEF RequestOK, Asked
<1>6. j = Fallbacks + 1
  BY <1>1, <1>3, <1>4, Limits
<1> HIDE DEF i, j
<1> QED
  BY <1>1, <1>3, <1>5, <1>6, Limits
\* A request fails for want of a model only after every fallback that can be
\* created has failed.
THEOREM AllTriedHolds == Spec => AllTried
<1>1. IInv => [Tried]_vars
  BY TriedEach
<1> QED
  BY <1>1, Invariance, PTL DEF AllTried, Tried
=============================================================================
