----------------------------- MODULE ModelCalls -----------------------------
(***************************************************************************)
(* Requests to the model: the retry loop (providers/base.py), the failover *)
(* to other models with its circuit breaker (providers/                    *)
(* fallback_provider.py), the time limit of a turn's request (agent/       *)
(* execution/model_request.py) and the ledger and budget they are charged  *)
(* to (ledger/).                                                           *)
(*                                                                         *)
(* All requests of the process share one provider and so one breaker.  A   *)
(* turn sends one request after another (its main request) while its       *)
(* reflections ask in tasks of their own; other requests belong to no      *)
(* turn.  A provider is asked, may stream some text, and answers.          *)
(***************************************************************************)
EXTENDS Naturals, Sequences, FiniteSetsExt

CONSTANTS
    Turns,
    Main,           \* Main[t]: the request a turn repeats
    Others,         \* requests of reflections and background jobs, sent once
    Owner,          \* Owner[r]: the turn whose ledger it is charged to, or NoTurn
    Streaming,      \* requests whose text goes to a client while it is made
    Persistent,     \* requests in the retry mode "persistent"
    Pictures,       \* requests whose messages hold images
    Fallbacks,      \* number of fallback models
    Retries,        \* length of _CHAT_RETRY_DELAYS
    Threshold,      \* _PRIMARY_FAILURE_THRESHOLD
    Identical,      \* _PERSISTENT_IDENTICAL_ERROR_LIMIT
    Budget,         \* what a turn may use, in answers
    MaxCalls,       \* main requests of a turn (a bound of the model)
    MaxAttempts,    \* attempts of a persistent request (a bound of the model)
    MaxTogether,    \* requests at a time (a bound of the model)
    NoTurn

Mains == {Main[t] : t \in Turns}
Requests == Mains \cup Others

\* Only the main request of a turn that does not stream has a time limit.
Timed == Mains \ Streaming

(***************************************************************************)
(* Error answers.  "busy" is transient, for "quota" another model may help *)
(* but not time, for "bad" neither.  A provider that raises ends the       *)
(* attempt with a transient error of another text.  "none"                 *)
(* is what the failover makes up when no fallback could be asked.          *)
(***************************************************************************)
Answered == {"busy", "quota", "bad"}
Outcomes == {"ok", "raised"} \cup Answered
Results == Outcomes \cup {"none"}

\* _is_transient_response.
Transient(o) == o \in {"busy", "raised"}

\* _should_fallback.
ShouldFallback(o) == o \in {"busy", "quota"}

ASSUME ModelCallsAssumption ==
    /\ Main \in [Turns -> Mains] /\ \A s, t \in Turns : Main[s] = Main[t] => s = t
    /\ Mains \cap Others = {} /\ NoTurn \notin Turns
    /\ Owner \in [Requests -> Turns \cup {NoTurn}]
    /\ \A t \in Turns : Owner[Main[t]] = t
    /\ Streaming \subseteq Mains
    /\ Persistent \cup Pictures \subseteq Requests
    /\ {Retries, Threshold, Identical, MaxCalls, MaxAttempts, MaxTogether} \subseteq Nat \ {0}
    /\ Fallbacks \in Nat /\ Budget \in Nat
    /\ \A t \in Turns : IsFiniteSet({r \in Others : Owner[r] = t})

VARIABLES
    req,        \* the state of each request
    failures,   \* _primary_failures, up to the threshold
    breaker,    \* "closed", "open", or "cooled" once the cool-down is over
    broken,     \* fallbacks whose provider cannot be created
    turn        \* is the turn at work, its requests so far, what its ledger has

vars == <<req, failures, breaker, broken, turn>>

\* A request.  The properties ask for the last two fields: which askings have
\* shown text, and which fallbacks were asked in the attempt.
Fresh == [at |-> "idle", idx |-> 0, attempt |-> 0, key |-> "ok", same |-> 0,
          heard |-> FALSE, sent |-> FALSE, stripped |-> FALSE, pictures |-> FALSE,
          voices |-> {}, tried |-> {}]

Init ==
    /\ req = [r \in Requests |->
          [Fresh EXCEPT !.pictures = r \in Pictures, !.at = IF r \in Mains THEN "idle" ELSE "unsent"]]
    /\ failures = 0 /\ breaker = "closed"
    /\ broken \in SUBSET (1 .. Fallbacks)
    /\ turn = [t \in Turns |-> [on |-> TRUE, calls |-> 0, used |-> 0]]

-----------------------------------------------------------------------------
Asked(r) == req[r].at \in {"primary", "fallback"}

\* The fallback that is asked from place i on, Fallbacks + 1 when there is none:
\* one whose provider cannot be created is passed over.
NextModel(i) ==
    CHOOSE j \in i .. Fallbacks + 1 :
        /\ j \notin broken
        /\ \A k \in i .. j - 1 : k \in broken

\* _is_accessible: the turn is at work, for its own task and its reflections.
Accessible(t) == t # NoTurn /\ turn[t].on

\* TurnBudget.accumulate.
Accumulated(t) == [turn EXCEPT ![t].used = @ + 1]

\* CallLedger.record: the final answer of a request, whatever it took.
Record(r) == IF Accessible(Owner[r]) THEN Accumulated(Owner[r]) ELSE turn

(***************************************************************************)
(* The end of an attempt, _run_with_retry: the outcome o of the failover   *)
(* settles the request, or it is tried without its images, or again.       *)
(***************************************************************************)
Settle(r, o) ==
    /\ req' = [req EXCEPT ![r] =
          [Fresh EXCEPT !.pictures = req[r].pictures /\ ~(req[r].stripped /\ o = "ok")]]
    /\ turn' = Record(r)

\* Identical errors in a row, this one included.
Same(r, o) == IF req[r].key = o THEN req[r].same + 1 ELSE 1

\* Mutant: only identical errors end the retries.
GivesUpSame(r, o) == Same(r, o) >= Identical

GivesUp(r, o) ==
    IF r \in Persistent THEN Same(r, o) >= Identical ELSE req[r].attempt > Retries

\* Mutant: text that was streamed does not keep a request from a retry.
ReturnedDeaf(r, o) ==
    LET q == [req[r] EXCEPT !.key = o, !.same = Same(r, o)] IN
    IF o = "ok" \/ req[r].stripped THEN Settle(r, o)
    ELSE IF ~Transient(o)
    THEN IF req[r].pictures
         THEN req' = [req EXCEPT ![r] = [q EXCEPT !.at = "begin", !.stripped = TRUE]] /\ UNCHANGED turn
         ELSE Settle(r, o)
    ELSE IF GivesUp(r, o) THEN Settle(r, o)
    ELSE req' = [req EXCEPT ![r] = [q EXCEPT !.at = "sleep"]] /\ UNCHANGED turn

Returned(r, o) ==
    LET q == [req[r] EXCEPT !.key = o, !.same = Same(r, o)] IN
    IF o = "ok" \/ req[r].stripped \/ req[r].sent THEN Settle(r, o)
    ELSE IF ~Transient(o)
    THEN IF req[r].pictures
         THEN req' = [req EXCEPT ![r] = [q EXCEPT !.at = "begin", !.stripped = TRUE]] /\ UNCHANGED turn
         ELSE Settle(r, o)
    ELSE IF GivesUp(r, o) THEN Settle(r, o)
    ELSE req' = [req EXCEPT ![r] = [q EXCEPT !.at = "sleep"]] /\ UNCHANGED turn

\* Mutant: the failover goes on with the next model but one.
GoOnSkipping(r, i, o) ==
    LET j == NextModel(Min({IF i = 1 THEN 1 ELSE i + 1, Fallbacks + 1})) IN
    IF j <= Fallbacks
    THEN /\ req' = [req EXCEPT ![r].at = "fallback", ![r].idx = j, ![r].tried = @ \cup {j}]
         /\ UNCHANGED turn
    ELSE Returned(r, o)

(***************************************************************************)
(* The failover, _try_with_fallback.                                       *)
(***************************************************************************)
\* Ask the next fallback from place i on; without one the attempt returns o.
GoOn(r, i, o) ==
    LET j == NextModel(i) IN
    IF j <= Fallbacks
    THEN /\ req' = [req EXCEPT ![r].at = "fallback", ![r].idx = j, ![r].tried = @ \cup {j}]
         /\ UNCHANGED turn
    ELSE Returned(r, o)

\* The attempt without images is not counted.
Attempt(r) ==
    [req[r] EXCEPT !.idx = 0, !.heard = FALSE, !.tried = {},
                   !.attempt = @ + (IF req[r].stripped THEN 0 ELSE 1)]

\* A new attempt: the primary model, or the first fallback while the breaker is
\* open.
Begin(r) ==
    /\ req[r].at = "begin" /\ breaker # "open"
    /\ req' = [req EXCEPT ![r] = [Attempt(r) EXCEPT !.at = "primary"]]
    /\ UNCHANGED <<failures, breaker, broken, turn>>

BeginOpen(r) ==
    /\ req[r].at = "begin" /\ breaker = "open"
    /\ LET j == NextModel(1) IN
       IF j <= Fallbacks
       THEN /\ req' = [req EXCEPT ![r] =
                  [Attempt(r) EXCEPT !.at = "fallback", !.idx = j, !.tried = {j}]]
            /\ UNCHANGED turn
       ELSE Returned(r, "none")
    /\ UNCHANGED <<failures, breaker, broken>>

\* The model that is asked sends a piece of its answer to the client.
Streams(r) ==
    /\ r \in Streaming /\ Asked(r)
    /\ req' = [req EXCEPT ![r].heard = TRUE, ![r].sent = TRUE,
                          ![r].voices = @ \cup {<<req[r].attempt, req[r].idx>>}]
    /\ UNCHANGED <<failures, breaker, broken, turn>>

\* The primary's answer moves the breaker; without fallbacks there is none.
CountFailure ==
    /\ failures' = Min({failures + 1, Threshold})
    /\ breaker' = IF failures + 1 >= Threshold THEN "open" ELSE breaker

PrimaryAnswers(r, o) ==
    /\ req[r].at = "primary"
    /\ \/ /\ o = "ok"
          /\ failures' = 0 /\ breaker' = "closed"
          /\ Returned(r, o)
       \/ /\ o \in Outcomes \ {"ok"} /\ (req[r].heard \/ ~ShouldFallback(o) \/ Fallbacks = 0)
          /\ Returned(r, o) /\ UNCHANGED <<failures, breaker>>
       \/ /\ ShouldFallback(o) /\ ~req[r].heard /\ Fallbacks > 0
          /\ CountFailure
          /\ GoOn(r, 1, "none")
    /\ UNCHANGED broken

\* A fallback has answered with an error: the next one, unless text of this
\* attempt has been streamed.
FallbackAnswers(r, o) ==
    /\ req[r].at = "fallback"
    /\ IF o \in {"ok", "raised"} \/ req[r].heard
       THEN Returned(r, o)
       ELSE GoOn(r, req[r].idx + 1, o)
    /\ UNCHANGED <<failures, breaker, broken>>

\* The cool-down of the breaker is over.
CoolDown ==
    /\ breaker = "open" /\ breaker' = "cooled"
    /\ UNCHANGED <<req, failures, broken, turn>>

\* The delay before a retry is over.
Retry(r) ==
    /\ req[r].at = "sleep" /\ req[r].attempt < MaxAttempts
    /\ req' = [req EXCEPT ![r].at = "begin"]
    /\ UNCHANGED <<failures, breaker, broken, turn>>

\* wait_for around the request of a turn: nothing is recorded.
TimesOut(r) ==
    /\ r \in Timed /\ req[r].at # "idle"
    /\ req' = [req EXCEPT ![r] = [Fresh EXCEPT !.pictures = req[r].pictures]]
    /\ UNCHANGED <<failures, breaker, broken, turn>>

(***************************************************************************)
(* The turn and its budget.                                                *)
(***************************************************************************)
\* handle_budget_exceeded, through CallLedger.check_budget.
Exceeded(t) == turn[t].used > Budget

Send(r) ==
    /\ Cardinality({q \in Requests : req[q].at \notin {"idle", "unsent"}}) < MaxTogether
    /\ req' = [req EXCEPT ![r] = [Fresh EXCEPT !.at = "begin", !.pictures = req[r].pictures]]
    /\ UNCHANGED <<failures, breaker, broken>>

\* Mutant: the budget is looked at only before the first request.
AskFreely(t) ==
    LET r == Main[t] IN
    /\ turn[t].on /\ req[r].at = "idle" /\ turn[t].calls < MaxCalls
    /\ Send(r)
    /\ turn' = [turn EXCEPT ![t].calls = @ + 1]

\* The next request of the turn, when it has budget left.
Ask(t) ==
    LET r == Main[t] IN
    /\ turn[t].on /\ req[r].at = "idle" /\ turn[t].calls < MaxCalls
    /\ ~Exceeded(t)
    /\ Send(r)
    /\ turn' = [turn EXCEPT ![t].calls = @ + 1]

\* A reflection of the turn, or a background job, asks.
AskOther(r) ==
    /\ r \in Others /\ req[r].at = "unsent"
    /\ Owner[r] = NoTurn \/ (turn[Owner[r]].on /\ turn[Owner[r]].calls > 0)
    /\ Send(r) /\ UNCHANGED turn

\* The turn ends between requests, or is cancelled within one; reflections go on.
EndTurn(t) ==
    LET r == Main[t] IN
    /\ turn[t].on
    /\ turn' = [turn EXCEPT ![t].on = FALSE]
    /\ req' = IF req[r].at = "idle" THEN req
              ELSE [req EXCEPT ![r] = [Fresh EXCEPT !.pictures = req[r].pictures]]
    /\ UNCHANGED <<failures, breaker, broken>>

-----------------------------------------------------------------------------
RequestStep(r) ==
    \/ Begin(r) \/ BeginOpen(r) \/ Streams(r) \/ Retry(r) \/ TimesOut(r) \/ AskOther(r)
    \/ \E o \in Outcomes : PrimaryAnswers(r, o) \/ FallbackAnswers(r, o)

Next ==
    \/ \E r \in Requests : RequestStep(r)
    \/ \E t \in Turns : Ask(t) \/ EndTurn(t)
    \/ CoolDown

Spec == Init /\ [][Next]_vars

\* A provider answers in the end (its own time limits) and timers fire.
Fairness ==
    \A r \in Requests :
        /\ WF_vars(Begin(r) \/ BeginOpen(r)) /\ WF_vars(Retry(r))
        /\ WF_vars(\E o \in Outcomes : PrimaryAnswers(r, o) \/ FallbackAnswers(r, o))

FairSpec == Spec /\ Fairness

-----------------------------------------------------------------------------
\* The type of the state: a standard request makes one attempt more than there
\* are delays, a persistent one no more identical ones than allowed
\* (_run_with_retry).
TypeOK ==
    /\ req \in [Requests ->
           [at : {"unsent", "idle", "begin", "primary", "fallback", "sleep"}, idx : 0 .. Fallbacks,
            attempt : 0 .. MaxAttempts, key : Results, same : 0 .. MaxAttempts,
            heard : BOOLEAN, sent : BOOLEAN, stripped : BOOLEAN, pictures : BOOLEAN,
            tried : SUBSET (1 .. Fallbacks),
            voices : SUBSET ((0 .. MaxAttempts) \X (0 .. Fallbacks))]]
    /\ \A r \in Requests \ Persistent : req[r].attempt <= Retries + 1
    /\ failures \in 0 .. Threshold /\ breaker \in {"closed", "open", "cooled"}
    /\ broken \subseteq 1 .. Fallbacks
    /\ \A t \in Turns : turn[t].on \in BOOLEAN /\ turn[t].calls \in 0 .. MaxCalls
                        /\ turn[t].used \in Nat

\* The client sees the text of one asking only: neither a retry nor another
\* model starts the answer over once some of it was shown (the guards of
\* chat_stream_with_retry and of FallbackProvider.chat_stream).
OneVoice == \A r \in Requests : Cardinality(req[r].voices) <= 1

\* A request that nothing was shown of fails for want of a model only after
\* every fallback that can be created has failed in its last attempt, whatever
\* the breaker did meanwhile (_try_with_fallback).
AllTried ==
    [][\A r \in Requests, o \in Outcomes :
        /\ PrimaryAnswers(r, o) \/ FallbackAnswers(r, o)
        /\ req'[r].at = "idle" /\ ShouldFallback(o) /\ ~req[r].sent
        => req[r].tried = (1 .. Fallbacks) \ broken]_vars

\* A turn stops within its budget but for the answers under way when it was
\* used up: one of its own and those of its reflections (CallLedger.record,
\* check_budget, handle_budget_exceeded).
BudgetHolds ==
    \A t \in Turns :
        turn[t].used <= Budget + 1 + Cardinality({r \in Others : Owner[r] = t})

\* The types, and the turns' budgets.
CallsConsistent == TypeOK /\ BudgetHolds

\* A request ends, though providers fail for ever: all but those that are
\* persistent, which end only when one error repeats.
CallEnds ==
    \A r \in Requests \ Persistent : req[r].at = "begin" ~> req[r].at = "idle"
=============================================================================
