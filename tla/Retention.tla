----------------------------- MODULE Retention -----------------------------
(***************************************************************************)
(* What a session keeps when it is cut down: retain_recent_legal_suffix    *)
(* and enforce_file_cap (session/manager.py) with find_legal_message_start *)
(* (utils/helpers.py).                                                     *)
(*                                                                         *)
(* A message is a record [role, of]: "user", "call" (an assistant message  *)
(* with a tool call), "tool" (that call's result), "assistant" or          *)
(* "delivery" (an assistant message with _channel_delivery), of one turn.  *)
(***************************************************************************)
EXTENDS Naturals, Sequences

Elems(ms) == {ms[i] : i \in DOMAIN ms}
LastOf(n, ms) == SubSeq(ms, (IF n < Len(ms) THEN Len(ms) - n ELSE 0) + 1, Len(ms))
After(n, ms) == SubSeq(ms, n + 1, Len(ms))
Users(ms) == {i \in DOMAIN ms : ms[i].role = "user"}
Least(S) == CHOOSE i \in S : \A j \in S : i <= j
Greatest(S) == CHOOSE i \in S : \A j \in S : i >= j

\* From n on every tool result follows its call.
Legal(ms, n) ==
    \A i \in n + 1 .. Len(ms) : ms[i].role = "tool" =>
        \E j \in n + 1 .. i - 1 : ms[j] = [role |-> "call", of |-> ms[i].of]

\* How many messages to drop at the front for that.  The scan drops all up to
\* the first result without a call and begins anew: it stops at the least.
LegalStart(ms) ==
    CHOOSE n \in 0 .. Len(ms) : Legal(ms, n) /\ \A k \in 0 .. n - 1 : ~Legal(ms, k)

\* The last max messages from a user's message on.  If they have none, max
\* messages from the latest user's message on: not the end of ms then.
Retained(ms, max) ==
    LET tail == LastOf(max, ms)
        window == IF Users(tail) # {} THEN After(Least(Users(tail)) - 1, tail)
                  ELSE IF Users(ms) # {}
                         THEN LET rest == After(Greatest(Users(ms)) - 1, ms)
                              IN  SubSeq(rest, 1, IF max < Len(rest) THEN max ELSE Len(rest))
                         ELSE tail
    IN  IF Len(ms) <= max THEN ms ELSE After(LegalStart(window), window)

Dropped(ms, max) == Len(ms) - Len(Retained(ms, max))

\* The cursor of a session after it was cut down to max messages.
RetainedCursor(ms, cursor, max) ==
    IF Dropped(ms, max) < cursor THEN cursor - Dropped(ms, max) ELSE 0

\* enforce_file_cap archives the first messages, as many as were dropped.
CapArchive(ms, cursor, max) == Elems(SubSeq(ms, cursor + 1, Dropped(ms, max)))
=============================================================================
