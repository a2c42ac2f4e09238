--------------------------- MODULE SessionService ---------------------------
(***************************************************************************)
(* What the dispatcher promises a channel: every message is dealt with at  *)
(* most once; one message of a session is being served at a time, and at   *)
(* most Capacity in all; a follow-up is absorbed only by the message its   *)
(* own session is serving, and is settled with it.                         *)
(***************************************************************************)
EXTENDS Naturals, FiniteSets

CONSTANTS Msgs, Sessions, SessionOf, Capacity

VARIABLE phase

Phases == {"unsent", "waiting", "serving", "absorbed", "settled", "discarded"}
Over == {"settled", "discarded"}
Peers(s) == {m \in Msgs : SessionOf[m] = s}
InPhase(p) == {m \in Msgs : phase[m] = p}

Init == phase = [m \in Msgs |-> "unsent"]

Submit(m) ==
    /\ phase[m] = "unsent"
    /\ phase' = [phase EXCEPT ![m] = "waiting"]

Serve(m) ==
    /\ phase[m] = "waiting"
    /\ Peers(SessionOf[m]) \cap InPhase("serving") = {}
    /\ Capacity > 0 => Cardinality(InPhase("serving")) < Capacity
    /\ phase' = [phase EXCEPT ![m] = "serving"]

Absorb(m, got) ==
    /\ phase[m] = "serving"
    /\ got \subseteq Peers(SessionOf[m]) \cap InPhase("waiting")
    /\ phase' = [u \in Msgs |-> IF u \in got THEN "absorbed" ELSE phase[u]]

\* The turn is over: its follow-ups share its fate.
Conclude(m, fate) ==
    /\ phase[m] = "serving"
    /\ phase' = [u \in Msgs |->
                   IF u \in Peers(SessionOf[m]) /\ phase[u] = "absorbed"
                     THEN fate ELSE phase[u]]

\* The session is free again; waiting messages may be given up with it.
Release(m, fate, given) ==
    /\ phase[m] = "serving"
    /\ given \subseteq Peers(SessionOf[m]) \cap InPhase("waiting")
    /\ \A u \in Peers(SessionOf[m]) : phase[u] # "absorbed"
    /\ phase' = [u \in Msgs |-> IF u = m THEN fate
                                ELSE IF u \in given THEN "discarded" ELSE phase[u]]

\* A message that is never served: a command answered at once, or a message
\* discarded while it waits.
Dismiss(m, fate) ==
    /\ phase[m] = "waiting"
    /\ phase' = [phase EXCEPT ![m] = fate]

Next ==
    \E m \in Msgs :
        \/ Submit(m) \/ Serve(m)
        \/ \E got \in SUBSET InPhase("waiting") : Absorb(m, got)
        \/ \E fate \in Over : Conclude(m, fate) \/ Dismiss(m, fate)
        \/ \E fate \in Over, given \in SUBSET InPhase("waiting") : Release(m, fate, given)

Spec == Init /\ [][Next]_phase
=============================================================================
