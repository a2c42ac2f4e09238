---------------------------- MODULE MCSubagents ----------------------------
(***************************************************************************)
(* Two sub-agents of the session and one of another session, a delegate,   *)
(* a message and a /stop; small queues, so that both can be full.            *)
(***************************************************************************)
EXTENDS Subagents

CONSTANTS a, b, f, d, hi, halt

MCChildren == {a, b, f}
MCForeign == {f}
MCDelegates == {d}
MCChats == {hi}
MCStops == {halt}

=============================================================================
