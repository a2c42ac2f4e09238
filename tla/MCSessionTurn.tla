--------------------------- MODULE MCSessionTurn ---------------------------
(***************************************************************************)
(* Instances of SessionTurn: a few inputs, short turns.                    *)
(***************************************************************************)
EXTENDS SessionTurn

\* Two chats, one of which may become the other's follow-up, with a command in
\* long turns, and with a sub-agent's result in short ones.
TurnInputs == {"u1", "u2", "cmd", "agent"}
TurnCommands == {"cmd"}
TurnAnnounces == {"agent"}
TurnWorlds ==
    { [inputs |-> {"u1", "u2", "cmd"}, calls |-> 2, responses |-> 3, archiveFails |-> FALSE],
      [inputs |-> {"u1", "u2", "agent"}, calls |-> 1, responses |-> 2, archiveFails |-> TRUE] }

\* Three chats.
ThreeInputs == {"u1", "u2", "u3"}
ThreeChats == {[inputs |-> ThreeInputs, calls |-> 1, responses |-> 3, archiveFails |-> FALSE]}
Nobody == {}
=============================================================================
