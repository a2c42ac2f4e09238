----------------------------- MODULE MCDispatch -----------------------------
(***************************************************************************)
(* Instances of Dispatch: each is a set of messages with their sessions    *)
(* and kinds.  Session "alice" sends follow-ups and commands, session      *)
(* "bob" competes with it for the gate and for room in the queues.         *)
(***************************************************************************)
EXTENDS Dispatch, TLC

TwoSessions == {"alice", "bob"}
AliceIsWeb == {"alice"}

\* Two chats, a query and a /stop of alice, one chat of bob.
StopMsgs == {"a1", "a2", "query", "stop", "b1"}
StopSession == [m \in StopMsgs |-> IF m = "b1" THEN "bob" ELSE "alice"]
StopKind == [m \in StopMsgs |-> IF m \in {"query", "stop"} THEN m ELSE "chat"]

\* Two chats, two resets and a /stop of alice.
NewMsgs == {"a1", "a2", "new1", "new2", "stop"}
NewSession == [m \in NewMsgs |-> "alice"]
NewKind == [m \in NewMsgs |->
               CASE m \in {"a1", "a2"} -> "chat"
                 [] m \in {"new1", "new2"} -> "new"
                 [] OTHER -> "stop"]
=============================================================================
