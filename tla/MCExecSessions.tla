--------------------------- MODULE MCExecSessions ---------------------------
(***************************************************************************)
(* A turn and its sub-agent share the sessions of a chat; in one of the     *)
(* environments each may also be a task of another chat.                    *)
(***************************************************************************)
EXTENDS ExecSessions

CONSTANTS turn, sub, chat, other

MCCallers == {turn, sub}
MCEnvironments ==
    { [calls |-> 3, ops |-> {"exec", "write", "list"}, chats |-> {chat}, stops |-> 0, horizon |-> 3, pieces |-> 0, forks |-> FALSE],
      [calls |-> 2, ops |-> {"exec", "wait"}, chats |-> {chat}, stops |-> 0, horizon |-> 0, pieces |-> 2, forks |-> TRUE],
      [calls |-> 2, ops |-> {"exec", "write"}, chats |-> {chat, other}, stops |-> 1, horizon |-> 0, pieces |-> 1, forks |-> TRUE] }
MCChats == {chat, other}

=============================================================================
