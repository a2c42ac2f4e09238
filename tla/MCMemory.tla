------------------------------ MODULE MCMemory ------------------------------
(***************************************************************************)
(* Two Dreams over the files; and one Dream against the user's commands    *)
(* over the database.                                                      *)
(***************************************************************************)
EXTENDS Memory

CONSTANTS d1, d2, keeper, user, tea, coffee

H(part) == [kind |-> "history", part |-> part]
R(part) == [kind |-> "reflection", part |-> part]
Broken == [kind |-> "broken", part |-> 1]

P(content, level) == [content |-> content, level |-> level]

Lessons == {<<P(tea, 2), P(coffee, 1)>>, <<P(coffee, 1)>>}

MCWorlds == {
    \* The files: two partitions, a line without an identity, faults.
    [entries |-> <<H(1), R(1), Broken, R(2)>>, dreams |-> {d1, d2}, answers |-> {<<>>},
     asked |-> 0, faults |-> 1, due |-> 0],
    [entries |-> <<R(1), H(1), R(2)>>, dreams |-> {d1, d2}, answers |-> {<<>>},
     asked |-> 0, faults |-> 2, due |-> 0],
    \* The database: a fault, a second command, a record that expires.
    [entries |-> <<H(1), H(1)>>, dreams |-> {d1}, answers |-> Lessons,
     asked |-> 1, faults |-> 1, due |-> 0],
    [entries |-> <<H(1), H(1)>>, dreams |-> {d1}, answers |-> Lessons,
     asked |-> 2, faults |-> 0, due |-> 0],
    [entries |-> <<H(1), H(1)>>, dreams |-> {d1}, answers |-> Lessons,
     asked |-> 1, faults |-> 0, due |-> 1]}
=============================================================================
