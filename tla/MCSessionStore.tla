--------------------------- MODULE MCSessionStore ---------------------------
(***************************************************************************)
(* Instances of SessionStore.                                              *)
(***************************************************************************)
EXTENDS SessionStore

\* Two turns and deliveries with everything that may happen around them, and a
\* file cap that is reached; turns with tool calls, longer, with a suffix that
\* fits one; and such turns with a suffix that is shorter than one.
MCWorlds ==
    {[events |-> AllEvents, suffix |-> 2, cap |-> 4, replay |-> 3, made |-> 3, asked |-> 2],
     [events |-> {"tools"}, suffix |-> 4, cap |-> 6, replay |-> 4, made |-> 4, asked |-> 2],
     [events |-> {"tools"}, suffix |-> 3, cap |-> 6, replay |-> 4, made |-> 3, asked |-> 2]}
=============================================================================
