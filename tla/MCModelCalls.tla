---------------------------- MODULE MCModelCalls ---------------------------
(***************************************************************************)
(* A turn that streams a request with images, its reflection, and another  *)
(* turn whose request is persistent and has a time limit: three users of   *)
(* one breaker.                                                            *)
(***************************************************************************)
EXTENDS ModelCalls, TLC

CONSTANTS t1, t2, m1, m2, reflect

MCTurns == {t1, t2}
MCMain == t1 :> m1 @@ t2 :> m2
MCOthers == {reflect}
MCOwner == m1 :> t1 @@ m2 :> t2 @@ reflect :> t1
MCStreaming == {m1}
MCPersistent == {m2}
MCPictures == {m1}

=============================================================================
