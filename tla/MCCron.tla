------------------------------- MODULE MCCron -------------------------------
(***************************************************************************)
(* Instances of Cron: one job of each kind and a handful of time steps.    *)
(***************************************************************************)
EXTENDS Cron

\* The gateway's own job, a recurring one and a one-shot of the user.
CONSTANTS dream, daily, once
ThreeJobs == {dream, daily, once}
OwnJob == {dream}
Kinds == dream :> "every" @@ daily :> "at" @@ once :> "once"

\* What happens around the service in one behaviour.
Around == {{"config", "list"}, {"stop", "late"}, {"external", "list"},
           {"external", "crash"}, {"stop", "list", "crash"}, {"disk", "list"}, {"corrupt"},
           {"corrupt", "stop"}}

\* One line of the action log after another, as the loop of _merge_action has it.
Applied(acc, e) ==
    IF e.op = "del"
    THEN IF e.id \in DOMAIN acc.jobs
         THEN [jobs |-> Drop(acc.jobs, {e.id}), changed |-> TRUE]
         ELSE acc
    ELSE [jobs |-> Put(acc.jobs, e.id, e.job), changed |-> TRUE]

\* Merge is the replay of the log, for all logs of up to three lines.
ASSUME MergeReplays ==
    LET ids == {dream, daily}
        lines == [op : {"add", "del", "update"}, id : ids, job : {"old", "new"}]
        logs == UNION {[1 .. n -> lines] : n \in 0 .. 3}
        tables == UNION {[S -> {"kept"}] : S \in SUBSET ids}
    IN  \A m \in tables, lg \in logs :
            Merge([file |-> m, log |-> lg]) = FoldLeft(Applied, [jobs |-> m, changed |-> FALSE], lg)
=============================================================================
