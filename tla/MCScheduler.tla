----------------------------- MODULE MCScheduler -----------------------------
(* Scheduler for TLC: a task on each of two pull requests that share a       *)
(* repository.                                                               *)
EXTENDS Scheduler, TLC

CONSTANTS Repo, Pr1, Pr2

AllKeys == {Repo, Pr1, Pr2}

CommandAndReview == <<"agent", "review">>
SamePriority == <<0, 0>>
\* Task 1 asks for two units of the repository.
TwoUnits == <<(Repo :> 2 @@ Pr1 :> 1 @@ Pr2 :> 0),
              (Repo :> 1 @@ Pr1 :> 0 @@ Pr2 :> 1)>>
Capacities == (Repo :> 2 @@ Pr1 :> 1 @@ Pr2 :> 1)
\* The operator lowers and raises the capacity of the repository pool only.
Reconfigured == (Repo :> {1, 2} @@ Pr1 :> {} @@ Pr2 :> {})

\* The instance meets what the proof about the workers assumes.
ASSUME InstanceAssumption == ExclusiveKeys
=============================================================================
