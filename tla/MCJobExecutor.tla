----------------------------- MODULE MCJobExecutor -----------------------------
(* The job executor for TLC. *)
EXTENDS JobExecutorProps, TLC

Symmetry == Permutations(Jobs)
EitherWay == BOOLEAN
PlansWithoutSecrets == {plan \in AnyPlan : ~plan.needsAuth}
PlansWithNothingToChoose == {plan \in AnyPlan : plan.state = "Queued"}
RowsOfAnother ==
    [state : {"Interrupted", "Downloading", "Canceled"}, needsAuth : {FALSE}]
================================================================================
