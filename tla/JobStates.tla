------------------------------- MODULE JobStates -------------------------------
(***************************************************************************)
(* The states of a download job and the relation that says which of them   *)
(* may follow which (fmd-core/src/job.rs).                                 *)
(***************************************************************************)

\* The variants of the enum JobState.
JobState ==
    {"Probing", "AwaitingSelection", "Queued", "Preparing", "Downloading",
     "PostProcessing", "Paused", "Interrupted", "Completed", "Failed", "Canceled"}

\* JobState::can_transition_to, as the set of states each state admits next.
Successors ==
    [s \in JobState |->
        CASE s = "Probing" -> {"AwaitingSelection", "Queued", "Failed", "Canceled"}
          [] s = "AwaitingSelection" -> {"Queued", "Canceled"}
          [] s = "Queued" -> {"Preparing", "Paused", "Canceled"}
          [] s = "Preparing" ->
                {"Downloading", "Paused", "Failed", "Interrupted", "Canceled"}
          [] s = "Downloading" ->
                {"PostProcessing", "Completed", "Paused", "Failed", "Interrupted",
                 "Canceled"}
          [] s = "PostProcessing" -> {"Completed", "Failed", "Interrupted", "Canceled"}
          [] s \in {"Paused", "Interrupted"} -> {"Queued", "Canceled"}
          [] s = "Failed" -> {"Probing", "Queued"}
          [] s \in {"Completed", "Canceled"} -> {}]

CanTransition(from, to) == to \in Successors[from]

\* JobState::is_terminal.
Terminal == {"Completed", "Failed", "Canceled"}

\* The states mark_active_jobs_interrupted looks for when the program starts.
Active == {"Preparing", "Downloading", "PostProcessing"}

\* No row for this job: it has not been created, or the process is down.
Absent == "Absent"
================================================================================
