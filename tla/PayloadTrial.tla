----------------------------- MODULE PayloadTrial ------------------------------
(***************************************************************************)
(* What the updater promises to whoever starts the program: which release  *)
(* a start runs changes only by a trial, which ends with the release kept  *)
(* because it was heard of, or with the very release that was there        *)
(* before; what else may become of it, by failing renames or by a helper   *)
(* that ends too soon, is stated here and no more than this.               *)
(***************************************************************************)
EXTENDS Naturals

CONSTANTS
    Releases, Base,
    None,          \* no release
    InstallKind,   \* "pointer", which is never lost, or "payload"
    RenameFaults,  \* renames and pointer writes that may fail
    Faults         \* what else may go wrong

VARIABLES
    current,    \* the release a start of the program runs
    trial,      \* whether it is on trial
    prior,      \* the release to return to
    heard,      \* whether the one on trial has acknowledged that it works
    proven,     \* the first release and those that were kept
    failed      \* whether a repair has failed

vars == <<current, trial, prior, heard, proven, failed>>

Init ==
    /\ current = Base
    /\ trial = FALSE /\ prior = None /\ heard = FALSE
    /\ proven = {Base}
    /\ failed = FALSE

\* One release at a time is tried, in place of one that can be started.
Try ==
    /\ ~trial /\ current # None
    /\ trial' = TRUE /\ prior' = current /\ heard' = FALSE
    /\ current' \in Releases
    /\ UNCHANGED <<proven, failed>>

Hear ==
    /\ trial /\ heard' = TRUE
    /\ UNCHANGED <<current, trial, prior, proven, failed>>

TrialEnds == trial /\ trial' = FALSE /\ prior' = None /\ heard' = FALSE

Keep ==
    /\ heard /\ TrialEnds
    /\ proven' = proven \cup {current}
    /\ UNCHANGED <<current, failed>>

Revert ==
    /\ TrialEnds
    /\ current' = prior
    /\ UNCHANGED <<proven, failed>>

\* What is left when a trial breaks off: what was tried, or nothing.
BreaksOff ==
    /\ TrialEnds
    /\ current' = current \/ (InstallKind = "payload" /\ current' = None)
    /\ UNCHANGED proven

\* The repair fails, and says so.
GiveUp == RenameFaults > 0 /\ BreaksOff /\ failed' = TRUE

\* Nobody is left to end the trial.
Leave ==
    /\ Faults \cap {"helper_dies", "launch_fails"} # {}
    /\ BreaksOff /\ UNCHANGED failed

\* The old release is moved aside and nothing takes its place.
Lose ==
    /\ InstallKind = "payload" /\ (RenameFaults > 1 \/ "helper_dies" \in Faults)
    /\ ~trial /\ current' = None
    /\ UNCHANGED <<trial, prior, heard, proven, failed>>

Next == Try \/ Hear \/ Keep \/ Revert \/ GiveUp \/ Leave \/ Lose

Spec == Init /\ [][Next]_vars

================================================================================
