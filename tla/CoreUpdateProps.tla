--------------------------- MODULE CoreUpdateProps ---------------------------
(***************************************************************************)
(* What an update of the program promises.                                 *)
(***************************************************************************)
EXTENDS CoreUpdate

AppRecord == [pc : AppPC, release : Releases \cup {None}, cand : Txns \cup {None},
              todo : SUBSET Txns,
              seen : [txn : Txns, state : TransactionState] \cup {None},
              polls : 0..Polls, txn : Txns \cup {None}]
HelperRecord == [pc : HelperPC, parent : Apps \cup {None}, child : Apps \cup {None}]

\* The types of the table, the journals, the processes and the payload.
TypeOK ==
    /\ db \in [Txns -> UpdateState \cup {None}]
    /\ journal \in [Txns -> TransactionState \cup {None}]
    /\ target \in [Txns -> Releases \cup {None}]
    /\ from \in [Txns -> Releases \cup {None}]
    /\ acked \subseteq Txns
    /\ app \in [Apps -> AppRecord]
    /\ helper \in [Txns -> HelperRecord]
    /\ lock \in Txns \cup {None}
    /\ installed \in Releases \cup {None}
    /\ backup \in Releases \cup {None}
    /\ unpacked \subseteq Releases
    /\ faults \in 0..RenameFaults

\* "A candidate must acknowledge UI health within 60 seconds or the updater
\* restores the previous payload" (docs/architecture.md): when no helper is at
\* work, the installed release is the first one, or one whose candidate has
\* acknowledged and whose transaction is committed, or a rollback failed and the
\* journal says so.
RestingPayloadIsProven ==
    Resting =>
        \/ installed \in {Base, None}
        \/ \E t \in Txns : /\ journal[t] = "committed" /\ t \in acked
                           /\ target[t] = installed
        \/ \E t \in Txns : journal[t] = "rollback_failed"

\* The helper of t ended after it had swapped and before it had a verdict: killed, or with
\* the error of launch_candidate or of a write of its journal.  No start of the program
\* takes up such a transaction.
LeftSwapped(t) ==
    /\ target[t] = installed
    /\ journal[t] \in {"waiting_for_exit", "swapped", "launched", "healthy"}

\* With faults too, a payload at rest that nobody has acknowledged, although no rollback
\* failed, is one whose helper ended between the swap and its verdict: no other order of
\* crashes, failing launches and writes leaves one (fmd-updater lib.rs:314-369).
UnprovenPayloadsAreKnown ==
    Resting => RestingPayloadIsProven \/ \E t \in Txns : LeftSwapped(t)

\* A single failing rename never loses the payload behind the journal's back: if
\* there is nothing to start, a helper that holds the lock is between its two
\* renames, or its journal says that the rollback failed (Swap::activate moves
\* the payload back, Swap::rollback reports).
LostPayloadIsRecorded ==
    installed = None /\ faults < 2 =>
        \/ \E t \in Txns : lock = t /\ helper[t].pc \in {"moving", "restoring"}
        \/ \E t \in Txns : journal[t] = "rollback_failed"

\* Reconciliation at the next start meets a journal the table does not accept,
\* AppState::initialize fails, and so does every later start.
StartBlockedBy(t) ==
    /\ db[t] \notin Settled \cup {None}
    /\ journal[t] # None
    /\ ~ValidUpdateTransition(db[t], journal[t])

\* The candidate was started before its helper wrote "launched", recorded
\* "swapped", and did not look again before its helper had committed.
SkippedLaunch(t) == db[t] = "swapped" /\ journal[t] = "committed"

\* No helper is at work and no instance has yet to record that it applies.
Quiet == Resting /\ \A a \in Apps : app[a].pc # "spawned"

\* Without a fault and with a user who waits for the update, the program can be
\* started again when the helper is done, but for that one race.
OnlySkippedLaunchBlocks ==
    Quiet => \A t \in Txns : StartBlockedBy(t) => SkippedLaunch(t)

\* With faults, and with a second instance that may reconcile at any moment, a
\* start is blocked for three more reasons: that instance recorded the wait for
\* exit, which the table lets go on to nothing a later start can read; the table
\* never learnt that the update was applied; or the helper ended before it wrote
\* that it waits.
BlockedStartsAreKnown ==
    Quiet => \A t \in Txns : StartBlockedBy(t) =>
        \/ SkippedLaunch(t)
        \/ db[t] = "waiting_for_exit"
        \/ db[t] = "downloaded"
        \/ db[t] = "applying" /\ journal[t] = "prepared"

\* With a user who waits for each update a swap never replaces the installed release by an
\* older one, over verdicts of every kind, failing renames and candidates that go on to ask
\* for the next update.  apply compares the sequence with those the table tells committed
\* (lib.rs:575-587), and the table may be behind the journals: what protects is that the
\* instance that asks runs what is installed when the swap comes.  With a second instance that
\* commits in between this is true of pointers only, which the helper compares once more.
NoDowngrade ==
    [][\A t \in Txns :
          helper[t].pc = "staged" /\ helper'[t].pc \in {"moving", "activated"}
              => installed <= target[t]]_vars

\* From the swap to the verdict the release of t is on trial.
OnTrial(t) ==
    helper[t].pc \in {"activated", "swapped", "started", "health", "healthy", "rolling",
                      "restoring"}
Tried == CHOOSE t \in Txns : OnTrial(t)
Trying == \E t \in Txns : OnTrial(t)

\* The release that a start of the program runs, or that the helper between two renames
\* has in hand.
Current ==
    IF \E t \in Txns : helper[t].pc = "moving" THEN backup
    ELSE IF \E t \in Txns : helper[t].pc = "restoring" THEN target[Tried]
    ELSE installed

\* Where the helper would return to.
Prior ==
    IF ~Trying THEN None
    ELSE IF InstallKind = "pointer" THEN from[Tried]
    ELSE backup

Heard == Trying /\ Tried \in acked
Kept == {target[t] : t \in {u \in Txns : journal[u] = "committed"}}
Failed == \E t \in Txns : journal[t] = "rollback_failed"

Trial == INSTANCE PayloadTrial WITH
    current <- Current,
    trial <- Trying,
    prior <- Prior,
    heard <- Heard,
    proven <- {Base} \cup Kept,
    failed <- Failed

\* Every step of every process is one of PayloadTrial or changes nothing it shows: above all,
\* a rollback brings back exactly the release that was there before this trial, and a release
\* is kept only if this trial's candidate has acknowledged (fmd-updater lib.rs:253-369).
ImplementsTrial == Trial!Spec

\* The system runs its processes, so a helper and a reconciliation go on; the
\* user closes every instance some day and starts the program again.
Fairness ==
    /\ \A t \in Txns : WF_vars(Apply(t))
    /\ \A a \in Apps : /\ WF_vars(Reconciles(a))
                        /\ WF_vars(RecordApplying(a))
                        /\ WF_vars(AppExits(a))
                        /\ WF_vars(AppEnds(a))
    /\ WF_vars(\E a \in Apps : UserStarts(a))

LiveSpec == Spec /\ Fairness

\* What the helper decided reaches the table, whichever instances end in between,
\* unless a skipped launch, of this transaction or another, blocks every start, or a
\* failed repair has left nothing that could be started.
VerdictIsLearnt ==
    \A t \in Txns :
        journal[t] \in Verdicts ~>
            \/ db[t] = journal[t]
            \/ \E u \in Txns : SkippedLaunch(u)
            \/ installed = None /\ Resting

=============================================================================
