------------------------------ MODULE CoreUpdate ------------------------------
(***************************************************************************)
(* The update of the program itself: the commands prepare, download and    *)
(* apply of CoreUpdateService (src-tauri/src/lib.rs), the helper process   *)
(* that replaces the payload (fmd-updater), and the reconciliation of the  *)
(* helper's journal files with the update_journals table (storage.rs).     *)
(*                                                                         *)
(* Three kinds of process meet only in files: program instances, which own *)
(* the table; helpers, one per transaction, which own the journal file and *)
(* the payload; and the candidate, a program instance a helper started and *)
(* waits to see healthy.  An action is what one process does between two   *)
(* of its effects on what the others can see.                              *)
(***************************************************************************)
EXTENDS Naturals, FiniteSets

CONSTANTS
    Apps,            \* places for program instances: how many may run at once
    Txns,            \* identifiers of update transactions, used in their order
    Releases,        \* releases of the program, ordered as the feed orders both
                     \* their versions and their security sequences
    Base,            \* the release installed at first
    None,            \* no instance, transaction, release or journal entry
    InstallKind,     \* "pointer" (portable Windows) or "payload" (the others)
    Polls,           \* reconciliations of a candidate that is shown (30)
    RenameFaults,    \* renames and pointer writes that may fail
    Hasty,           \* whether the user may start the program while an instance
                     \* of it runs, or an update while a helper is at work
    Faults           \* what else may go wrong

ASSUME SetsAssumption == IsFiniteSet(Apps) /\ IsFiniteSet(Txns) /\ Txns \subseteq Nat
ASSUME ReleasesAssumption == Releases \subseteq Nat /\ Base \in Releases
ASSUME SwitchesAssumption ==
    /\ InstallKind \in {"pointer", "payload"}
    /\ Polls \in Nat \ {0}
    /\ RenameFaults \in Nat
    /\ Hasty \in BOOLEAN
    /\ Faults \subseteq {"app_dies", "helper_dies", "launch_fails", "store_fails"}

VARIABLES
    db,         \* the state of each transaction in the update_journals table
    journal,    \* the state in its transaction.json, None when there is no file
    target,     \* the release it installs
    from,       \* the release that asked for it (current_version)
    acked,      \* transactions whose health.ack is written
    app,        \* the program instances
    helper,     \* the helper process of each transaction
    lock,       \* the helper that holds update.lock
    installed,  \* the release a start of the program runs, None when it is gone
    backup,     \* the payload kept aside (previous-payload, previous.AppImage)
    unpacked,   \* releases that have a directory under app/ (pointer installs)
    faults      \* renames that failed so far

table == <<db, target, from>>
payload == <<installed, backup, unpacked, faults>>
vars == <<db, journal, target, from, acked, app, helper, lock, payload>>

\* TransactionState: what a helper may write in its journal.
TransactionState == {"prepared", "waiting_for_exit", "swapped", "launched", "healthy",
                     "committed", "rolled_back", "aborted", "rollback_failed"}

UpdateState == TransactionState \cup {"downloaded", "download_failed", "applying"}

ASSUME NoneAssumption == None \notin Apps \cup Txns \cup Releases /\ None \notin UpdateState

\* Mutant of Settled: a healthy candidate needs no more looking after.
SettledWhenHealthy == {"healthy", "committed", "rolled_back", "aborted"}

\* States a transaction ends in, as acknowledge_ui_ready lists them; reconcile
\* goes on reading the journal of a failed rollback.
Verdicts == {"committed", "rolled_back", "aborted", "rollback_failed"}
Settled == Verdicts \ {"rollback_failed"}

\* Mutant of Onward: the helper's own table, without the leaps the program's
\* reconciliation makes from "applying".
OnwardStepByStep == [s \in UpdateState |->
    CASE s = "prepared" -> {"downloaded", "download_failed"}
      [] s = "download_failed" -> {"downloaded"}
      [] s = "downloaded" -> {"applying"}
      [] s = "applying" -> {"waiting_for_exit"}
      [] s = "waiting_for_exit" -> {"swapped", "aborted"}
      [] s = "swapped" -> {"launched", "healthy", "rolled_back", "rollback_failed"}
      [] s = "launched" -> {"healthy", "rolled_back", "rollback_failed"}
      [] s = "healthy" -> {"committed", "rolled_back", "rollback_failed"}
      [] OTHER -> {}]

\* valid_update_transition: how the table lets a transaction move on.
Onward == [s \in UpdateState |->
    CASE s = "prepared" -> {"downloaded", "download_failed"}
      [] s = "download_failed" -> {"downloaded"}
      [] s = "downloaded" -> {"applying"}
      [] s = "applying" -> TransactionState \ {"prepared"}
      [] s = "waiting_for_exit" -> {"swapped", "aborted"}
      [] s = "swapped" -> {"launched", "healthy", "rolled_back", "rollback_failed"}
      [] s = "launched" -> {"healthy", "committed", "rolled_back", "rollback_failed"}
      [] s = "healthy" -> {"committed", "rolled_back", "rollback_failed"}
      [] OTHER -> {}]

ValidUpdateTransition(s, next) == s = next \/ next \in Onward[s]

-----------------------------------------------------------------------------
(* Processes *)

AppPC == {"off", "booting", "reconciling", "up", "polling", "viewing", "idle",
          "prepared", "downloaded", "spawned", "exiting"}
HelperPC == {"none", "spawned", "checked", "prepared", "waiting", "staging", "staged",
             "moving", "activated", "swapped", "started", "health", "healthy",
             "rolling", "restoring", "restored", "relaunching"}

NoApp == [pc |-> "off", release |-> None, cand |-> None, todo |-> {}, seen |-> None,
          polls |-> 0, txn |-> None]
NoHelper == [pc |-> "none", parent |-> None, child |-> None]

Started(r, t) == [NoApp EXCEPT !.pc = "booting", !.release = r, !.cand = t]

Off(a) == app[a].pc = "off"
Resting == \A t \in Txns : helper[t].pc = "none"

\* Every helper with the instances that are left: a helper only learns of its
\* parent and of its child whether they still run.
Without(a) == [t \in Txns |->
    [helper[t] EXCEPT !.parent = IF @ = a THEN None ELSE @,
                      !.child = IF @ = a THEN None ELSE @]]

\* Helper t goes on to pc, or ends and lets go of the lock.
To(t, pc) == helper' = [helper EXCEPT ![t].pc = pc] /\ UNCHANGED lock
Ends(t) ==
    /\ helper' = [helper EXCEPT ![t] = NoHelper]
    /\ lock' = IF lock = t THEN None ELSE lock

WriteJournal(t, state) == journal' = [journal EXCEPT ![t] = state]

Init ==
    /\ db = [t \in Txns |-> None]
    /\ journal = [t \in Txns |-> None]
    /\ target = [t \in Txns |-> None]
    /\ from = [t \in Txns |-> None]
    /\ acked = {}
    /\ app = [a \in Apps |-> NoApp]
    /\ helper = [t \in Txns |-> NoHelper]
    /\ lock = None
    /\ installed = Base
    /\ backup = None
    /\ unpacked = {Base}
    /\ faults = 0

-----------------------------------------------------------------------------
(* A program instance: start, reconciliation, health acknowledgement *)

UserStarts(a) ==
    /\ Off(a)
    /\ installed # None
    /\ Hasty \/ (Resting /\ \A b \in Apps : Off(b))
    /\ app' = [app EXCEPT ![a] = Started(installed, None)]
    /\ UNCHANGED <<table, journal, acked, helper, lock, payload>>

\* CoreUpdateService::reconcile lists the table once and leaves out what is
\* settled.  It runs in AppState::initialize, and after each 100 ms a candidate
\* waits in acknowledge_ui_ready.
ListJournals(a) ==
    /\ \/ app[a].pc = "booting"
       \/ app[a].pc = "polling" /\ app[a].polls > 0 /\ app[a].todo = {}
    /\ app' = [app EXCEPT
          ![a].todo = {t \in Txns : db[t] # None /\ db[t] \notin Settled},
          ![a].pc = IF @ = "booting" THEN "reconciling" ELSE @,
          ![a].polls = IF app[a].pc = "polling" THEN @ - 1 ELSE @]
    /\ UNCHANGED <<table, journal, acked, helper, lock, payload>>

\* The order of the list, newest update first and then by identifier, is left
\* open: the times have a resolution of one second.
ReadJournal(a, t) ==
    /\ app[a].pc \in {"reconciling", "polling"}
    /\ t \in app[a].todo
    /\ app[a].seen = None
    /\ IF journal[t] = None
       THEN app' = [app EXCEPT ![a].todo = @ \ {t}]
       ELSE app' = [app EXCEPT ![a].seen = [txn |-> t, state |-> journal[t]]]
    /\ UNCHANGED <<table, journal, acked, helper, lock, payload>>

\* An instance whose reconciliation is refused fails to initialize and exits; a
\* candidate that polls tells its window, which then offers no update.
Refused(a) ==
    IF app[a].pc = "reconciling"
    THEN app' = [app EXCEPT ![a] = NoApp] /\ helper' = Without(a)
    ELSE /\ app' = [app EXCEPT ![a].pc = "viewing", ![a].todo = {}, ![a].seen = None,
                               ![a].polls = 0]
         /\ UNCHANGED helper

RecordJournal(a) ==
    /\ app[a].seen # None
    /\ LET t == app[a].seen.txn
           state == app[a].seen.state
       IN  IF ValidUpdateTransition(db[t], state)
           THEN /\ db' = [db EXCEPT ![t] = state]
                /\ app' = [app EXCEPT ![a].todo = @ \ {t}, ![a].seen = None]
                /\ UNCHANGED helper
           ELSE Refused(a) /\ UNCHANGED db
    /\ UNCHANGED <<journal, target, from, acked, lock, payload>>

\* AppState is managed and the window is shown.
Reconciled(a) ==
    /\ app[a].pc = "reconciling" /\ app[a].todo = {}
    /\ app' = [app EXCEPT ![a].pc = "up"]
    /\ UNCHANGED <<table, journal, acked, helper, lock, payload>>

\* acknowledge_ui_ready: only an instance a helper started writes health.ack.
AcknowledgeUiReady(a) ==
    /\ app[a].pc = "up"
    /\ IF app[a].cand = None
       THEN app' = [app EXCEPT ![a].pc = "idle"] /\ UNCHANGED acked
       ELSE /\ app' = [app EXCEPT ![a].pc = "polling", ![a].polls = Polls]
            /\ acked' = acked \cup {app[a].cand}
    /\ UNCHANGED <<table, journal, helper, lock, payload>>

\* The polls are used up, or the newest record is a verdict.  A reconciliation
\* renews the time of every record it does not leave out, so the newest is any.
PollsOver(a) ==
    /\ app[a].pc = "polling" /\ app[a].todo = {}
    /\ \/ app[a].polls = 0
       \/ app[a].polls < Polls /\ \E t \in Txns : db[t] \in Verdicts
    /\ app' = [app EXCEPT ![a].pc = "idle", ![a].polls = 0]
    /\ UNCHANGED <<table, journal, acked, helper, lock, payload>>

\* The user closes the window, whatever it is doing.  Initialization and the
\* apply command hold the main thread: only a crash ends an instance there.
AppEnds(a) ==
    /\ ~Off(a)
    /\ \/ "app_dies" \in Faults
       \/ app[a].pc \notin {"booting", "reconciling", "spawned", "exiting"}
    /\ app' = [app EXCEPT ![a] = NoApp]
    /\ helper' = Without(a)
    /\ UNCHANGED <<table, journal, acked, lock, payload>>

-----------------------------------------------------------------------------
(* The update commands of an instance, in the order the window sends them *)

At(a, pc) == app[a].pc = pc
Goes(a, pc) == app' = [app EXCEPT ![a].pc = pc]

Fresh(t) == db[t] = None /\ \A u \in Txns : u < t => db[u] # None

\* Mutant of PrepareUpdate: any other release is an update.
PrepareAnyOther(a, t, r) ==
    /\ At(a, "idle") /\ Fresh(t)
    /\ Hasty \/ Resting
    /\ r # app[a].release
    /\ db' = [db EXCEPT ![t] = "prepared"]
    /\ target' = [target EXCEPT ![t] = r]
    /\ from' = [from EXCEPT ![t] = app[a].release]
    /\ app' = [app EXCEPT ![a].pc = "prepared", ![a].txn = t]
    /\ UNCHANGED <<journal, acked, helper, lock, payload>>

\* prepare: a fresh transaction for a release newer than the running one, with
\* its receipt in the table and in receipt.json.
PrepareUpdate(a, t, r) ==
    /\ At(a, "idle") /\ Fresh(t)
    /\ Hasty \/ Resting
    /\ r > app[a].release
    /\ db' = [db EXCEPT ![t] = "prepared"]
    /\ target' = [target EXCEPT ![t] = r]
    /\ from' = [from EXCEPT ![t] = app[a].release]
    /\ app' = [app EXCEPT ![a].pc = "prepared", ![a].txn = t]
    /\ UNCHANGED <<journal, acked, helper, lock, payload>>

\* download: its failure is recorded and ends the window's attempt.
DownloadUpdate(a) ==
    /\ At(a, "prepared")
    /\ db[app[a].txn] \in {"prepared", "download_failed"}
    /\ \/ Goes(a, "downloaded") /\ db' = [db EXCEPT ![app[a].txn] = "downloaded"]
       \/ Goes(a, "idle") /\ db' = [db EXCEPT ![app[a].txn] = "download_failed"]
    /\ UNCHANGED <<journal, target, from, acked, helper, lock, payload>>

Committed == {target[t] : t \in {u \in Txns : db[u] = "committed"}}

\* apply, up to the request on the helper's standard input.
SpawnHelper(a) ==
    /\ At(a, "downloaded")
    /\ LET t == app[a].txn
       IN  \/ /\ db[t] = "downloaded" /\ \A r \in Committed : target[t] > r
              /\ helper' = [helper EXCEPT ![t].pc = "spawned", ![t].parent = a]
              /\ Goes(a, "spawned")
           \/ /\ \/ db[t] # "downloaded"
                 \/ \E r \in Committed : target[t] <= r
                 \/ "launch_fails" \in Faults
              /\ Goes(a, "idle")
              /\ UNCHANGED helper
    /\ UNCHANGED <<table, journal, acked, lock, payload>>

\* apply, its last write: if the table refuses it or fails, the instance stays,
\* and so does the helper.
RecordApplying(a) ==
    /\ At(a, "spawned")
    /\ LET t == app[a].txn
       IN  \/ /\ ValidUpdateTransition(db[t], "applying")
              /\ db' = [db EXCEPT ![t] = "applying"]
              /\ Goes(a, "exiting")
           \/ /\ ~ValidUpdateTransition(db[t], "applying") \/ "store_fails" \in Faults
              /\ Goes(a, "idle")
              /\ UNCHANGED db
    /\ UNCHANGED <<journal, target, from, acked, helper, lock, payload>>

\* apply_core_update: app.exit(0).
AppExits(a) ==
    /\ At(a, "exiting")
    /\ app' = [app EXCEPT ![a] = NoApp]
    /\ helper' = Without(a)
    /\ UNCHANGED <<table, journal, acked, lock, payload>>

-----------------------------------------------------------------------------
(* The helper: fmd_updater::apply *)

Stands(t, pc) == helper[t].pc = pc
RenameMayFail == faults < RenameFaults

\* The parent must still be the process that wrote the request.
CheckParent(t) ==
    /\ Stands(t, "spawned")
    /\ IF helper[t].parent # None THEN To(t, "checked") ELSE Ends(t)
    /\ UNCHANGED <<table, journal, acked, app, payload>>

\* update.lock, the artifact and the marker; then the journal is created.
TakeLock(t) ==
    /\ Stands(t, "checked")
    /\ IF lock = None
       THEN /\ lock' = t
            /\ helper' = [helper EXCEPT ![t].pc = "prepared"]
            /\ WriteJournal(t, "prepared")
       ELSE Ends(t) /\ UNCHANGED journal
    /\ UNCHANGED <<table, acked, app, payload>>

AnnounceWait(t) ==
    /\ Stands(t, "prepared")
    /\ WriteJournal(t, "waiting_for_exit")
    /\ To(t, "waiting")
    /\ UNCHANGED <<table, acked, app, payload>>

\* wait_for_process_exit gives up after 30 seconds; a parent that exits after
\* its last look makes no difference.
ParentGone(t) ==
    /\ Stands(t, "waiting") /\ helper[t].parent = None
    /\ To(t, "staging")
    /\ UNCHANGED <<table, journal, acked, app, payload>>

ParentAlive(t) ==
    /\ Stands(t, "waiting")
    /\ WriteJournal(t, "aborted")
    /\ Ends(t)
    /\ UNCHANGED <<table, acked, app, payload>>

\* prepare_windows_swap puts the release in its directory, which must be new, and
\* then compares the pointer with the release that asked; the others only unpack
\* beside the payload.
StageCandidate(t) ==
    /\ Stands(t, "staging")
    /\ IF InstallKind = "payload"
       THEN To(t, "staged") /\ UNCHANGED payload
       ELSE /\ IF target[t] \notin unpacked /\ installed = from[t]
               THEN To(t, "staged")
               ELSE Ends(t)
            /\ unpacked' = unpacked \cup {target[t]}
            /\ UNCHANGED <<installed, backup, faults>>
    /\ UNCHANGED <<table, journal, acked, app>>

\* Swap::activate of a pointer.
SwitchPointer(t) ==
    /\ Stands(t, "staged") /\ InstallKind = "pointer"
    /\ \/ To(t, "activated") /\ installed' = target[t] /\ UNCHANGED faults
       \/ RenameMayFail /\ faults' = faults + 1 /\ Ends(t) /\ UNCHANGED installed
    /\ UNCHANGED <<table, journal, acked, app, backup, unpacked>>

\* Mutant of MoveAside: an older backup is kept.
MoveAsideKeepsBackup(t) ==
    /\ Stands(t, "staged") /\ InstallKind = "payload"
    /\ \/ /\ installed # None
          /\ To(t, "moving") /\ installed' = None
          /\ backup' = IF backup = None THEN installed ELSE backup
          /\ UNCHANGED faults
       \/ /\ installed = None
          /\ Ends(t) /\ backup' = None
          /\ UNCHANGED <<installed, faults>>
       \/ /\ installed # None /\ RenameMayFail
          /\ Ends(t) /\ backup' = None /\ faults' = faults + 1
          /\ UNCHANGED installed
    /\ UNCHANGED <<table, journal, acked, app, unpacked>>

\* Swap::activate of a payload: the old backup goes first, then the payload
\* becomes the backup, if there is one and the rename succeeds.
MoveAside(t) ==
    /\ Stands(t, "staged") /\ InstallKind = "payload"
    /\ \/ /\ installed # None
          /\ To(t, "moving") /\ backup' = installed /\ installed' = None
          /\ UNCHANGED faults
       \/ /\ installed = None
          /\ Ends(t) /\ backup' = None
          /\ UNCHANGED <<installed, faults>>
       \/ /\ installed # None /\ RenameMayFail
          /\ Ends(t) /\ backup' = None /\ faults' = faults + 1
          /\ UNCHANGED installed
    /\ UNCHANGED <<table, journal, acked, app, unpacked>>

\* Mutant of MoveIn: a candidate that cannot move in leaves the backup aside.
MoveInUnrestored(t) ==
    /\ Stands(t, "moving")
    /\ \/ /\ To(t, "activated") /\ installed' = target[t]
          /\ UNCHANGED faults
       \/ /\ RenameMayFail
          /\ Ends(t) /\ faults' = faults + 1
          /\ UNCHANGED installed
    /\ UNCHANGED <<table, journal, acked, app, backup, unpacked>>

\* The candidate moves in; if that fails the backup moves back, and nobody asks
\* whether it did.
MoveIn(t) ==
    /\ Stands(t, "moving")
    /\ \/ /\ To(t, "activated") /\ installed' = target[t]
          /\ UNCHANGED <<backup, faults>>
       \/ /\ RenameMayFail
          /\ Ends(t) /\ installed' = backup /\ backup' = None /\ faults' = faults + 1
       \/ /\ faults + 2 <= RenameFaults
          /\ Ends(t) /\ faults' = faults + 2
          /\ UNCHANGED <<installed, backup>>
    /\ UNCHANGED <<table, journal, acked, app, unpacked>>

AnnounceSwap(t) ==
    /\ Stands(t, "activated")
    /\ WriteJournal(t, "swapped")
    /\ To(t, "swapped")
    /\ UNCHANGED <<table, acked, app, payload>>

\* launch_candidate; its error leaves apply at once, with the swap done.
LaunchCandidate(t) ==
    /\ Stands(t, "swapped")
    /\ \/ \E a \in Apps :
             /\ Off(a)
             /\ app' = [app EXCEPT ![a] = Started(installed, t)]
             /\ helper' = [helper EXCEPT ![t].pc = "started", ![t].child = a]
             /\ UNCHANGED lock
       \/ "launch_fails" \in Faults /\ Ends(t) /\ UNCHANGED app
    /\ UNCHANGED <<table, journal, acked, payload>>

AnnounceLaunch(t) ==
    /\ Stands(t, "started")
    /\ WriteJournal(t, "launched")
    /\ To(t, "health")
    /\ UNCHANGED <<table, acked, app, payload>>

\* Mutant of SeeHealth: a candidate that runs is healthy.
SeeRunning(t) ==
    /\ Stands(t, "health") /\ helper[t].child # None
    /\ WriteJournal(t, "healthy")
    /\ To(t, "healthy")
    /\ UNCHANGED <<table, acked, app, payload>>

SeeHealth(t) ==
    /\ Stands(t, "health") /\ t \in acked
    /\ WriteJournal(t, "healthy")
    /\ To(t, "healthy")
    /\ UNCHANGED <<table, acked, app, payload>>

Commit(t) ==
    /\ Stands(t, "healthy")
    /\ WriteJournal(t, "committed")
    /\ Ends(t)
    /\ UNCHANGED <<table, acked, app, payload>>

\* The candidate has exited or 60 seconds have passed, an acknowledgement after
\* the last look included: the candidate is killed.
HealthTimeout(t) ==
    /\ Stands(t, "health")
    /\ LET child == helper[t].child
       IN  /\ app' = IF child = None THEN app ELSE [app EXCEPT ![child] = NoApp]
           /\ helper' = [IF child = None THEN helper ELSE Without(child)
                            EXCEPT ![t].pc = "rolling"]
    /\ UNCHANGED <<table, journal, acked, lock, payload>>

\* Swap::rollback: the pointer is written back, or the candidate goes to
\* quarantine and the backup moves in.
RollbackFailed(t) ==
    /\ WriteJournal(t, "rollback_failed")
    /\ Ends(t)

Rollback(t) ==
    /\ Stands(t, "rolling")
    /\ \/ /\ InstallKind = "pointer"
          /\ To(t, "restored") /\ installed' = from[t]
          /\ UNCHANGED <<journal, faults>>
       \/ /\ InstallKind = "payload"
          /\ To(t, "restoring") /\ installed' = None
          /\ UNCHANGED <<journal, faults>>
       \/ /\ RenameMayFail
          /\ RollbackFailed(t) /\ faults' = faults + 1
          /\ UNCHANGED installed
    /\ UNCHANGED <<table, acked, app, backup, unpacked>>

MoveBack(t) ==
    /\ Stands(t, "restoring")
    /\ \/ /\ backup # None
          /\ To(t, "restored") /\ installed' = backup /\ backup' = None
          /\ UNCHANGED <<journal, faults>>
       \/ /\ backup = None
          /\ RollbackFailed(t)
          /\ UNCHANGED <<installed, backup, faults>>
       \/ /\ backup # None /\ RenameMayFail
          /\ RollbackFailed(t) /\ faults' = faults + 1
          /\ UNCHANGED <<installed, backup>>
    /\ UNCHANGED <<table, acked, app, unpacked>>

AnnounceRollback(t) ==
    /\ Stands(t, "restored")
    /\ WriteJournal(t, "rolled_back")
    /\ To(t, "relaunching")
    /\ UNCHANGED <<table, acked, app, payload>>

\* launch_previous, whose error is ignored.
LaunchPrevious(t) ==
    /\ Stands(t, "relaunching")
    /\ Ends(t)
    /\ \/ \E a \in Apps : Off(a) /\ app' = [app EXCEPT ![a] = Started(installed, None)]
       \/ "launch_fails" \in Faults /\ UNCHANGED app
    /\ UNCHANGED <<table, journal, acked, payload>>

\* The helper is killed, or a write, an unpacking or another call it makes fails
\* and apply returns the error: nothing is undone and nobody takes over.
HelperDies(t) ==
    /\ ~Stands(t, "none") /\ "helper_dies" \in Faults
    /\ Ends(t)
    /\ UNCHANGED <<table, journal, acked, app, payload>>

-----------------------------------------------------------------------------

Reconciles(a) ==
    \/ ListJournals(a) \/ RecordJournal(a) \/ Reconciled(a) \/ PollsOver(a)
    \/ \E t \in Txns : ReadJournal(a, t)

Instance(a) ==
    \/ UserStarts(a) \/ Reconciles(a) \/ AcknowledgeUiReady(a) \/ AppEnds(a)
    \/ \E t \in Txns, r \in Releases : PrepareUpdate(a, t, r)
    \/ DownloadUpdate(a) \/ SpawnHelper(a) \/ RecordApplying(a) \/ AppExits(a)

Apply(t) ==
    \/ CheckParent(t) \/ TakeLock(t) \/ AnnounceWait(t) \/ ParentGone(t) \/ ParentAlive(t)
    \/ StageCandidate(t) \/ SwitchPointer(t) \/ MoveAside(t) \/ MoveIn(t) \/ AnnounceSwap(t)
    \/ LaunchCandidate(t) \/ AnnounceLaunch(t) \/ SeeHealth(t) \/ Commit(t) \/ HealthTimeout(t)
    \/ Rollback(t) \/ MoveBack(t) \/ AnnounceRollback(t) \/ LaunchPrevious(t)

Next ==
    \/ \E a \in Apps : Instance(a)
    \/ \E t \in Txns : Apply(t) \/ HelperDies(t)

Spec == Init /\ [][Next]_vars

=============================================================================
