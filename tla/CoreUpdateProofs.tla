--------------------------- MODULE CoreUpdateProofs ---------------------------
(***************************************************************************)
(* Proofs about the update of the program, for any number of instances,    *)
(* transactions and releases, both kinds of installation, patient and      *)
(* hasty users, and any faults unless a theorem says otherwise.            *)
(***************************************************************************)
EXTENDS CoreUpdateProps, TLAPS

--------------------------------------------------------------------------------
(* Types.                                                                   *)

\* The records of an instance that is off, of one that was just started and of a
\* helper that is not there.
LEMMA RecordsTyped ==
    /\ NoApp \in AppRecord
    /\ NoHelper \in HelperRecord
    /\ \A r \in Releases \cup {None}, t \in Txns \cup {None} : Started(r, t) \in AppRecord
<1>1. 0 \in 0..Polls
    BY SwitchesAssumption
<1>2. NoApp \in AppRecord
    BY <1>1 DEF NoApp, AppRecord, AppPC
<1>3. NoHelper \in HelperRecord
    BY DEF NoHelper, HelperRecord, HelperPC
<1>4. \A r \in Releases \cup {None}, t \in Txns \cup {None} : Started(r, t) \in AppRecord
    BY <1>2 DEF Started, AppRecord, AppPC
<1>5. QED
    BY <1>2, <1>3, <1>4

\* What is left of the helpers when an instance ends: all but its name.
LEMMA WithoutTyped ==
    ASSUME TypeOK, NEW a \in Apps
    PROVE  /\ Without(a) \in [Txns -> HelperRecord]
           /\ \A t \in Txns : Without(a)[t].pc = helper[t].pc
BY DEF TypeOK, Without, HelperRecord

\* A helper that goes on ...
LEMMA ToTyped ==
    ASSUME TypeOK, NEW t \in Txns, NEW pc \in HelperPC, To(t, pc)
    PROVE  helper' \in [Txns -> HelperRecord] /\ lock' \in Txns \cup {None}
BY DEF TypeOK, To, HelperRecord

\* ... and one that ends.
LEMMA EndsTyped ==
    ASSUME TypeOK, NEW t \in Txns, Ends(t)
    PROVE  helper' \in [Txns -> HelperRecord] /\ lock' \in Txns \cup {None}
BY RecordsTyped DEF TypeOK, Ends, HelperRecord

\* A helper writes its journal.
LEMMA JournalTyped ==
    ASSUME TypeOK, NEW t \in Txns, NEW s \in TransactionState, WriteJournal(t, s)
    PROVE  journal' \in [Txns -> TransactionState \cup {None}]
BY DEF TypeOK, WriteJournal

\* The first state.
LEMMA TypedInit == Init => TypeOK
<1> SUFFICES ASSUME Init PROVE TypeOK
    OBVIOUS
<1>1. app \in [Apps -> AppRecord] /\ helper \in [Txns -> HelperRecord]
    BY RecordsTyped DEF Init
<1>2. QED
    BY <1>1, ReleasesAssumption, SwitchesAssumption
       DEF Init, TypeOK

\* The start and the reconciliation of an instance, and its end.
LEMMA TypedInstance ==
    ASSUME TypeOK, NEW a \in Apps,
           \/ UserStarts(a) \/ Reconciles(a) \/ AcknowledgeUiReady(a) \/ AppEnds(a)
           \/ AppExits(a)
    PROVE  TypeOK'
<1> USE DEF table, payload
<1>t. /\ app \in [Apps -> AppRecord] /\ helper \in [Txns -> HelperRecord]
      /\ db \in [Txns -> UpdateState \cup {None}] /\ acked \subseteq Txns
      /\ installed \in Releases \cup {None}
    BY DEF TypeOK
<1>c. ASSUME app' \in [Apps -> AppRecord], helper' \in [Txns -> HelperRecord],
             db' \in [Txns -> UpdateState \cup {None}], acked' \subseteq Txns,
             UNCHANGED <<journal, target, from, lock, payload>>
      PROVE  TypeOK'
    BY <1>c DEF TypeOK
<1>a. ASSUME NEW r \in AppRecord, app' = [app EXCEPT ![a] = r]
      PROVE  app' \in [Apps -> AppRecord]
    BY <1>t, <1>a
<1>p. /\ {"reconciling", "up", "idle", "polling", "viewing"} \subseteq AppPC
      /\ Polls \in 0..Polls /\ 0 \in 0..Polls /\ Polls \in Nat
    BY SwitchesAssumption DEF AppPC
<1>1. CASE UserStarts(a)
    BY <1>1, <1>a, <1>c, <1>t, RecordsTyped DEF UserStarts
<1>2. CASE ListJournals(a)
    <2> DEFINE todo == {t \in Txns : db[t] # None /\ db[t] \notin Settled}
               pc == IF app[a].pc = "booting" THEN "reconciling" ELSE app[a].pc
               polls == IF app[a].pc = "polling" THEN app[a].polls - 1 ELSE app[a].polls
    <2>3. todo \in SUBSET Txns /\ pc \in AppPC /\ polls \in 0..Polls
        <3>1. app[a].pc \in AppPC /\ app[a].polls \in 0..Polls
            BY <1>t DEF AppRecord
        <3>2. app[a].pc = "polling" => app[a].polls > 0
            BY <1>2 DEF ListJournals
        <3>3. polls \in 0..Polls
            BY <3>1, <3>2, <1>p
        <3>4. QED
            BY <3>1, <3>3, <1>p
    <2>4. [app[a] EXCEPT !.todo = todo, !.pc = pc, !.polls = polls] \in AppRecord
        BY <1>t, <2>3 DEF AppRecord
    <2>1. app' \in [Apps -> AppRecord]
        BY <1>2, <1>t, <2>4 DEF ListJournals
    <2>2. QED
        BY <1>2, <1>c, <1>t, <2>1 DEF ListJournals
<1>3. ASSUME NEW t \in Txns, ReadJournal(a, t)
      PROVE  TypeOK'
    <2>1. journal[t] # None => [txn |-> t, state |-> journal[t]]
                                   \in [txn : Txns, state : TransactionState]
        BY DEF TypeOK
    <2>2. /\ [app[a] EXCEPT !.todo = @ \ {t}] \in AppRecord
          /\ journal[t] # None =>
                [app[a] EXCEPT !.seen = [txn |-> t, state |-> journal[t]]] \in AppRecord
        BY <1>t, <2>1 DEF AppRecord
    <2>4. app' \in [Apps -> AppRecord]
        BY <1>3, <1>t, <2>2 DEF ReadJournal
    <2>3. QED
        BY <1>3, <1>c, <1>t, <2>4 DEF ReadJournal
<1>4. CASE RecordJournal(a)
    <2>1. app[a].seen \in [txn : Txns, state : TransactionState]
        BY <1>4, <1>t DEF RecordJournal, AppRecord
    <2>2. db' \in [Txns -> UpdateState \cup {None}]
        BY <1>4, <1>t, <2>1 DEF RecordJournal, UpdateState
    <2>3. helper' \in [Txns -> HelperRecord]
        BY <1>4, <1>t, WithoutTyped DEF RecordJournal, Refused
    <2>4. app' \in [Apps -> AppRecord]
        BY <1>4, <1>t, <1>p, RecordsTyped DEF RecordJournal, Refused, AppRecord
    <2>5. QED
        BY <1>4, <1>c, <1>t, <2>2, <2>3, <2>4 DEF RecordJournal
<1>5. CASE Reconciled(a) \/ PollsOver(a)
    <2>1. app' \in [Apps -> AppRecord]
        BY <1>5, <1>t, <1>p DEF Reconciled, PollsOver, AppRecord
    <2>2. QED
        BY <1>5, <1>c, <1>t, <2>1 DEF Reconciled, PollsOver
<1>6. CASE AcknowledgeUiReady(a)
    <2>1. app[a].cand \in Txns \cup {None}
        BY <1>t DEF AppRecord
    <2>2. app' \in [Apps -> AppRecord]
        BY <1>6, <1>t, <1>p DEF AcknowledgeUiReady, AppRecord
    <2>3. QED
        BY <1>6, <1>c, <1>t, <2>1, <2>2 DEF AcknowledgeUiReady
<1>7. CASE AppEnds(a) \/ AppExits(a)
    BY <1>7, <1>a, <1>c, <1>t, RecordsTyped, WithoutTyped DEF AppEnds, AppExits
<1>8. QED
    BY <1>1, <1>2, <1>3, <1>4, <1>5, <1>6, <1>7 DEF Reconciles

\* The update commands.
LEMMA TypedCommand ==
    ASSUME TypeOK, NEW a \in Apps,
           \/ \E t \in Txns, r \in Releases : PrepareUpdate(a, t, r)
           \/ DownloadUpdate(a) \/ SpawnHelper(a) \/ RecordApplying(a)
    PROVE  TypeOK'
<1> USE DEF table, payload
<1>t. /\ app \in [Apps -> AppRecord] /\ helper \in [Txns -> HelperRecord]
      /\ db \in [Txns -> UpdateState \cup {None}]
    BY DEF TypeOK
<1>g. \A pc \in AppPC : Goes(a, pc) => app' \in [Apps -> AppRecord]
    BY <1>t DEF Goes, AppRecord
<1>p. /\ {"prepared", "downloaded", "idle", "spawned", "exiting"} \subseteq AppPC
      /\ {"prepared", "downloaded", "download_failed", "applying"} \subseteq UpdateState
      /\ "spawned" \in HelperPC
    BY DEF AppPC, UpdateState, TransactionState, HelperPC
<1>1. ASSUME NEW t \in Txns, NEW r \in Releases, PrepareUpdate(a, t, r)
      PROVE  TypeOK'
    <2>r. [app[a] EXCEPT !.pc = "prepared", !.txn = t] \in AppRecord
        BY <1>t, <1>p DEF AppRecord
    <2>1. app' \in [Apps -> AppRecord]
        BY <1>1, <1>t, <2>r DEF PrepareUpdate
    <2>2. app[a].release \in Releases \cup {None}
        BY <1>t DEF AppRecord
    <2>3. /\ db' \in [Txns -> UpdateState \cup {None}]
          /\ target' \in [Txns -> Releases \cup {None}]
          /\ from' \in [Txns -> Releases \cup {None}]
        BY <1>1, <1>p, <2>2 DEF PrepareUpdate, TypeOK
    <2>4. QED
        BY <1>1, <1>t, <2>1, <2>3 DEF PrepareUpdate, TypeOK, AppRecord
<1>2. CASE DownloadUpdate(a)
    <2>1. app' \in [Apps -> AppRecord]
        BY <1>2, <1>g, <1>p DEF DownloadUpdate
    <2>2. db' \in [Txns -> UpdateState \cup {None}]
        BY <1>2, <1>p, <1>t DEF DownloadUpdate
    <2>3. QED
        BY <1>2, <2>1, <2>2 DEF DownloadUpdate, TypeOK, AppRecord
<1>3. CASE SpawnHelper(a)
    <2>1. app' \in [Apps -> AppRecord]
        BY <1>3, <1>g, <1>p DEF SpawnHelper
    <2>2. helper' \in [Txns -> HelperRecord]
        BY <1>3, <1>p, <1>t DEF SpawnHelper, HelperRecord
    <2>3. QED
        BY <1>3, <2>1, <2>2 DEF SpawnHelper, TypeOK
<1>4. CASE RecordApplying(a)
    <2>1. app' \in [Apps -> AppRecord]
        BY <1>4, <1>g, <1>p DEF RecordApplying
    <2>2. db' \in [Txns -> UpdateState \cup {None}]
        BY <1>4, <1>p, <1>t DEF RecordApplying
    <2>3. QED
        BY <1>4, <2>1, <2>2 DEF RecordApplying, TypeOK, AppRecord
<1>5. QED
    BY <1>1, <1>2, <1>3, <1>4

\* The helper.
LEMMA TypedHelper ==
    ASSUME TypeOK, NEW t \in Txns, Apply(t) \/ HelperDies(t), target[t] \in Releases
    PROVE  TypeOK'
<1> USE DEF table, payload
<1>t. /\ app \in [Apps -> AppRecord] /\ helper \in [Txns -> HelperRecord]
      /\ journal \in [Txns -> TransactionState \cup {None}]
      /\ target[t] \in Releases \cup {None} /\ from[t] \in Releases \cup {None}
      /\ installed \in Releases \cup {None} /\ backup \in Releases \cup {None}
      /\ lock \in Txns \cup {None} /\ faults \in 0..RenameFaults
    BY DEF TypeOK
<1>c. ASSUME app' \in [Apps -> AppRecord], helper' \in [Txns -> HelperRecord],
             journal' \in [Txns -> TransactionState \cup {None}],
             lock' \in Txns \cup {None}, installed' \in Releases \cup {None},
             backup' \in Releases \cup {None},
             unpacked' \subseteq Releases, faults' \in 0..RenameFaults,
             UNCHANGED <<table, acked>>
      PROVE  TypeOK'
    BY <1>c DEF TypeOK
<1>h. \A pc \in HelperPC : To(t, pc) =>
          helper' \in [Txns -> HelperRecord] /\ lock' \in Txns \cup {None}
    BY ToTyped
<1>e. Ends(t) => helper' \in [Txns -> HelperRecord] /\ lock' \in Txns \cup {None}
    BY EndsTyped
<1>j. \A s \in TransactionState : WriteJournal(t, s) =>
          journal' \in [Txns -> TransactionState \cup {None}]
    BY JournalTyped
<1>p. /\ HelperPC \ {"none", "spawned"} =
             {"checked", "prepared", "waiting", "staging", "staged", "moving", "activated",
              "swapped", "started", "health", "healthy", "rolling", "restoring",
              "restored", "relaunching"}
      /\ {"prepared", "waiting_for_exit", "swapped", "launched", "healthy", "committed",
          "rolled_back", "aborted", "rollback_failed"} \subseteq TransactionState
    BY DEF HelperPC, TransactionState
<1>f. /\ RenameMayFail => faults + 1 \in 0..RenameFaults
      /\ faults + 2 <= RenameFaults => faults + 2 \in 0..RenameFaults
    BY <1>t, SwitchesAssumption DEF RenameMayFail
<1>u. unpacked \subseteq Releases
    BY DEF TypeOK
<1>0. CASE TakeLock(t)
    <2>1. [helper EXCEPT ![t].pc = "prepared"] \in [Txns -> HelperRecord]
        BY <1>t, <1>p DEF HelperRecord
    <2>2. QED
        BY <1>0, <1>c, <1>e, <1>j, <1>p, <1>t, <1>u, <2>1 DEF TakeLock
<1>1. CASE \/ CheckParent(t) \/ AnnounceWait(t) \/ ParentGone(t)
            \/ ParentAlive(t)
    BY <1>1, <1>c, <1>e, <1>h, <1>j, <1>p, <1>t, <1>u
       DEF CheckParent, AnnounceWait, ParentGone, ParentAlive
<1>2. CASE StageCandidate(t)
    BY <1>2, <1>c, <1>e, <1>h, <1>p, <1>t, <1>u DEF StageCandidate
<1>3. CASE SwitchPointer(t) \/ MoveAside(t)
    BY <1>3, <1>c, <1>e, <1>f, <1>h, <1>p, <1>t, <1>u DEF SwitchPointer, MoveAside
<1>4. CASE MoveIn(t)
    BY <1>4, <1>c, <1>e, <1>f, <1>h, <1>p, <1>t, <1>u DEF MoveIn
<1>5. CASE AnnounceSwap(t) \/ AnnounceLaunch(t) \/ SeeHealth(t) \/ Commit(t)
            \/ AnnounceRollback(t)
    BY <1>5, <1>c, <1>e, <1>h, <1>j, <1>p, <1>t, <1>u
       DEF AnnounceSwap, AnnounceLaunch, SeeHealth, Commit, AnnounceRollback
<1>6. CASE LaunchCandidate(t)
    <2>1. CASE Ends(t) /\ UNCHANGED app
        BY <1>6, <2>1, <1>c, <1>e, <1>t, <1>u DEF LaunchCandidate
    <2>2. ASSUME NEW a \in Apps, app' = [app EXCEPT ![a] = Started(installed, t)],
                 helper' = [helper EXCEPT ![t].pc = "started", ![t].child = a], UNCHANGED lock
          PROVE  TypeOK'
        <3>1. [helper[t] EXCEPT !.pc = "started", !.child = a] \in HelperRecord
            <4>1. helper[t] \in HelperRecord /\ "started" \in HelperPC
                BY <1>t DEF HelperPC
            <4>2. QED
                BY <4>1 DEF HelperRecord
        <3>2. helper' \in [Txns -> HelperRecord]
            BY <2>2, <3>1, <1>t
        <3>3. app' \in [Apps -> AppRecord]
            BY <2>2, <1>t, RecordsTyped
        <3>4. QED
            BY <1>6, <2>2, <3>2, <3>3, <1>c, <1>t, <1>u DEF LaunchCandidate
    <2>3. QED
        BY <1>6, <2>1, <2>2 DEF LaunchCandidate
<1>7. CASE HealthTimeout(t)
    <2>1. helper[t].child \in Apps \cup {None}
        BY <1>t DEF HelperRecord
    <2>2. app' \in [Apps -> AppRecord]
        BY <1>7, <1>t, <2>1, RecordsTyped DEF HealthTimeout
    <2>3. \A h \in [Txns -> HelperRecord] :
              [h EXCEPT ![t].pc = "rolling"] \in [Txns -> HelperRecord]
        BY <1>p DEF HelperRecord
    <2>4. helper' \in [Txns -> HelperRecord]
        BY <1>7, <1>t, <2>1, <2>3, WithoutTyped DEF HealthTimeout
    <2>5. QED
        BY <1>7, <1>c, <1>t, <1>u, <2>2, <2>4 DEF HealthTimeout
<1>8. CASE Rollback(t) \/ MoveBack(t)
    BY <1>8, <1>c, <1>e, <1>f, <1>h, <1>j, <1>p, <1>t, <1>u
       DEF Rollback, MoveBack, RollbackFailed
<1>9. CASE LaunchPrevious(t)
    BY <1>9, <1>c, <1>e, <1>t, <1>u, RecordsTyped DEF LaunchPrevious
<1>10. CASE HelperDies(t)
    BY <1>10, <1>c, <1>e, <1>t, <1>u DEF HelperDies
<1>11. QED
    BY <1>0, <1>1, <1>2, <1>3, <1>4, <1>5, <1>6, <1>7, <1>8, <1>9, <1>10 DEF Apply

--------------------------------------------------------------------------------
(* The inductive invariant.                                                 *)

Driving == {"prepared", "downloaded"}
Mutable == {"waiting_for_exit", "swapped", "launched", "healthy"}
Swapped == {"activated", "swapped", "started", "health", "healthy", "rolling"}
Locking == HelperPC \ {"none", "spawned", "checked"}

\* Whoever works on the payload holds update.lock.
LockHeld == \A t \in Txns : helper[t].pc \in Locking => lock = t

\* Transaction t has its releases, the one to install newer than the one that asked.
Newer(t) == target[t] \in Releases /\ from[t] \in Releases /\ from[t] < target[t]

\* A transaction that is prepared or downloaded has its releases, one instance that
\* sees to it, and no helper and no journal yet.
Drivers ==
    /\ \A a \in Apps : app[a].pc \in Driving =>
          /\ app[a].txn \in Txns /\ db[app[a].txn] # None
          /\ Newer(app[a].txn)
          /\ helper[app[a].txn].pc = "none" /\ journal[app[a].txn] = None
    /\ \A a, b \in Apps :
          app[a].pc \in Driving /\ app[b].pc \in Driving /\ app[a].txn = app[b].txn => a = b

\* An identifier that is not in the table has been used by nobody.
Untouched == \A t \in Txns : db[t] = None => helper[t].pc = "none" /\ journal[t] = None

\* The helpers and the instances that run have their releases.
Known ==
    /\ \A t \in Txns : helper[t].pc # "none" => Newer(t)
    /\ \A a \in Apps : app[a].pc # "off" => app[a].release \in Releases

\* What the journal of t tells of where its helper stands.
Told(t) ==
    /\ helper[t].pc \in {"spawned", "checked"} => journal[t] = None
    /\ helper[t].pc = "prepared" => journal[t] = "prepared"
    /\ helper[t].pc \in {"waiting", "staging", "staged", "moving", "activated"} =>
          journal[t] = "waiting_for_exit"
    /\ helper[t].pc \in {"swapped", "started"} => journal[t] = "swapped"
    /\ helper[t].pc \in {"health", "rolling", "restoring", "restored"} =>
          journal[t] = "launched"
    /\ helper[t].pc = "healthy" => journal[t] = "healthy" /\ t \in acked
    /\ journal[t] \in {"committed", "rollback_failed"} => helper[t].pc = "none"

\* The helper of t ended with neither a verdict nor a repair.
MayLeave == Faults \cap {"helper_dies", "launch_fails"} # {}
Left(t) == MayLeave /\ helper[t].pc = "none" /\ journal[t] \in Mutable

\* What may be at rest: the first release, an acknowledged one, one that was left,
\* and any if a rollback failed.
Proven == {r \in Releases :
    \/ r = Base
    \/ \E t \in Txns : journal[t] = "committed" /\ t \in acked /\ target[t] = r
    \/ \E t \in Txns : Left(t) /\ target[t] = r
    \/ \E t \in Txns : journal[t] = "rollback_failed"}

\* Between its two renames the helper of t has a proven release aside, and until
\* its verdict it knows the way back to one.
Way(t) ==
    /\ InstallKind = "pointer" => helper[t].pc \notin {"moving", "restoring"}
    /\ InstallKind = "pointer" /\ helper[t].pc = "staged" => installed = from[t]
    /\ helper[t].pc \in {"moving", "restoring"} => installed = None /\ backup \in Proven
    /\ helper[t].pc \in Swapped =>
          /\ installed = target[t]
          /\ IF InstallKind = "pointer" THEN from[t] \in Proven ELSE backup \in Proven
    /\ helper[t].pc \in {"restored", "relaunching"} => installed # None

\* Outside a swap only a proven release is installed.
AtRest ==
    (\A t \in Txns : helper[t].pc \notin Swapped) => installed = None \/ installed \in Proven

\* If nothing is installed, a helper is between two renames or a rollback failed.
Gone ==
    "helper_dies" \notin Faults /\ installed = None /\ faults < 2 =>
        \/ \E t \in Txns : helper[t].pc \in {"moving", "restoring"}
        \/ \E t \in Txns : journal[t] = "rollback_failed"

IInv ==
    /\ TypeOK /\ LockHeld /\ Drivers /\ Untouched /\ Known
    /\ \A t \in Txns : Told(t) /\ Way(t)
    /\ AtRest /\ Gone

--------------------------------------------------------------------------------
(* The steps of an instance.                                                *)

\* What every step of an instance leaves alone: of the helpers only one that was not
\* there may appear, and of the transactions only an unused one gets its releases.
Calm ==
    /\ UNCHANGED <<journal, lock, payload>>
    /\ acked \subseteq acked'
    /\ \A t \in Txns :
          \/ helper'[t].pc = helper[t].pc
          \/ helper[t].pc = "none" /\ journal[t] = None /\ helper'[t].pc = "spawned"
    /\ \A t \in Txns : db[t] # None => target'[t] = target[t] /\ from'[t] = from[t]

LEMMA InstanceIsCalm ==
    ASSUME TypeOK, Drivers, NEW a \in Apps, Instance(a)
    PROVE  Calm
<1> USE DEF Calm, table
<1>t. /\ acked \subseteq Txns /\ helper \in [Txns -> HelperRecord]
      /\ target \in [Txns -> Releases \cup {None}] /\ from \in [Txns -> Releases \cup {None}]
    BY DEF TypeOK
<1>1. CASE UserStarts(a) \/ Reconciles(a)
    BY <1>1, WithoutTyped
       DEF UserStarts, Reconciles, ListJournals, ReadJournal, RecordJournal, Refused,
           Reconciled, PollsOver
<1>2. CASE AcknowledgeUiReady(a) \/ AppEnds(a) \/ AppExits(a)
    BY <1>2, WithoutTyped DEF AcknowledgeUiReady, AppEnds, AppExits
<1>3. ASSUME NEW t \in Txns, NEW r \in Releases, PrepareUpdate(a, t, r)
      PROVE  Calm
    BY <1>3, <1>t DEF PrepareUpdate, Fresh
<1>4. CASE DownloadUpdate(a) \/ RecordApplying(a)
    BY <1>4 DEF DownloadUpdate, RecordApplying
<1>5. CASE SpawnHelper(a)
    <2>1. app[a].pc = "downloaded"
        BY <1>5 DEF SpawnHelper, At
    <2>2. app[a].txn \in Txns /\ helper[app[a].txn].pc = "none" /\ journal[app[a].txn] = None
        BY <2>1 DEF Drivers, Driving
    <2>3. QED
        BY <1>5, <1>t, <2>2 DEF SpawnHelper, HelperRecord
<1>6. QED
    BY <1>1, <1>2, <1>3, <1>4, <1>5 DEF Instance

\* Proven releases stay proven if no transaction with a journal and no helper is touched.
LEMMA ProvenStays ==
    ASSUME acked \subseteq acked', \A t \in Txns : Told(t),
           \A t \in Txns : helper[t].pc = "none" /\ journal[t] # None =>
               /\ helper'[t].pc = "none" /\ journal'[t] = journal[t]
               /\ target'[t] = target[t]
    PROVE  Proven \subseteq Proven'
<1>1. None \notin {"committed", "rollback_failed"} \cup Mutable
    BY NoneAssumption DEF UpdateState, TransactionState, Mutable
<1>2. ASSUME NEW t \in Txns
      PROVE  journal[t] \in {"committed", "rollback_failed"} =>
                 journal'[t] = journal[t] /\ target'[t] = target[t]
    BY <1>1 DEF Told
<1>3. ASSUME NEW t \in Txns
      PROVE  Left(t) => Left(t)' /\ target'[t] = target[t]
    BY <1>1 DEF Left, MayLeave
<1>4. QED
    BY <1>2, <1>3 DEF Proven

\* The payload, its lock and what the journals say of it survive a calm step.
LEMMA CalmKeeps ==
    ASSUME IInv, Calm
    PROVE  LockHeld' /\ (\A t \in Txns : Told(t)' /\ Way(t)') /\ AtRest' /\ Gone'
<1> USE DEF IInv
<1>u. \A t \in Txns : helper[t].pc # "none" \/ journal[t] # None => db[t] # None
    BY DEF Untouched
<1>p. Proven \subseteq Proven'
    BY <1>u, ProvenStays DEF Calm
<1>c. \A t \in Txns : helper'[t].pc = helper[t].pc \/ helper'[t].pc = "spawned"
    BY DEF Calm
<1>1. LockHeld'
    BY <1>c DEF Calm, LockHeld, Locking
<1>2. ASSUME NEW t \in Txns PROVE Told(t)'
    <2>1. None \notin {"committed", "rollback_failed"}
        BY NoneAssumption DEF UpdateState, TransactionState
    <2>2. QED
        BY <2>1 DEF Calm, Told
<1>3. ASSUME NEW t \in Txns PROVE Way(t)'
    BY <1>c, <1>p, <1>u DEF Calm, Way, Swapped, payload
<1>4. AtRest'
    BY <1>p DEF Calm, AtRest, Swapped, payload
<1>5. Gone'
    BY DEF Calm, Gone, payload
<1>6. QED
    BY <1>1, <1>2, <1>3, <1>4, <1>5

\* How a step moves the instances: none comes to an update but the one that prepares it,
\* and none runs without a release.
AppsMove ==
    \A a \in Apps :
        /\ app'[a].pc \in Driving => app[a].pc \in Driving /\ app'[a].txn = app[a].txn
        /\ app'[a].pc # "off" => app'[a].release \in Releases

\* All steps of an instance but the first and the last of an update command.
LEMMA AppsMoveOn ==
    ASSUME TypeOK, Known, NEW a \in Apps,
           \/ UserStarts(a) \/ Reconciles(a) \/ AcknowledgeUiReady(a) \/ AppEnds(a)
           \/ DownloadUpdate(a) \/ SpawnHelper(a) \/ RecordApplying(a) \/ AppExits(a)
    PROVE  AppsMove
<1> USE DEF AppsMove, Driving
<1>t. app \in [Apps -> AppRecord] /\ installed \in Releases \cup {None}
    BY DEF TypeOK
<1>k. \A b \in Apps : app[b].pc # "off" => app[b].release \in Releases
    BY DEF Known
<1>o. ASSUME NEW r, app' = [app EXCEPT ![a] = r], r.pc \notin Driving,
             r.pc # "off" => r.release \in Releases
      PROVE  AppsMove
    BY <1>o, <1>t, <1>k
<1>s. \A r, t : Started(r, t).pc = "booting" /\ Started(r, t).release = r
    BY DEF Started, NoApp
<1>e. NoApp.pc = "off"
    BY DEF NoApp
<1>1. CASE UserStarts(a) \/ AppEnds(a) \/ AppExits(a)
    BY <1>1, <1>t, <1>o, <1>s, <1>e DEF UserStarts, AppEnds, AppExits
<1>2. CASE Reconciles(a)
    <2>1. CASE ListJournals(a)
        <3> DEFINE r == [app[a] EXCEPT
                !.todo = {t \in Txns : db[t] # None /\ db[t] \notin Settled},
                !.pc = IF @ = "booting" THEN "reconciling" ELSE @,
                !.polls = IF app[a].pc = "polling" THEN @ - 1 ELSE @]
        <3>1. app[a].pc \in {"booting", "polling"}
            BY <2>1 DEF ListJournals
        <3>2. r.pc \in {"reconciling", "polling"} /\ r.release = app[a].release
            BY <1>t, <3>1 DEF AppRecord
        <3>3. app' = [app EXCEPT ![a] = r]
            BY <2>1, <1>t DEF ListJournals
        <3>4. QED
            BY <1>o, <1>k, <3>1, <3>2, <3>3
    <2>2. ASSUME NEW t \in Txns, ReadJournal(a, t)
          PROVE  AppsMove
        BY <2>2, <1>t, <1>k DEF ReadJournal, AppRecord
    <2>3. CASE RecordJournal(a)
        BY <2>3, <1>t, <1>k DEF RecordJournal, Refused, NoApp, AppRecord
    <2>4. CASE Reconciled(a) \/ PollsOver(a)
        BY <2>4, <1>t, <1>k DEF Reconciled, PollsOver, AppRecord
    <2>5. QED
        BY <1>2, <2>1, <2>2, <2>3, <2>4 DEF Reconciles
<1>3. CASE AcknowledgeUiReady(a)
    BY <1>3, <1>t, <1>k DEF AcknowledgeUiReady, AppRecord
<1>4. CASE DownloadUpdate(a)
    BY <1>4, <1>t, <1>k DEF DownloadUpdate, At, Goes, AppRecord
<1>5. CASE SpawnHelper(a) \/ RecordApplying(a)
    BY <1>5, <1>t, <1>k DEF SpawnHelper, RecordApplying, At, Goes, AppRecord
<1>6. QED
    BY <1>1, <1>2, <1>3, <1>4, <1>5

\* A step that moves the instances so, forgets no row of the table, and starts no helper
\* but for a transaction whose instance leaves it.
LEMMA MoveKeeps ==
    ASSUME Drivers, Untouched, Known, AppsMove,
           \A t \in Txns : db[t] # None =>
               db'[t] # None /\ target'[t] = target[t] /\ from'[t] = from[t],
           \A t \in Txns : db[t] = None =>
               helper'[t].pc = helper[t].pc /\ journal'[t] = journal[t],
           \A t \in Txns : helper'[t].pc # "none" =>
               helper[t].pc # "none" \/ Newer(t),
           \A a \in Apps : app'[a].pc \in Driving =>
               /\ helper'[app[a].txn].pc = helper[app[a].txn].pc
               /\ journal'[app[a].txn] = journal[app[a].txn]
    PROVE  Drivers' /\ Untouched' /\ Known'
<1>1. Drivers'
    BY DEF Drivers, AppsMove, Newer
<1>2. Untouched'
    BY DEF Untouched
<1>3. Known'
    <2>1. \A t \in Txns : helper[t].pc # "none" => db[t] # None
        BY DEF Untouched
    <2>2. \A t \in Txns : helper'[t].pc # "none" => db[t] # None
        BY <2>1
    <2>3. QED
        BY <2>2 DEF Known, AppsMove, Newer
<1>4. QED
    BY <1>1, <1>2, <1>3

LEMMA InstanceKeeps ==
    ASSUME TypeOK, Drivers, Untouched, Known, NEW a \in Apps, Instance(a)
    PROVE  Drivers' /\ Untouched' /\ Known'
<1> USE DEF table
<1>t. /\ app \in [Apps -> AppRecord] /\ helper \in [Txns -> HelperRecord]
      /\ db \in [Txns -> UpdateState \cup {None}]
      /\ target \in [Txns -> Releases \cup {None}] /\ from \in [Txns -> Releases \cup {None}]
    BY DEF TypeOK
<1>n. None \notin TransactionState \cup {"prepared", "downloaded", "download_failed", "applying"}
    BY NoneAssumption DEF UpdateState, TransactionState
<1>c. ASSUME AppsMove, UNCHANGED <<journal, target, from>>,
             \A t \in Txns : helper'[t].pc = helper[t].pc,
             \A t \in Txns : db'[t] = db[t] \/ db'[t] # None
      PROVE  Drivers' /\ Untouched' /\ Known'
    <2>1. \A b \in Apps : app'[b].pc \in Driving => app[b].txn \in Txns
        BY <1>c DEF Drivers, AppsMove
    <2>2. QED
        BY <1>c, <2>1, MoveKeeps
<1>1. CASE UserStarts(a) \/ AcknowledgeUiReady(a) \/ AppEnds(a) \/ AppExits(a)
    <2>1. /\ UNCHANGED <<journal, table>>
          /\ \A t \in Txns : helper'[t].pc = helper[t].pc
        BY <1>1, WithoutTyped DEF UserStarts, AcknowledgeUiReady, AppEnds, AppExits
    <2>2. AppsMove
        BY <1>1, AppsMoveOn
    <2>3. QED
        BY <2>1, <2>2, <1>c
<1>2. CASE Reconciles(a)
    <2>1. UNCHANGED <<journal, target, from>>
        BY <1>2 DEF Reconciles, ListJournals, ReadJournal, RecordJournal, Reconciled, PollsOver
    <2>2. \A t \in Txns : helper'[t].pc = helper[t].pc
        BY <1>2, WithoutTyped
           DEF Reconciles, ListJournals, ReadJournal, RecordJournal, Refused, Reconciled,
               PollsOver
    <2>3. CASE RecordJournal(a)
        <3>1. app[a].seen.state \in TransactionState
            BY <2>3, <1>t DEF RecordJournal, AppRecord
        <3>3. \A t \in Txns : db'[t] = db[t] \/ db'[t] # None
            BY <2>3, <1>t, <1>n, <3>1 DEF RecordJournal
        <3>4. QED
            BY <1>2, <1>c, <2>1, <2>2, <3>3, AppsMoveOn
    <2>4. CASE UNCHANGED db
        BY <1>2, <1>c, <2>1, <2>2, <2>4, AppsMoveOn
    <2>5. QED
        BY <1>2, <2>3, <2>4 DEF Reconciles, ListJournals, ReadJournal, Reconciled, PollsOver
<1>3. CASE DownloadUpdate(a) \/ RecordApplying(a)
    <2>1. UNCHANGED <<journal, target, from, helper>>
        BY <1>3 DEF DownloadUpdate, RecordApplying
    <2>2. \A t \in Txns : db'[t] = db[t] \/ db'[t] # None
        BY <1>3, <1>t, <1>n DEF DownloadUpdate, RecordApplying
    <2>3. QED
        BY <1>3, <1>c, <2>1, <2>2, AppsMoveOn
<1>4. CASE SpawnHelper(a)
    <2>1. AppsMove /\ UNCHANGED <<journal, table>>
        BY <1>4, AppsMoveOn DEF SpawnHelper
    <2>2. app[a].pc \in Driving
        BY <1>4 DEF SpawnHelper, At, Driving
    <2>3. \A t \in Txns : t # app[a].txn => helper'[t].pc = helper[t].pc
        BY <1>4, <1>t DEF SpawnHelper
    <2>4. app'[a].pc \notin Driving
        BY <1>4, <1>t DEF SpawnHelper, Goes, Driving, AppRecord
    <2>5. \A b \in Apps : app'[b].pc \in Driving =>
              app[b].txn \in Txns /\ app[b].txn # app[a].txn
        BY <2>1, <2>2, <2>4 DEF Drivers, AppsMove
    <2>6. LET t == app[a].txn
          IN  db[t] # None /\ Newer(t)
        BY <2>2 DEF Drivers
    <2>7. QED
        BY <2>1, <2>3, <2>5, <2>6, MoveKeeps
<1>5. ASSUME NEW t \in Txns, NEW r \in Releases, PrepareUpdate(a, t, r)
      PROVE  Drivers' /\ Untouched' /\ Known'
    <2>1. /\ db[t] = None /\ db'[t] = "prepared" /\ target'[t] = r
          /\ from'[t] = app[a].release
          /\ \A u \in Txns \ {t} :
                db'[u] = db[u] /\ target'[u] = target[u] /\ from'[u] = from[u]
        BY <1>5, <1>t DEF PrepareUpdate, Fresh
    <2>2. /\ app[a].pc = "idle" /\ app'[a].pc = "prepared" /\ app'[a].txn = t
          /\ app'[a].release = app[a].release
          /\ \A b \in Apps \ {a} : app'[b] = app[b]
        BY <1>5, <1>t DEF PrepareUpdate, At, AppRecord
    <2>3. UNCHANGED <<journal, helper>>
        BY <1>5 DEF PrepareUpdate
    <2>4. helper[t].pc = "none" /\ journal[t] = None
        BY <2>1 DEF Untouched
    <2>5. \A b \in Apps \ {a} : app[b].pc \in Driving => app[b].txn # t
        BY <2>1 DEF Drivers
    <2>r. app[a].release \in Releases
        BY <2>2 DEF Known
    <2>6. Drivers'
        <3>1. Newer(t)'
            BY <1>5, <2>1, <2>r DEF PrepareUpdate, Newer
        <3>2. \A u \in Txns \ {t} : Newer(u) => Newer(u)'
            BY <2>1 DEF Newer
        <3>3. QED
            BY <2>1, <2>2, <2>3, <2>4, <2>5, <3>1, <3>2, <1>n DEF Drivers
    <2>7. Untouched'
        BY <2>1, <2>3, <1>n DEF Untouched
    <2>8. Known'
        BY <2>1, <2>2, <2>3, <2>4, <2>r DEF Known, Newer
    <2>9. QED
        BY <2>6, <2>7, <2>8
<1>6. QED
    BY <1>1, <1>2, <1>3, <1>4, <1>5 DEF Instance

--------------------------------------------------------------------------------
(* The steps of a helper.                                                   *)

\* What every step of the helper of t leaves alone: the table, the acknowledgements, the
\* other helpers and their journals, and, as long as it is without the lock, the payload.
Alone(t) ==
    /\ helper[t].pc # "none"
    /\ UNCHANGED <<table, acked>>
    /\ \A u \in Txns \ {t} : helper'[u].pc = helper[u].pc /\ journal'[u] = journal[u]
    /\ helper[t].pc \notin Locking => UNCHANGED payload

\* The lock is taken when it is free, and let go at the end.
LockMoves(t) ==
    \/ lock' = lock /\ (helper'[t].pc \in Locking => helper[t].pc \in Locking)
    \/ helper'[t].pc = "none" /\ lock' = (IF lock = t THEN None ELSE lock)
    \/ lock = None /\ lock' = t

\* The helper goes on, or ends.
LEMMA ToMoves ==
    ASSUME TypeOK, NEW t \in Txns, NEW pc, To(t, pc)
    PROVE  /\ helper'[t].pc = pc /\ lock' = lock
           /\ \A u \in Txns \ {t} : helper'[u].pc = helper[u].pc
BY DEF TypeOK, To, HelperRecord

LEMMA EndsMoves ==
    ASSUME TypeOK, NEW t \in Txns, Ends(t)
    PROVE  /\ helper'[t].pc = "none" /\ lock' = (IF lock = t THEN None ELSE lock)
           /\ \A u \in Txns \ {t} : helper'[u].pc = helper[u].pc
BY DEF TypeOK, Ends, NoHelper

LEMMA JournalMoves ==
    ASSUME TypeOK, NEW t \in Txns, NEW s, WriteJournal(t, s)
    PROVE  journal'[t] = s /\ \A u \in Txns \ {t} : journal'[u] = journal[u]
BY DEF TypeOK, WriteJournal

LEMMA HelperAlone ==
    ASSUME TypeOK, NEW t \in Txns, Apply(t) \/ HelperDies(t)
    PROVE  Alone(t) /\ LockMoves(t)
<1> USE DEF Alone, LockMoves, Locking, HelperPC, Stands
<1>m. /\ \A pc : To(t, pc) =>
            /\ helper'[t].pc = pc /\ lock' = lock
            /\ \A u \in Txns \ {t} : helper'[u].pc = helper[u].pc
      /\ Ends(t) =>
            /\ helper'[t].pc = "none" /\ lock' = (IF lock = t THEN None ELSE lock)
            /\ \A u \in Txns \ {t} : helper'[u].pc = helper[u].pc
      /\ \A s : WriteJournal(t, s) => \A u \in Txns \ {t} : journal'[u] = journal[u]
    BY ToMoves, EndsMoves, JournalMoves
<1>1. CASE CheckParent(t) \/ AnnounceWait(t) \/ ParentGone(t) \/ ParentAlive(t)
    BY <1>1, <1>m DEF CheckParent, AnnounceWait, ParentGone, ParentAlive
<1>2. CASE TakeLock(t)
    BY <1>2, <1>m DEF TakeLock, TypeOK
<1>3. CASE StageCandidate(t)
    BY <1>3, <1>m DEF StageCandidate
<1>4. CASE SwitchPointer(t) \/ MoveAside(t) \/ MoveIn(t)
    BY <1>4, <1>m DEF SwitchPointer, MoveAside, MoveIn
<1>5. CASE AnnounceSwap(t) \/ AnnounceLaunch(t) \/ SeeHealth(t) \/ Commit(t)
    BY <1>5, <1>m DEF AnnounceSwap, AnnounceLaunch, SeeHealth, Commit
<1>6. CASE LaunchCandidate(t)
    BY <1>6, <1>m DEF LaunchCandidate, TypeOK, HelperRecord
<1>7. CASE HealthTimeout(t)
    <2>1. helper[t].child \in Apps \cup {None}
        BY DEF TypeOK, HelperRecord
    <2>2. /\ helper'[t].pc = "rolling"
          /\ \A u \in Txns \ {t} : helper'[u].pc = helper[u].pc
        BY <1>7, <2>1, WithoutTyped DEF HealthTimeout, TypeOK, HelperRecord
    <2>3. QED
        BY <1>7, <2>2 DEF HealthTimeout
<1>8. CASE Rollback(t) \/ MoveBack(t)
    BY <1>8, <1>m DEF Rollback, MoveBack, RollbackFailed
<1>9. CASE AnnounceRollback(t) \/ LaunchPrevious(t) \/ HelperDies(t)
    BY <1>9, <1>m DEF AnnounceRollback, LaunchPrevious, HelperDies
<1>10. QED
    BY <1>1, <1>2, <1>3, <1>4, <1>5, <1>6, <1>7, <1>8, <1>9 DEF Apply

\* A helper starts and kills instances, and does nothing else to them.
LEMMA HelperAppsMove ==
    ASSUME IInv, NEW t \in Txns, Apply(t) \/ HelperDies(t)
    PROVE  AppsMove
<1> USE DEF AppsMove, IInv, Stands
<1>t. app \in [Apps -> AppRecord] /\ installed \in Releases \cup {None}
    BY DEF TypeOK
<1>k. \A b \in Apps : app[b].pc # "off" => app[b].release \in Releases
    BY DEF Known
<1>o. ASSUME NEW a \in Apps, NEW r, app' = [app EXCEPT ![a] = r], r.pc \notin Driving,
             r.pc # "off" => r.release \in Releases
      PROVE  AppsMove
    BY <1>o, <1>t, <1>k
<1>u. UNCHANGED app => AppsMove
    BY <1>k
<1>s. \A r, u : /\ Started(r, u).pc \notin Driving /\ Started(r, u).release = r
                /\ NoApp.pc = "off" /\ NoApp.pc \notin Driving
    BY DEF Started, NoApp, Driving
<1>1. CASE LaunchCandidate(t)
    <2>1. installed \in Releases
        BY <1>1 DEF LaunchCandidate, Way, Swapped, Known, Newer
    <2>2. QED
        BY <1>1, <1>o, <1>s, <1>u, <2>1 DEF LaunchCandidate
<1>2. CASE HealthTimeout(t)
    <2>1. helper[t].child \in Apps \cup {None}
        BY DEF TypeOK, HelperRecord
    <2>2. QED
        BY <1>2, <1>o, <1>s, <1>u, <2>1 DEF HealthTimeout
<1>3. CASE LaunchPrevious(t)
    <2>1. installed \in Releases
        BY <1>3, <1>t DEF LaunchPrevious, Way
    <2>2. QED
        BY <1>3, <1>o, <1>s, <1>u, <2>1 DEF LaunchPrevious
<1>4. ASSUME ~LaunchCandidate(t), ~HealthTimeout(t), ~LaunchPrevious(t)
      PROVE  UNCHANGED app
    BY <1>4
       DEF Apply, HelperDies, CheckParent, TakeLock, AnnounceWait, ParentGone, ParentAlive,
           StageCandidate, SwitchPointer, MoveAside, MoveIn, AnnounceSwap, AnnounceLaunch,
           SeeHealth, Commit, Rollback, MoveBack, AnnounceRollback
<1>5. QED
    BY <1>1, <1>2, <1>3, <1>4, <1>u

LEMMA HelperKeeps ==
    ASSUME IInv, NEW t \in Txns, Apply(t) \/ HelperDies(t)
    PROVE  LockHeld' /\ Drivers' /\ Untouched' /\ Known'
<1> USE DEF IInv
<1>1. Alone(t) /\ LockMoves(t) /\ AppsMove
    BY HelperAlone, HelperAppsMove
<1>2. LockHeld'
    <2>1. \A u \in Txns : helper[u].pc \in Locking => lock = u
        BY DEF LockHeld
    <2>2. None \notin Txns /\ "none" \notin Locking
        BY NoneAssumption DEF Locking
    <2>3. QED
        BY <1>1, <2>1, <2>2 DEF Alone, LockMoves, LockHeld
<1>3. db[t] # None
    BY <1>1 DEF Alone, Untouched
<1>4. \A a \in Apps : app'[a].pc \in Driving => app[a].txn \in Txns \ {t}
    BY <1>1 DEF Alone, Drivers, AppsMove
<1>5. Drivers' /\ Untouched' /\ Known'
    BY <1>1, <1>3, <1>4, MoveKeeps DEF Alone, table
<1>6. QED
    BY <1>2, <1>5

\* The other helpers find the payload as they left it.
LEMMA OthersKeep ==
    ASSUME IInv, NEW t \in Txns, Alone(t)
    PROVE  /\ Proven \subseteq Proven'
           /\ \A u \in Txns \ {t} : Told(u)' /\ Way(u)'
           /\ helper[t].pc \in Locking => \A u \in Txns \ {t} : helper[u].pc \notin Swapped
<1> USE DEF IInv
<1>1. Proven \subseteq Proven'
    BY ProvenStays DEF Alone, table
<1>2. \A u \in Txns \ {t} : helper[t].pc \in Locking => helper[u].pc \notin Locking
    BY DEF LockHeld
<1>3. {"staged", "moving", "restoring", "restored", "relaunching"} \cup Swapped \subseteq Locking
    BY DEF Swapped, Locking, HelperPC
<1>4. ASSUME NEW u \in Txns \ {t} PROVE Told(u)'
    BY DEF Alone, Told, table
<1>5. ASSUME NEW u \in Txns \ {t} PROVE Way(u)'
    BY <1>1, <1>2, <1>3 DEF Alone, Way, table, payload
<1>6. QED
    BY <1>1, <1>2, <1>3, <1>4, <1>5

\* What is left to show of a step of the helper of t: its own way, and what it leaves.
Keeps(t) == Told(t)' /\ Way(t)' /\ AtRest' /\ Gone'

\* Before the swap and after the repair a helper does not touch the payload.
LEMMA AwayFromPayload ==
    ASSUME IInv, NEW t \in Txns, Alone(t), UNCHANGED <<installed, backup, faults>>,
           {helper[t].pc, helper'[t].pc} \cap (Swapped \cup {"moving", "restoring"}) = {}
    PROVE  AtRest' /\ Gone'
<1> USE DEF IInv
<1>1. \A u \in Txns : helper'[u].pc \notin Swapped => helper[u].pc \notin Swapped
    BY DEF Alone
<1>2. AtRest'
    BY <1>1, OthersKeep DEF AtRest
<1>3. \A u \in Txns : journal[u] = "rollback_failed" => u # t
    BY DEF Told, Alone
<1>4. Gone'
    BY <1>3 DEF Gone, Alone
<1>5. QED
    BY <1>2, <1>4

\* Between the swap and the verdict neither.
LEMMA WithinSwap ==
    ASSUME IInv, NEW t \in Txns, Alone(t), UNCHANGED payload,
           helper[t].pc \in Swapped, helper'[t].pc \in Swapped
    PROVE  Way(t)' /\ AtRest' /\ Gone'
<1> USE DEF IInv
<1>1. Way(t)'
    BY OthersKeep DEF Way, Alone, table, payload, Swapped
<1>2. AtRest'
    BY DEF AtRest
<1>3. \A u \in Txns : journal[u] = "rollback_failed" => u # t
    BY DEF Told, Alone
<1>4. Gone'
    BY <1>3 DEF Gone, Alone, payload, Swapped
<1>5. QED
    BY <1>1, <1>2, <1>4

\* The steps that rename or write the pointer: what is installed then, if anything, is
\* proven or being proved.
LEMMA Renames ==
    ASSUME IInv, NEW t \in Txns, Alone(t),
           \/ helper'[t].pc \in Swapped
           \/ installed' = None
           \/ installed' \in Proven',
           \/ installed' # None
           \/ helper'[t].pc \in {"moving", "restoring"}
           \/ journal'[t] = "rollback_failed"
           \/ ~(faults' < 2)
           \/ "helper_dies" \in Faults
    PROVE  AtRest' /\ Gone'
<1>1. AtRest'
    BY DEF AtRest
<1>2. Gone'
    BY DEF Gone
<1>3. QED
    BY <1>1, <1>2

\* Up to the swap.
LEMMA KeepsToSwap ==
    ASSUME IInv, NEW t \in Txns, Alone(t),
           \/ CheckParent(t) \/ TakeLock(t) \/ AnnounceWait(t) \/ ParentGone(t)
           \/ ParentAlive(t) \/ StageCandidate(t)
    PROVE  Keeps(t)
<1> USE DEF IInv, Stands, Keeps
<1>m. /\ \A pc : To(t, pc) => helper'[t].pc = pc
      /\ Ends(t) => helper'[t].pc = "none"
      /\ \A s : WriteJournal(t, s) => journal'[t] = s
    BY ToMoves, EndsMoves, JournalMoves
<1>1. CASE CheckParent(t)
    <2>1. /\ helper[t].pc = "spawned" /\ helper'[t].pc \in {"checked", "none"}
          /\ UNCHANGED <<journal, payload>>
        BY <1>1, <1>m DEF CheckParent
    <2>2. QED
        BY <2>1, AwayFromPayload DEF Told, Way, Swapped, payload, Alone
<1>2. CASE TakeLock(t)
    <2>1. /\ helper[t].pc = "checked" /\ UNCHANGED payload
          /\ \/ helper'[t].pc = "prepared" /\ journal'[t] = "prepared"
             \/ helper'[t].pc = "none" /\ journal'[t] = journal[t]
        BY <1>2, <1>m DEF TakeLock, TypeOK, HelperRecord
    <2>2. QED
        BY <2>1, AwayFromPayload DEF Told, Way, Swapped, payload, Alone
<1>3. CASE AnnounceWait(t)
    <2>1. /\ helper[t].pc = "prepared" /\ helper'[t].pc = "waiting"
          /\ journal'[t] = "waiting_for_exit" /\ UNCHANGED payload
        BY <1>3, <1>m DEF AnnounceWait
    <2>2. QED
        BY <2>1, AwayFromPayload DEF Told, Way, Swapped, payload, Alone
<1>4. CASE ParentGone(t)
    <2>1. /\ helper[t].pc = "waiting" /\ helper'[t].pc = "staging"
          /\ UNCHANGED <<journal, payload>>
        BY <1>4, <1>m DEF ParentGone
    <2>2. QED
        BY <2>1, AwayFromPayload DEF Told, Way, Swapped, payload, Alone
<1>5. CASE ParentAlive(t)
    <2>1. /\ helper[t].pc = "waiting" /\ helper'[t].pc = "none"
          /\ journal'[t] = "aborted" /\ UNCHANGED payload
        BY <1>5, <1>m DEF ParentAlive
    <2>2. QED
        BY <2>1, AwayFromPayload DEF Told, Way, Swapped, payload, Alone
<1>6. CASE StageCandidate(t)
    <2>1. /\ helper[t].pc = "staging" /\ helper'[t].pc \in {"staged", "none"}
          /\ UNCHANGED <<journal, installed, backup, faults>>
          /\ InstallKind = "pointer" /\ helper'[t].pc = "staged" => installed = from[t]
        BY <1>6, <1>m DEF StageCandidate, payload
    <2>2. QED
        BY <2>1, AwayFromPayload DEF Told, Way, Swapped, Alone, table
<1>7. QED
    BY <1>1, <1>2, <1>3, <1>4, <1>5, <1>6

\* The swap.
LEMMA KeepsAtSwap ==
    ASSUME IInv, NEW t \in Txns, Alone(t),
           SwitchPointer(t) \/ MoveAside(t) \/ MoveIn(t)
    PROVE  Keeps(t)
<1> USE DEF IInv, Stands, Keeps
<1>m. /\ \A pc : To(t, pc) => helper'[t].pc = pc
      /\ Ends(t) => helper'[t].pc = "none"
    BY ToMoves, EndsMoves
<1>o. Proven \subseteq Proven' /\ \A u \in Txns \ {t} : helper[t].pc \in Locking =>
                                        helper[u].pc \notin Swapped
    BY OthersKeep
<1>l. {"staged", "moving"} \subseteq Locking /\ {"staged", "moving"} \cap Swapped = {}
    BY DEF Locking, HelperPC, Swapped
<1>r. helper[t].pc = "staged" => installed \in Proven \cup {None}
    BY <1>l, <1>o DEF AtRest
<1>k. target[t] \in Releases /\ from[t] \in Releases /\ None \notin Releases
    BY NoneAssumption DEF Alone, Known, Newer
<1>p. None \notin Proven
    BY <1>k DEF Proven
<1>j. journal[t] = "waiting_for_exit"
    BY DEF Told, SwitchPointer, MoveAside, MoveIn
<1>1. CASE SwitchPointer(t)
    <2>1. /\ helper[t].pc = "staged" /\ InstallKind = "pointer" /\ installed = from[t]
          /\ UNCHANGED journal
          /\ \/ helper'[t].pc = "activated" /\ installed' = target[t]
             \/ helper'[t].pc = "none" /\ installed' = installed
        BY <1>1, <1>m DEF SwitchPointer, Way
    <2>2. Told(t)' /\ Way(t)'
        BY <2>1, <1>j, <1>k, <1>o, <1>r DEF Told, Way, Swapped, Alone, table
    <2>3. AtRest' /\ Gone'
        BY <2>1, <1>k, <1>o, <1>r, Renames DEF Swapped
    <2>4. QED
        BY <2>2, <2>3
<1>2. CASE MoveAside(t)
    <2>1. /\ helper[t].pc = "staged" /\ InstallKind = "payload" /\ UNCHANGED journal
          /\ \/ /\ helper'[t].pc = "moving" /\ installed # None /\ backup' = installed
                /\ installed' = None
             \/ /\ helper'[t].pc = "none" /\ UNCHANGED installed
                /\ installed = None => UNCHANGED faults
        BY <1>2, <1>m DEF MoveAside
    <2>2. Told(t)' /\ Way(t)'
        BY <2>1, <1>j, <1>o, <1>r DEF Told, Way, Swapped
    <2>3. AtRest' /\ Gone'
        <3>1. CASE installed # None
            BY <2>1, <3>1, <1>o, <1>r, Renames
        <3>2. CASE installed = None
            <4>1. AtRest'
                BY <2>1, <3>2 DEF AtRest
            <4>2. Gone'
                BY <2>1, <3>2, <1>j DEF Gone, Alone
            <4>3. QED
                BY <4>1, <4>2
        <3>3. QED
            BY <3>1, <3>2
    <2>4. QED
        BY <2>2, <2>3
<1>3. CASE MoveIn(t)
    <2>1. /\ helper[t].pc = "moving" /\ installed = None /\ backup \in Proven
          /\ InstallKind # "pointer" /\ UNCHANGED journal
          /\ \/ helper'[t].pc = "activated" /\ installed' = target[t] /\ UNCHANGED backup
             \/ helper'[t].pc = "none" /\ installed' = backup
             \/ helper'[t].pc = "none" /\ installed' = None /\ faults' = faults + 2
        BY <1>3, <1>m DEF MoveIn, Way
    <2>2. faults' = faults + 2 => ~(faults' < 2)
        BY SwitchesAssumption DEF TypeOK
    <2>3. Told(t)' /\ Way(t)'
        BY <2>1, <1>j, <1>o DEF Told, Way, Swapped, Alone, table
    <2>4. AtRest' /\ Gone'
        BY <2>1, <2>2, <1>k, <1>o, <1>p, Renames DEF Swapped
    <2>5. QED
        BY <2>3, <2>4
<1>4. QED
    BY <1>1, <1>2, <1>3

\* From the swap to the verdict.
LEMMA KeepsToVerdict ==
    ASSUME IInv, NEW t \in Txns, Alone(t),
           \/ AnnounceSwap(t) \/ LaunchCandidate(t) \/ AnnounceLaunch(t) \/ SeeHealth(t)
           \/ Commit(t) \/ HealthTimeout(t)
    PROVE  Keeps(t)
<1> USE DEF IInv, Stands, Keeps
<1>m. /\ \A pc : To(t, pc) => helper'[t].pc = pc
      /\ Ends(t) => helper'[t].pc = "none"
      /\ \A s : WriteJournal(t, s) => journal'[t] = s
    BY ToMoves, EndsMoves, JournalMoves
<1>k. /\ target[t] \in Releases /\ None \notin Releases
      /\ helper[t].pc \in Swapped => installed = target[t]
    BY NoneAssumption DEF Alone, Known, Newer, Way
<1>1. CASE AnnounceSwap(t)
    <2>1. /\ helper[t].pc = "activated" /\ helper'[t].pc = "swapped" /\ journal'[t] = "swapped"
          /\ UNCHANGED payload
        BY <1>1, <1>m DEF AnnounceSwap
    <2>2. QED
        BY <2>1, WithinSwap DEF Told, Swapped
<1>2. CASE LaunchCandidate(t)
    <2>1. helper[t].pc = "swapped" /\ journal[t] = "swapped" /\ UNCHANGED <<journal, payload>>
        BY <1>2 DEF LaunchCandidate, Told
    <2>2. CASE helper'[t].pc = "started"
        BY <2>1, <2>2, WithinSwap DEF Told, Swapped
    <2>3. CASE "launch_fails" \in Faults /\ helper'[t].pc = "none"
        <3>1. installed' \in Proven' /\ installed' # None
            BY <2>1, <2>3, <1>k DEF Proven, Left, MayLeave, Mutable, Swapped, Alone, table, payload
        <3>2. Told(t)' /\ Way(t)'
            BY <2>1, <2>3 DEF Told, Way, Swapped
        <3>3. QED
            BY <3>1, <3>2, Renames
    <2>4. QED
        BY <1>2, <1>m, <2>2, <2>3 DEF LaunchCandidate, TypeOK, HelperRecord
<1>3. CASE AnnounceLaunch(t)
    <2>1. /\ helper[t].pc = "started" /\ helper'[t].pc = "health" /\ journal'[t] = "launched"
          /\ UNCHANGED payload
        BY <1>3, <1>m DEF AnnounceLaunch
    <2>2. QED
        BY <2>1, WithinSwap DEF Told, Swapped
<1>4. CASE SeeHealth(t)
    <2>1. /\ helper[t].pc = "health" /\ helper'[t].pc = "healthy" /\ journal'[t] = "healthy"
          /\ t \in acked /\ UNCHANGED payload
        BY <1>4, <1>m DEF SeeHealth
    <2>2. QED
        BY <2>1, WithinSwap DEF Told, Swapped, Alone
<1>5. CASE Commit(t)
    <2>1. /\ helper[t].pc = "healthy" /\ helper'[t].pc = "none" /\ journal'[t] = "committed"
          /\ t \in acked /\ UNCHANGED payload
        BY <1>5, <1>m DEF Commit, Told
    <2>2. installed' \in Proven' /\ installed' # None
        BY <2>1, <1>k DEF Proven, Swapped, Alone, table, payload
    <2>3. Told(t)' /\ Way(t)'
        BY <2>1 DEF Told, Way, Swapped
    <2>4. QED
        BY <2>2, <2>3, Renames
<1>6. CASE HealthTimeout(t)
    <2>1. helper[t].child \in Apps \cup {None}
        BY DEF TypeOK, HelperRecord
    <2>2. /\ helper[t].pc = "health" /\ helper'[t].pc = "rolling"
          /\ UNCHANGED <<journal, payload>>
        BY <1>6, <2>1, WithoutTyped DEF HealthTimeout, TypeOK, HelperRecord
    <2>3. QED
        BY <2>2, WithinSwap DEF Told, Swapped
<1>7. QED
    BY <1>1, <1>2, <1>3, <1>4, <1>5, <1>6

\* The repair.
LEMMA KeepsInRepair ==
    ASSUME IInv, NEW t \in Txns, Alone(t),
           Rollback(t) \/ MoveBack(t) \/ AnnounceRollback(t) \/ LaunchPrevious(t)
    PROVE  Keeps(t)
<1> USE DEF IInv, Stands, Keeps
<1>m. /\ \A pc : To(t, pc) => helper'[t].pc = pc
      /\ Ends(t) => helper'[t].pc = "none"
      /\ \A s : WriteJournal(t, s) => journal'[t] = s
    BY ToMoves, EndsMoves, JournalMoves
<1>o. Proven \subseteq Proven'
    BY OthersKeep
<1>p. None \notin Proven
    BY NoneAssumption DEF Proven
<1>f. journal'[t] = "rollback_failed" =>
          installed' = None \/ installed' \notin Releases \/ installed' \in Proven'
    BY DEF Proven
<1>1. CASE Rollback(t)
    <2>1. /\ helper[t].pc = "rolling" /\ journal[t] = "launched" /\ installed = target[t]
          /\ IF InstallKind = "pointer" THEN from[t] \in Proven ELSE backup \in Proven
          /\ UNCHANGED backup
          /\ \/ /\ InstallKind = "pointer" /\ helper'[t].pc = "restored"
                /\ installed' = from[t] /\ UNCHANGED journal
             \/ /\ InstallKind = "payload" /\ helper'[t].pc = "restoring"
                /\ installed' = None /\ UNCHANGED journal
             \/ /\ helper'[t].pc = "none" /\ journal'[t] = "rollback_failed"
                /\ UNCHANGED installed
        BY <1>1, <1>m DEF Rollback, RollbackFailed, Told, Way, Swapped
    <2>2. Told(t)' /\ Way(t)'
        BY <2>1, <1>o, <1>p DEF Told, Way, Swapped
    <2>3. installed \in Releases
        BY <2>1 DEF Alone, Known, Newer
    <2>4. AtRest' /\ Gone'
        BY <2>1, <2>3, <1>f, <1>o, <1>p, Renames
    <2>5. QED
        BY <2>2, <2>4
<1>2. CASE MoveBack(t)
    <2>1. /\ helper[t].pc = "restoring" /\ journal[t] = "launched" /\ installed = None
          /\ backup \in Proven
          /\ \/ helper'[t].pc = "restored" /\ installed' = backup /\ UNCHANGED journal
             \/ /\ helper'[t].pc = "none" /\ journal'[t] = "rollback_failed"
                /\ UNCHANGED installed
        BY <1>2, <1>m DEF MoveBack, RollbackFailed, Told, Way
    <2>2. Told(t)' /\ Way(t)'
        BY <2>1, <1>p DEF Told, Way, Swapped
    <2>3. AtRest' /\ Gone'
        BY <2>1, <1>o, <1>p, Renames
    <2>4. QED
        BY <2>2, <2>3
<1>3. CASE AnnounceRollback(t)
    <2>1. /\ helper[t].pc = "restored" /\ helper'[t].pc = "relaunching"
          /\ journal'[t] = "rolled_back" /\ installed # None /\ UNCHANGED payload
        BY <1>3, <1>m DEF AnnounceRollback, Way
    <2>2. QED
        BY <2>1, AwayFromPayload DEF Told, Way, Swapped, payload
<1>4. CASE LaunchPrevious(t)
    <2>1. /\ helper[t].pc = "relaunching" /\ helper'[t].pc = "none"
          /\ UNCHANGED <<journal, payload>>
        BY <1>4, <1>m DEF LaunchPrevious
    <2>2. QED
        BY <2>1, AwayFromPayload DEF Told, Way, Swapped, payload
<1>5. QED
    BY <1>1, <1>2, <1>3, <1>4

\* The death of a helper: after the swap it leaves its release unproven.
LEMMA KeepsInDeath ==
    ASSUME IInv, NEW t \in Txns, Alone(t), HelperDies(t)
    PROVE  Keeps(t)
<1> USE DEF IInv, Keeps
<1>1. helper'[t].pc = "none" /\ UNCHANGED <<journal, payload>> /\ "helper_dies" \in Faults
    BY EndsMoves DEF HelperDies
<1>2. Told(t)' /\ Way(t)'
    BY <1>1 DEF Told, Way, Swapped
<1>3. CASE helper[t].pc \in Swapped
    <2>1. journal[t] \in Mutable /\ installed = target[t] /\ target[t] \in Releases
        BY <1>3 DEF Told, Way, Swapped, Mutable, Alone, Known, Newer
    <2>2. installed' \in Proven'
        BY <1>1, <2>1 DEF Proven, Left, MayLeave, Alone, table, payload
    <2>3. QED
        BY <1>1, <1>2, <2>2, Renames
<1>4. CASE helper[t].pc \in {"moving", "restoring"}
    BY <1>1, <1>2, <1>4, Renames DEF Way, payload
<1>5. CASE helper[t].pc \notin Swapped \cup {"moving", "restoring"}
    <2>1. {helper[t].pc, helper'[t].pc} \cap (Swapped \cup {"moving", "restoring"}) = {}
        BY <1>1, <1>5 DEF Swapped
    <2>2. QED
        BY <1>1, <1>2, <2>1, AwayFromPayload DEF payload
<1>6. QED
    BY <1>3, <1>4, <1>5

--------------------------------------------------------------------------------
(* The theorems.                                                            *)

LEMMA InitIInv == Init => IInv
<1> SUFFICES ASSUME Init PROVE IInv
    OBVIOUS
<1> USE DEF Init
<1>1. TypeOK
    BY TypedInit
<1>2. /\ \A t \in Txns : helper[t].pc = "none" /\ journal[t] = None /\ db[t] = None
      /\ \A a \in Apps : app[a].pc = "off"
    BY DEF NoApp, NoHelper
<1>3. None \notin {"committed", "rollback_failed"} /\ Base # None
    BY NoneAssumption, ReleasesAssumption DEF UpdateState, TransactionState
<1>4. LockHeld /\ Drivers /\ Untouched /\ Known
    BY <1>2 DEF LockHeld, Locking, Drivers, Driving, Untouched, Known
<1>5. \A t \in Txns : Told(t) /\ Way(t)
    BY <1>2, <1>3 DEF Told, Way, Swapped
<1>6. AtRest /\ Gone
    BY <1>3, ReleasesAssumption DEF AtRest, Proven, Gone
<1>7. QED
    BY <1>1, <1>4, <1>5, <1>6 DEF IInv

\* Every step of an instance and of a helper keeps the invariant.
LEMMA StepIInv == IInv /\ [Next]_vars => IInv'
<1> SUFFICES ASSUME IInv, [Next]_vars PROVE IInv'
    OBVIOUS
<1>1. ASSUME NEW a \in Apps, Instance(a) PROVE IInv'
    <2>1. TypeOK'
        BY <1>1, TypedInstance, TypedCommand DEF Instance, IInv
    <2>2. Drivers' /\ Untouched' /\ Known'
        BY <1>1, InstanceKeeps DEF IInv
    <2>3. LockHeld' /\ (\A t \in Txns : Told(t)' /\ Way(t)') /\ AtRest' /\ Gone'
        BY <1>1, InstanceIsCalm, CalmKeeps DEF IInv
    <2>4. QED
        BY <2>1, <2>2, <2>3 DEF IInv
<1>2. ASSUME NEW t \in Txns, Apply(t) \/ HelperDies(t) PROVE IInv'
    <2>1. Alone(t)
        BY <1>2, HelperAlone DEF IInv
    <2>2. TypeOK'
        BY <1>2, <2>1, TypedHelper DEF IInv, Alone, Known, Newer
    <2>3. LockHeld' /\ Drivers' /\ Untouched' /\ Known'
        BY <1>2, HelperKeeps
    <2>4. Keeps(t)
        BY <1>2, <2>1, KeepsToSwap, KeepsAtSwap, KeepsToVerdict, KeepsInRepair, KeepsInDeath
           DEF Apply
    <2>5. \A u \in Txns : Told(u)' /\ Way(u)'
        BY <2>1, <2>4, OthersKeep DEF Keeps
    <2>6. QED
        BY <2>2, <2>3, <2>4, <2>5 DEF IInv, Keeps
<1>3. CASE UNCHANGED vars
    BY <1>3 DEF vars, table, payload, IInv, TypeOK, LockHeld, Drivers, Untouched, Known, Newer, Told,
        Way, AtRest, Gone, Proven, Left
<1>4. QED
    BY <1>1, <1>2, <1>3 DEF Next

THEOREM PayloadInvariant == Spec => []IInv
BY InitIInv, StepIInv, PTL DEF Spec

\* Table, journals, processes and payload keep their types over every order of the steps
\* of instances and helpers.
THEOREM UpdateTypeCorrect == Spec => []TypeOK
<1>1. IInv => TypeOK
    BY DEF IInv
<1>2. QED
    BY <1>1, PayloadInvariant, PTL

\* Whatever fails and whoever dies, a release at rest that nobody acknowledged is one whose
\* helper ended between its swap and its verdict, or whose rollback failed (fmd-updater
\* lib.rs:314-369).
THEOREM UnprovenIsLeft == Spec => []UnprovenPayloadsAreKnown
<1>1. IInv => UnprovenPayloadsAreKnown
    <2> SUFFICES ASSUME IInv, Resting PROVE RestingPayloadIsProven \/ \E t \in Txns : LeftSwapped(t)
        BY DEF UnprovenPayloadsAreKnown
    <2>1. installed = None \/ installed \in Proven
        BY DEF IInv, AtRest, Resting, Swapped
    <2>2. QED
        BY <2>1 DEF Proven, Left, Mutable, LeftSwapped, RestingPayloadIsProven
<1>2. QED
    BY <1>1, PayloadInvariant, PTL

\* If no helper dies and no launch fails, what is at rest is the first release, an
\* acknowledged one, or the journal tells of a failed rollback.
THEOREM RestingIsProven ==
    ASSUME "helper_dies" \notin Faults, "launch_fails" \notin Faults
    PROVE  Spec => []RestingPayloadIsProven
<1>1. IInv => RestingPayloadIsProven
    <2> SUFFICES ASSUME IInv, Resting PROVE RestingPayloadIsProven
        BY DEF RestingPayloadIsProven
    <2>1. installed = None \/ installed \in Proven
        BY DEF IInv, AtRest, Resting, Swapped
    <2>2. QED
        BY <2>1 DEF Proven, Left, MayLeave, RestingPayloadIsProven
<1>2. QED
    BY <1>1, PayloadInvariant, PTL

\* If no helper dies, a single failing rename never loses the payload unrecorded.
THEOREM LossIsRecorded ==
    ASSUME "helper_dies" \notin Faults
    PROVE  Spec => []LostPayloadIsRecorded
<1>1. IInv => LostPayloadIsRecorded
    BY DEF IInv, Gone, LockHeld, Locking, HelperPC, LostPayloadIsRecorded
<1>2. QED
    BY <1>1, PayloadInvariant, PTL

\* Where a pointer selects the release, a swap is always to a newer one: the helper compares
\* the pointer with the release that asked, while it holds the lock (prepare_windows_swap).
THEOREM PointerOnlyAdvances ==
    ASSUME InstallKind = "pointer"
    PROVE  Spec => NoDowngrade
<1>1. ASSUME NEW t \in Txns, IInv, helper[t].pc = "staged"
      PROVE  installed <= target[t]
    <2>1. installed = from[t] /\ Newer(t)
        BY <1>1 DEF IInv, Way, Known
    <2>2. target[t] \in Nat /\ from[t] \in Nat
        BY <2>1, ReleasesAssumption DEF Newer
    <2>3. QED
        BY <2>1, <2>2 DEF Newer
<1>2. IInv => [\A t \in Txns :
          helper[t].pc = "staged" /\ helper'[t].pc \in {"moving", "activated"}
              => installed <= target[t]]_vars
    BY <1>1
<1>3. QED
    BY <1>2, PayloadInvariant, PTL DEF NoDowngrade

--------------------------------------------------------------------------------
(* What the reconciliation of a start finds.                                *)

\* What a journal may hold once it has held s: a helper writes its states in one order.
Reached == [s \in TransactionState |->
    CASE s = "prepared" -> TransactionState
      [] s = "waiting_for_exit" -> TransactionState \ {"prepared"}
      [] s = "swapped" -> TransactionState \ {"prepared", "waiting_for_exit", "aborted"}
      [] s = "launched" -> {"launched", "healthy", "committed", "rolled_back", "rollback_failed"}
      [] s = "healthy" -> {"healthy", "committed"}
      [] OTHER -> {s}]

\* The table has a state of the journal only if the journal held it, one that was read holds
\* it or a later one, and no transaction has a helper or a journal before it is downloaded.
Follows ==
    /\ \A t \in Txns : db[t] \in TransactionState \ {"prepared"} =>
          journal[t] \in Reached[db[t]]
    /\ \A t \in Txns : helper[t].pc # "none" \/ journal[t] # None =>
          db[t] \notin {None, "prepared", "download_failed"}
    /\ \A a \in Apps : app[a].seen # None =>
          journal[app[a].seen.txn] \in Reached[app[a].seen.state]

LEMMA ReachedFrom ==
    /\ \A s \in TransactionState : s \in Reached[s] /\ Reached[s] \subseteq TransactionState
    /\ \A s \in TransactionState : \A u \in Reached[s] : Reached[u] \subseteq Reached[s]
<1>1. /\ Reached["prepared"] = TransactionState
      /\ Reached["waiting_for_exit"] = TransactionState \ {"prepared"}
      /\ Reached["swapped"] = TransactionState \ {"prepared", "waiting_for_exit", "aborted"}
      /\ Reached["launched"] =
            {"launched", "healthy", "committed", "rolled_back", "rollback_failed"}
      /\ Reached["healthy"] = {"healthy", "committed"}
      /\ \A s \in {"committed", "rolled_back", "aborted", "rollback_failed"} :
            Reached[s] = {s}
    BY DEF Reached, TransactionState
<1>2. TransactionState = {"prepared", "waiting_for_exit", "swapped", "launched", "healthy",
                          "committed", "rolled_back", "aborted", "rollback_failed"}
    BY DEF TransactionState
<1>3. \A s \in TransactionState : s \in Reached[s] /\ Reached[s] \subseteq TransactionState
    BY <1>1, <1>2
<1>4. ASSUME NEW s \in TransactionState, NEW u \in Reached[s]
      PROVE  Reached[u] \subseteq Reached[s]
    BY <1>1, <1>2, <1>4
<1>5. QED
    BY <1>3, <1>4

\* A helper begins its journal with prepared and then keeps to the order.
LEMMA JournalGoesOn ==
    ASSUME IInv, NEW t \in Txns, Apply(t) \/ HelperDies(t)
    PROVE  \/ journal'[t] = journal[t]
           \/ journal[t] = None /\ journal'[t] = "prepared"
           \/ journal[t] \in TransactionState /\ journal'[t] \in Reached[journal[t]]
<1> USE DEF Stands
<1>m. \A s : WriteJournal(t, s) => journal'[t] = s
    BY JournalMoves DEF IInv
<1>t. Told(t)
    BY DEF IInv
<1>r. /\ {"prepared", "waiting_for_exit", "swapped", "launched", "healthy"} \subseteq TransactionState
      /\ "waiting_for_exit" \in Reached["prepared"]
      /\ {"aborted", "swapped"} \subseteq Reached["waiting_for_exit"]
      /\ "launched" \in Reached["swapped"]
      /\ {"healthy", "rolled_back", "rollback_failed"} \subseteq Reached["launched"]
      /\ "committed" \in Reached["healthy"]
    BY DEF Reached, TransactionState
<1>1. CASE CheckParent(t) \/ TakeLock(t) \/ AnnounceWait(t) \/ ParentGone(t) \/ ParentAlive(t)
    BY <1>1, <1>m, <1>r, <1>t
       DEF CheckParent, TakeLock, AnnounceWait, ParentGone, ParentAlive, Told
<1>2. CASE StageCandidate(t) \/ SwitchPointer(t) \/ MoveAside(t) \/ MoveIn(t)
    BY <1>2 DEF StageCandidate, SwitchPointer, MoveAside, MoveIn
<1>3. CASE \/ AnnounceSwap(t) \/ LaunchCandidate(t) \/ AnnounceLaunch(t) \/ SeeHealth(t)
           \/ Commit(t) \/ HealthTimeout(t)
    BY <1>3, <1>m, <1>r, <1>t
       DEF AnnounceSwap, LaunchCandidate, AnnounceLaunch, SeeHealth, Commit, HealthTimeout, Told
<1>4. CASE Rollback(t) \/ MoveBack(t) \/ AnnounceRollback(t) \/ LaunchPrevious(t)
    BY <1>4, <1>m, <1>r, <1>t
       DEF Rollback, MoveBack, RollbackFailed, AnnounceRollback, LaunchPrevious, Told
<1>5. CASE HelperDies(t)
    BY <1>5 DEF HelperDies
<1>6. QED
    BY <1>1, <1>2, <1>3, <1>4, <1>5 DEF Apply

\* A helper has no part in what an instance has read.
LEMMA HelperReadsNothing ==
    ASSUME TypeOK, NEW t \in Txns, Apply(t) \/ HelperDies(t)
    PROVE  \A a \in Apps : app'[a].seen \in {app[a].seen, None}
<1>t. app \in [Apps -> AppRecord]
    BY DEF TypeOK
<1>s. \A r, u : Started(r, u).seen = None /\ NoApp.seen = None
    BY DEF Started, NoApp
<1>1. CASE LaunchCandidate(t)
    BY <1>1, <1>t, <1>s DEF LaunchCandidate
<1>2. CASE HealthTimeout(t)
    <2>1. helper[t].child \in Apps \cup {None}
        BY DEF TypeOK, HelperRecord
    <2>2. QED
        BY <1>2, <1>t, <1>s, <2>1 DEF HealthTimeout
<1>3. CASE LaunchPrevious(t)
    BY <1>3, <1>t, <1>s DEF LaunchPrevious
<1>4. CASE ~LaunchCandidate(t) /\ ~HealthTimeout(t) /\ ~LaunchPrevious(t)
    BY <1>4
       DEF Apply, HelperDies, CheckParent, TakeLock, AnnounceWait, ParentGone, ParentAlive,
           StageCandidate, SwitchPointer, MoveAside, MoveIn, AnnounceSwap, AnnounceLaunch,
           SeeHealth, Commit, Rollback, MoveBack, AnnounceRollback
<1>5. QED
    BY <1>1, <1>2, <1>3, <1>4

LEMMA HelperFollows ==
    ASSUME IInv, Follows, NEW t \in Txns, Apply(t) \/ HelperDies(t)
    PROVE  Follows'
<1>1. Alone(t) /\ \A a \in Apps : app'[a].seen \in {app[a].seen, None}
    BY HelperAlone, HelperReadsNothing DEF IInv
<1>2. \A s \in TransactionState : journal[t] \in Reached[s] => journal'[t] \in Reached[s]
    <2>1. None \notin TransactionState
        BY NoneAssumption DEF UpdateState
    <2>2. QED
        BY <2>1, JournalGoesOn, ReachedFrom
<1>3. \A u \in Txns, s \in TransactionState :
          journal[u] \in Reached[s] => journal'[u] \in Reached[s]
    BY <1>1, <1>2 DEF Alone
<1>4. \A a \in Apps : app[a].seen # None =>
          app[a].seen.txn \in Txns /\ app[a].seen.state \in TransactionState
    BY DEF IInv, TypeOK, AppRecord
<1>5. \A u \in Txns : db[u] \in TransactionState \ {"prepared"} => journal'[u] \in Reached[db[u]]
    BY <1>3 DEF Follows
<1>6. \A u \in Txns : helper'[u].pc # "none" \/ journal'[u] # None =>
          helper[u].pc # "none" \/ journal[u] # None
    BY <1>1 DEF Alone
<1>7. \A a \in Apps : app'[a].seen # None =>
          journal'[app'[a].seen.txn] \in Reached[app'[a].seen.state]
    BY <1>1, <1>3, <1>4 DEF Follows
<1>8. QED
    BY <1>1, <1>5, <1>6, <1>7 DEF Follows, Alone, table

LEMMA InstanceFollows ==
    ASSUME IInv, Follows, NEW a \in Apps, Instance(a)
    PROVE  Follows'
<1> USE DEF table
<1>t. /\ app \in [Apps -> AppRecord] /\ helper \in [Txns -> HelperRecord]
      /\ db \in [Txns -> UpdateState \cup {None}]
      /\ journal \in [Txns -> TransactionState \cup {None}]
    BY DEF IInv, TypeOK
<1>n. /\ None \notin TransactionState \cup {"downloaded", "download_failed", "applying"}
      /\ {"downloaded", "download_failed", "applying"} \cap TransactionState = {}
      /\ "prepared" \in TransactionState
      /\ UpdateState = TransactionState \cup {"downloaded", "download_failed", "applying"}
    BY NoneAssumption DEF UpdateState, TransactionState
<1>j. UNCHANGED journal
    BY InstanceIsCalm DEF Calm, IInv
<1>u. ASSUME UNCHANGED db, \A t \in Txns : helper'[t].pc = helper[t].pc,
             \A b \in Apps : app'[b].seen \in {app[b].seen, None}
      PROVE  Follows'
    BY <1>u, <1>j DEF Follows
<1>s. \A r, u : Started(r, u).seen = None /\ NoApp.seen = None
    BY DEF Started, NoApp
<1>d. app[a].pc \in Driving =>
          /\ app[a].txn \in Txns
          /\ helper[app[a].txn].pc = "none" /\ journal[app[a].txn] = None
    BY DEF IInv, Drivers
<1>1. CASE UserStarts(a) \/ AcknowledgeUiReady(a) \/ AppEnds(a) \/ AppExits(a)
    <2>1. UNCHANGED db /\ \A t \in Txns : helper'[t].pc = helper[t].pc
        BY <1>1, WithoutTyped DEF UserStarts, AcknowledgeUiReady, AppEnds, AppExits, IInv
    <2>2. \A b \in Apps : app'[b].seen \in {app[b].seen, None}
        BY <1>1, <1>s, <1>t DEF UserStarts, AcknowledgeUiReady, AppEnds, AppExits, AppRecord
    <2>3. QED
        BY <2>1, <2>2, <1>u
<1>2. CASE ListJournals(a) \/ Reconciled(a) \/ PollsOver(a)
    <2>1. UNCHANGED <<db, helper>>
        BY <1>2 DEF ListJournals, Reconciled, PollsOver
    <2>4. ASSUME ListJournals(a)
          PROVE  \A b \in Apps : app'[b].seen = app[b].seen
        <3> DEFINE r == [app[a] EXCEPT
                !.todo = {t \in Txns : db[t] # None /\ db[t] \notin Settled},
                !.pc = IF @ = "booting" THEN "reconciling" ELSE @,
                !.polls = IF app[a].pc = "polling" THEN @ - 1 ELSE @]
        <3>1. r.seen = app[a].seen
            BY <1>t DEF AppRecord
        <3>2. app' = [app EXCEPT ![a] = r]
            BY <2>4, <1>t DEF ListJournals
        <3>3. QED
            BY <3>1, <3>2, <1>t
    <2>2. \A b \in Apps : app'[b].seen = app[b].seen
        BY <1>2, <1>t, <2>4 DEF Reconciled, PollsOver, AppRecord
    <2>3. QED
        BY <2>1, <2>2, <1>u
<1>3. ASSUME NEW t \in Txns, ReadJournal(a, t)
      PROVE  Follows'
    <2>1. UNCHANGED <<db, helper>>
        BY <1>3 DEF ReadJournal
    <2>2. CASE journal[t] = None
        BY <1>3, <2>1, <2>2, <1>t, <1>u DEF ReadJournal, AppRecord
    <2>3. CASE journal[t] # None
        <3>1. /\ app'[a].seen = [txn |-> t, state |-> journal[t]]
              /\ \A b \in Apps \ {a} : app'[b] = app[b]
            BY <1>3, <2>3, <1>t DEF ReadJournal, AppRecord
        <3>2. journal[t] \in Reached[journal[t]]
            BY <2>3, <1>t, ReachedFrom
        <3>3. QED
            BY <2>1, <3>1, <3>2, <1>j DEF Follows
    <2>4. QED
        BY <2>2, <2>3
<1>4. CASE RecordJournal(a)
    <2> DEFINE t == app[a].seen.txn
               state == app[a].seen.state
    <2>1. t \in Txns /\ state \in TransactionState /\ journal[t] \in Reached[state]
        BY <1>4, <1>t DEF RecordJournal, AppRecord, Follows
    <2>2. \A u \in Txns : helper'[u].pc = helper[u].pc
        BY <1>4, WithoutTyped DEF RecordJournal, Refused, IInv
    <2>3. \A b \in Apps : app'[b].seen \in {app[b].seen, None}
        BY <1>4, <1>s, <1>t DEF RecordJournal, Refused, AppRecord
    <2>4. CASE UNCHANGED db
        BY <2>2, <2>3, <2>4, <1>u
    <2>5. CASE ValidUpdateTransition(db[t], state) /\ db' = [db EXCEPT ![t] = state]
        <3>1. db[t] \in UpdateState \ {"prepared"}
            BY <2>1, <1>n, <1>t, ReachedFrom DEF Follows
        <3>2. state # "prepared"
            BY <2>5, <3>1 DEF ValidUpdateTransition, Onward
        <3>3. state \notin {None, "download_failed"}
            BY <2>1, <1>n
        <3>4. QED
            BY <2>1, <2>2, <2>3, <2>5, <3>2, <3>3, <1>j, <1>t DEF Follows
    <2>6. QED
        BY <1>4, <2>4, <2>5 DEF RecordJournal
<1>5. ASSUME NEW t \in Txns, NEW r \in Releases, PrepareUpdate(a, t, r)
      PROVE  Follows'
    <2>1. helper[t].pc = "none" /\ journal[t] = None
        BY <1>5 DEF PrepareUpdate, Fresh, IInv, Untouched
    <2>2. /\ UNCHANGED helper /\ db' = [db EXCEPT ![t] = "prepared"]
          /\ \A b \in Apps : app'[b].seen = app[b].seen
        BY <1>5, <1>t DEF PrepareUpdate, AppRecord
    <2>3. QED
        BY <2>1, <2>2, <1>j, <1>t DEF Follows
<1>6. CASE DownloadUpdate(a)
    <2>1. /\ UNCHANGED helper /\ app[a].pc = "prepared"
          /\ db' = [db EXCEPT ![app[a].txn] = "downloaded"]
                \/ db' = [db EXCEPT ![app[a].txn] = "download_failed"]
          /\ \A b \in Apps : app'[b].seen = app[b].seen
        BY <1>6, <1>t DEF DownloadUpdate, At, Goes, AppRecord
    <2>2. QED
        BY <2>1, <1>d, <1>j, <1>n, <1>t DEF Follows, Driving
<1>7. CASE SpawnHelper(a)
    <2>1. /\ UNCHANGED db /\ app[a].pc = "downloaded"
          /\ \A b \in Apps : app'[b].seen = app[b].seen
        BY <1>7, <1>t DEF SpawnHelper, At, Goes, AppRecord
    <2>2. CASE UNCHANGED helper
        BY <2>1, <2>2, <1>u
    <2>3. CASE /\ db[app[a].txn] = "downloaded"
               /\ helper' = [helper EXCEPT ![app[a].txn].pc = "spawned",
                                           ![app[a].txn].parent = a]
        <3>1. \A u \in Txns : u # app[a].txn => helper'[u] = helper[u]
            BY <2>3, <1>t
        <3>2. QED
            BY <2>1, <2>3, <3>1, <1>j, <1>n DEF Follows
    <2>4. QED
        BY <1>7, <2>2, <2>3 DEF SpawnHelper
<1>8. CASE RecordApplying(a)
    <2>1. /\ UNCHANGED helper
          /\ UNCHANGED db \/ db' = [db EXCEPT ![app[a].txn] = "applying"]
          /\ \A b \in Apps : app'[b].seen = app[b].seen
        BY <1>8, <1>t DEF RecordApplying, At, Goes, AppRecord
    <2>2. \A u \in Txns : db'[u] = db[u] \/ db'[u] = "applying"
        BY <2>1, <1>t
    <2>3. "applying" \notin {None, "prepared", "download_failed"}
        BY <1>n
    <2>4. QED
        BY <2>1, <2>2, <2>3, <1>j, <1>n DEF Follows
<1>9. QED
    BY <1>1, <1>2, <1>3, <1>4, <1>5, <1>6, <1>7, <1>8 DEF Instance, Reconciles

LEMMA FollowsInvariant == Spec => []Follows
<1>1. Init => Follows
    BY NoneAssumption DEF Init, Follows, NoApp, NoHelper, UpdateState
<1>2. IInv /\ Follows /\ [Next]_vars => Follows'
    <2>1. IInv /\ Follows /\ UNCHANGED vars => Follows'
        BY DEF vars, table, Follows
    <2>2. QED
        BY <2>1, HelperFollows, InstanceFollows DEF Next
<1>3. QED
    BY <1>1, <1>2, PayloadInvariant, PTL DEF Spec

\* A later start of the program is refused for the reasons listed and no other, whichever
\* processes die, whatever fails and however many instances reconcile at any moment
\* (storage.rs valid_update_transition, src-tauri lib.rs reconcile).
THEOREM BlockedStartsAreListed == Spec => []BlockedStartsAreKnown
<1>1. ASSUME Follows, NEW t \in Txns, TypeOK, StartBlockedBy(t)
      PROVE  \/ SkippedLaunch(t)
             \/ db[t] \in {"waiting_for_exit", "downloaded"}
             \/ db[t] = "applying" /\ journal[t] = "prepared"
    <2>1. /\ db[t] \in UpdateState \ {"prepared", "download_failed"}
          /\ journal[t] \in TransactionState
          /\ db[t] \in TransactionState => journal[t] \in Reached[db[t]]
        BY <1>1 DEF StartBlockedBy, Follows, TypeOK
    <2>2. db[t] \notin Settled /\ db[t] # journal[t] /\ journal[t] \notin Onward[db[t]]
        BY <1>1 DEF StartBlockedBy, ValidUpdateTransition
    <2>3. CASE db[t] = "applying"
        BY <2>1, <2>2, <2>3 DEF Onward, UpdateState
    <2>4. CASE db[t] \in {"swapped", "launched", "healthy", "rollback_failed"}
        BY <2>1, <2>2, <2>4 DEF Onward, Reached, UpdateState, TransactionState, SkippedLaunch
    <2>5. QED
        BY <2>1, <2>2, <2>3, <2>4 DEF UpdateState, TransactionState, Settled, Verdicts
<1>2. IInv /\ Follows => BlockedStartsAreKnown
    BY <1>1 DEF IInv, BlockedStartsAreKnown
<1>3. QED
    BY <1>2, PayloadInvariant, FollowsInvariant, PTL

--------------------------------------------------------------------------------
(* A user who waits.                                                        *)

Before == {"spawned", "checked", "prepared", "waiting"}
Watching == {"started", "health", "healthy"}
Reading == {"reconciling", "polling"}
Waiting == {"spawned", "exiting", "idle"}
Candidate == {"booting", "up", "viewing", "idle"} \cup Reading

\* The instance that runs while the helper of t is at work has asked for it, or is the
\* candidate it watches.
Attended(t, a) ==
    \/ /\ helper[t].pc \in Before /\ helper[t].parent = a
       /\ app[a].pc \in Waiting /\ app[a].txn = t
    \/ helper[t].pc \in Watching /\ helper[t].child = a /\ app[a].pc \in Candidate

\* One instance and one helper at a time, and no helper beside an instance that goes to
\* apply an update.
OneAtATime ==
    /\ \A a, b \in Apps : ~Off(a) /\ ~Off(b) => a = b
    /\ \A t, u \in Txns : helper[t].pc # "none" /\ helper[u].pc # "none" => t = u
    /\ \A a \in Apps : app[a].pc \in Driving => Resting
    /\ \A t \in Txns, a \in Apps : helper[t].pc # "none" /\ ~Off(a) => Attended(t, a)

\* What runs is what is installed, and it is what an update is made for until the payload
\* is touched.
RunsInstalled ==
    /\ \A a \in Apps : ~Off(a) => app[a].release = installed
    /\ \A a \in Apps : app[a].pc \in Driving => from[app[a].txn] = installed
    /\ \A t \in Txns : helper[t].pc \in Before \cup {"staging", "staged"} => from[t] = installed

\* A journal that was read is recorded before anything else is done.
SeenIsListed ==
    \A a \in Apps : app[a].seen # None =>
        app[a].pc \in Reading /\ app[a].seen.txn \in app[a].todo

Patient == OneAtATime /\ RunsInstalled /\ SeenIsListed

\* A step of an instance that runs and goes on in its role, or ends.
LEMMA RoleKept ==
    ASSUME IInv, Patient, NEW a \in Apps, ~Off(a),
           \A b \in Apps \ {a} : app'[b] = app[b],
           \A t \in Txns : helper'[t].pc = helper[t].pc,
           app'[a].pc = "off" \/
               /\ app'[a].txn = app[a].txn /\ app'[a].release = app[a].release
               /\ UNCHANGED helper,
           app'[a].pc \in Driving => app[a].pc \in Driving,
           app[a].pc \in Waiting => app'[a].pc \in Waiting \cup {"off"},
           app[a].pc \in Candidate => app'[a].pc \in Candidate \cup {"off"},
           UNCHANGED <<from, installed>>
    PROVE  OneAtATime' /\ RunsInstalled'
<1>1. \A b \in Apps \ {a} : Off(b) /\ Off(b)'
    BY DEF Patient, OneAtATime, Off
<1>2. Resting => Resting'
    BY DEF Resting
<1>3. OneAtATime'
    <2>1. \A b, c \in Apps : ~Off(b)' /\ ~Off(c)' => b = c
        BY <1>1
    <2>2. \A t, u \in Txns : helper'[t].pc # "none" /\ helper'[u].pc # "none" => t = u
        BY DEF Patient, OneAtATime
    <2>3. \A b \in Apps : app'[b].pc \in Driving => Resting'
        BY <1>1, <1>2 DEF Patient, OneAtATime, Off, Driving
    <2>4. \A t \in Txns, b \in Apps : helper'[t].pc # "none" /\ ~Off(b)' => Attended(t, b)'
        BY <1>1 DEF Patient, OneAtATime, Off, Attended
    <2>5. QED
        BY <2>1, <2>2, <2>3, <2>4 DEF OneAtATime, Off
<1>4. RunsInstalled'
    BY <1>1 DEF Patient, RunsInstalled, Off, Driving
<1>5. QED
    BY <1>3, <1>4

\* The steps of an instance.
LEMMA PatientInstance ==
    ASSUME IInv, Patient, ~Hasty, NEW a \in Apps, Instance(a)
    PROVE  OneAtATime' /\ RunsInstalled'
<1> USE DEF table, payload
<1>t. /\ app \in [Apps -> AppRecord] /\ helper \in [Txns -> HelperRecord]
      /\ from \in [Txns -> Releases \cup {None}]
    BY DEF IInv, TypeOK
<1>s. \A r, t : /\ Started(r, t).pc = "booting" /\ Started(r, t).release = r
                /\ NoApp.pc = "off"
    BY DEF Started, NoApp
<1>r. \A b \in Apps \ {a} : ~Off(a) => Off(b)
    BY DEF Patient, OneAtATime
<1>1. CASE UserStarts(a)
    <2>1. Resting /\ (\A b \in Apps : Off(b)) /\ UNCHANGED <<helper, from, installed>>
        BY <1>1 DEF UserStarts
    <2>2. /\ \A b \in Apps \ {a} : app'[b].pc = "off"
          /\ app'[a].pc = "booting" /\ app'[a].release = installed
        BY <1>1, <1>s, <1>t, <2>1 DEF UserStarts, Off
    <2>3. OneAtATime'
        BY <2>1, <2>2 DEF OneAtATime, Off, Resting, Driving
    <2>4. RunsInstalled'
        BY <2>1, <2>2 DEF RunsInstalled, Patient, Off, Resting, Driving
    <2>5. QED
        BY <2>3, <2>4
<1>2. CASE AppEnds(a) \/ AppExits(a)
    <2>1. ~Off(a) /\ app' = [app EXCEPT ![a] = NoApp] /\ UNCHANGED <<from, installed>>
        BY <1>2 DEF AppEnds, AppExits, At, Off
    <2>2. \A t \in Txns : helper'[t].pc = helper[t].pc
        BY <1>2, WithoutTyped DEF AppEnds, AppExits, IInv
    <2>3. app'[a].pc = "off" /\ \A b \in Apps \ {a} : app'[b] = app[b]
        BY <2>1, <1>s, <1>t
    <2>4. "off" \notin Driving
        BY DEF Driving
    <2>5. QED
        BY <2>1, <2>2, <2>3, <2>4, RoleKept
<1>3. CASE Reconciles(a)
    <2>1. CASE ListJournals(a)
        <3> DEFINE r == [app[a] EXCEPT
                !.todo = {t \in Txns : db[t] # None /\ db[t] \notin Settled},
                !.pc = IF @ = "booting" THEN "reconciling" ELSE @,
                !.polls = IF app[a].pc = "polling" THEN @ - 1 ELSE @]
        <3>1. app[a].pc \in {"booting", "polling"}
            BY <2>1 DEF ListJournals
        <3>2. r.pc \in Reading /\ r.release = app[a].release /\ r.txn = app[a].txn
            BY <1>t, <3>1 DEF AppRecord, Reading
        <3>3. app' = [app EXCEPT ![a] = r]
            BY <2>1, <1>t DEF ListJournals
        <3>4. app'[a] = r /\ \A b \in Apps \ {a} : app'[b] = app[b]
            BY <3>3, <1>t
        <3>5. UNCHANGED <<helper, from, installed>>
            BY <2>1 DEF ListJournals
        <3>6. QED
            BY <3>1, <3>2, <3>4, <3>5, RoleKept
               DEF Off, Driving, Waiting, Candidate, Reading
    <2>2. ASSUME NEW t \in Txns, ReadJournal(a, t)
          PROVE  OneAtATime' /\ RunsInstalled'
        <3>1. /\ app[a].pc \in Reading /\ app'[a].pc = app[a].pc
              /\ app'[a].release = app[a].release /\ app'[a].txn = app[a].txn
              /\ \A b \in Apps \ {a} : app'[b] = app[b]
              /\ UNCHANGED <<helper, from, installed>>
            BY <2>2, <1>t DEF ReadJournal, AppRecord, Reading
        <3>2. QED
            BY <3>1, RoleKept DEF Off, Driving, Waiting, Candidate, Reading
    <2>3. CASE RecordJournal(a)
        <3>1. app[a].pc \in Reading
            BY <2>3 DEF RecordJournal, Patient, SeenIsListed
        <3>2. /\ app'[a].pc = "off" \/
                     /\ app'[a].pc \in {app[a].pc, "viewing"}
                     /\ app'[a].release = app[a].release /\ app'[a].txn = app[a].txn
                     /\ UNCHANGED helper
              /\ \A b \in Apps \ {a} : app'[b] = app[b]
              /\ UNCHANGED <<from, installed>>
            BY <2>3, <1>t, <1>s DEF RecordJournal, Refused, AppRecord
        <3>3. \A t \in Txns : helper'[t].pc = helper[t].pc
            BY <2>3, WithoutTyped DEF RecordJournal, Refused, IInv
        <3>4. QED
            BY <3>1, <3>2, <3>3, RoleKept DEF Off, Driving, Waiting, Candidate, Reading
    <2>4. CASE Reconciled(a) \/ PollsOver(a)
        <3>1. /\ app[a].pc \in Reading /\ app'[a].pc \in {"up", "idle"}
              /\ app'[a].release = app[a].release /\ app'[a].txn = app[a].txn
              /\ \A b \in Apps \ {a} : app'[b] = app[b]
              /\ UNCHANGED <<helper, from, installed>>
            BY <2>4, <1>t DEF Reconciled, PollsOver, AppRecord, Reading
        <3>2. QED
            BY <3>1, RoleKept DEF Off, Driving, Waiting, Candidate, Reading
    <2>5. QED
        BY <1>3, <2>1, <2>2, <2>3, <2>4 DEF Reconciles
<1>4. CASE AcknowledgeUiReady(a)
    <2>1. /\ app[a].pc = "up" /\ app'[a].pc \in {"polling", "idle"}
          /\ app'[a].release = app[a].release /\ app'[a].txn = app[a].txn
          /\ \A b \in Apps \ {a} : app'[b] = app[b]
          /\ UNCHANGED <<helper, from, installed>>
        BY <1>4, <1>t DEF AcknowledgeUiReady, AppRecord
    <2>2. QED
        BY <2>1, RoleKept DEF Off, Driving, Waiting, Candidate, Reading
<1>5. ASSUME NEW t \in Txns, NEW r \in Releases, PrepareUpdate(a, t, r)
      PROVE  OneAtATime' /\ RunsInstalled'
    <2>1. /\ app[a].pc = "idle" /\ Resting /\ UNCHANGED <<helper, installed>>
          /\ from' = [from EXCEPT ![t] = app[a].release]
        BY <1>5 DEF PrepareUpdate, At
    <2>2. /\ app'[a].pc = "prepared" /\ app'[a].txn = t /\ app'[a].release = app[a].release
          /\ \A b \in Apps \ {a} : app'[b] = app[b]
        BY <1>5, <1>t DEF PrepareUpdate, AppRecord
    <2>3. \A b \in Apps \ {a} : Off(b)'
        BY <2>1, <2>2, <1>r DEF Off
    <2>4. OneAtATime'
        BY <2>1, <2>2, <2>3 DEF OneAtATime, Off, Resting, Driving
    <2>5. from'[t] = installed
        BY <2>1, <1>t DEF Patient, RunsInstalled, Off
    <2>6. RunsInstalled'
        BY <2>1, <2>2, <2>3, <2>5 DEF Patient, RunsInstalled, Off, Resting, Driving, Before
    <2>7. QED
        BY <2>4, <2>6
<1>6. CASE DownloadUpdate(a)
    <2>1. /\ app[a].pc = "prepared" /\ app'[a].pc \in {"downloaded", "idle"}
          /\ app'[a].release = app[a].release /\ app'[a].txn = app[a].txn
          /\ \A b \in Apps \ {a} : app'[b] = app[b]
          /\ UNCHANGED <<helper, from, installed>>
        BY <1>6, <1>t DEF DownloadUpdate, At, Goes, AppRecord
    <2>2. QED
        BY <2>1, RoleKept DEF Off, Driving, Waiting, Candidate, Reading
<1>7. CASE SpawnHelper(a)
    <2>1. /\ app[a].pc = "downloaded" /\ app[a].txn \in Txns /\ Resting
          /\ from[app[a].txn] = installed
          /\ app'[a].release = app[a].release /\ app'[a].txn = app[a].txn
          /\ \A b \in Apps \ {a} : app'[b] = app[b]
          /\ UNCHANGED <<from, installed>>
        BY <1>7, <1>t DEF SpawnHelper, At, Goes, AppRecord, IInv, Drivers, Driving, Patient,
                          OneAtATime, RunsInstalled
    <2>2. CASE app'[a].pc = "idle" /\ UNCHANGED helper
        BY <2>1, <2>2, RoleKept DEF Off, Driving, Waiting, Candidate, Reading
    <2>3. CASE /\ app'[a].pc = "spawned"
               /\ helper' = [helper EXCEPT ![app[a].txn].pc = "spawned",
                                           ![app[a].txn].parent = a]
        <3> DEFINE t == app[a].txn
        <3>1. /\ helper'[t].pc = "spawned" /\ helper'[t].parent = a
              /\ \A u \in Txns \ {t} : helper'[u].pc = "none"
            BY <2>1, <2>3, <1>t DEF HelperRecord, Resting
        <3>2. \A b \in Apps \ {a} : Off(b)'
            BY <2>1, <1>r DEF Off
        <3>3. OneAtATime'
            <4>1. \A b \in Apps : ~Off(b)' => b = a
                BY <3>2
            <4>2. \A u \in Txns : helper'[u].pc # "none" => u = t
                BY <3>1
            <4>3. Attended(t, a)'
                BY <2>1, <2>3, <3>1 DEF Attended, Before, Waiting
            <4>4. \A b \in Apps : app'[b].pc \notin Driving
                BY <2>3, <3>2 DEF Off, Driving
            <4>5. \A u \in Txns, b \in Apps : helper'[u].pc # "none" /\ ~Off(b)' => Attended(u, b)'
                BY <2>1, <4>1, <4>2, <4>3 DEF Attended
            <4>6. \A b, c \in Apps : ~Off(b)' /\ ~Off(c)' => b = c
                BY <4>1
            <4>7. \A u, w \in Txns : helper'[u].pc # "none" /\ helper'[w].pc # "none" => u = w
                BY <4>2
            <4>8. QED
                BY <4>4, <4>5, <4>6, <4>7 DEF OneAtATime, Off
        <3>4. RunsInstalled'
            BY <2>1, <2>3, <3>1, <3>2
               DEF RunsInstalled, Patient, Off, Driving, Before, Resting
        <3>5. QED
            BY <3>3, <3>4
    <2>4. QED
        BY <1>7, <1>t, <2>2, <2>3 DEF SpawnHelper, Goes, AppRecord
<1>8. CASE RecordApplying(a)
    <2>1. /\ app[a].pc = "spawned" /\ app'[a].pc \in {"exiting", "idle"}
          /\ app'[a].release = app[a].release /\ app'[a].txn = app[a].txn
          /\ \A b \in Apps \ {a} : app'[b] = app[b]
          /\ UNCHANGED <<helper, from, installed>>
        BY <1>8, <1>t DEF RecordApplying, At, Goes, AppRecord
    <2>2. QED
        BY <2>1, RoleKept DEF Off, Driving, Waiting, Candidate, Reading
<1>9. QED
    BY <1>1, <1>2, <1>3, <1>4, <1>5, <1>6, <1>7, <1>8 DEF Instance

\* A helper does nothing to the instances but to start one and to end its candidate.
LEMMA HelperOnApps ==
    ASSUME TypeOK, NEW t \in Txns, Apply(t) \/ HelperDies(t)
    PROVE  \/ UNCHANGED app
           \/ \E a \in Apps : Off(a) /\ helper[t].pc \notin Before \cup Watching
                  /\ \E u \in {t, None} : app' = [app EXCEPT ![a] = Started(installed, u)]
           \/ /\ helper[t].pc = "health" /\ helper[t].child \in Apps
              /\ app' = [app EXCEPT ![helper[t].child] = NoApp]
<1> USE DEF Before, Watching, Stands
<1>1. CASE LaunchCandidate(t)
    BY <1>1 DEF LaunchCandidate
<1>2. CASE HealthTimeout(t)
    <2>1. helper[t].child \in Apps \cup {None}
        BY DEF TypeOK, HelperRecord
    <2>2. QED
        BY <1>2, <2>1 DEF HealthTimeout
<1>3. CASE LaunchPrevious(t)
    BY <1>3 DEF LaunchPrevious
<1>4. CASE ~LaunchCandidate(t) /\ ~HealthTimeout(t) /\ ~LaunchPrevious(t)
    BY <1>4
       DEF Apply, HelperDies, CheckParent, TakeLock, AnnounceWait, ParentGone, ParentAlive,
           StageCandidate, SwitchPointer, MoveAside, MoveIn, AnnounceSwap, AnnounceLaunch,
           SeeHealth, Commit, Rollback, MoveBack, AnnounceRollback
<1>5. QED
    BY <1>1, <1>2, <1>3, <1>4

\* What was read is listed, whoever moves.
LEMMA SeenStaysListed ==
    ASSUME IInv, SeenIsListed,
           \/ \E a \in Apps : Instance(a)
           \/ \E t \in Txns : Apply(t) \/ HelperDies(t)
    PROVE  SeenIsListed'
<1>t. /\ app \in [Apps -> AppRecord]
      /\ journal \in [Txns -> TransactionState \cup {None}]
    BY DEF IInv, TypeOK
<1>s. \A r, u : Started(r, u).seen = None /\ NoApp.seen = None
    BY DEF Started, NoApp
<1>o. ASSUME NEW a \in Apps, NEW r, app' = [app EXCEPT ![a] = r],
             r.seen # None => r.pc \in Reading /\ r.seen.txn \in r.todo
      PROVE  SeenIsListed'
    BY <1>o, <1>t DEF SeenIsListed
<1>u. UNCHANGED app => SeenIsListed'
    BY DEF SeenIsListed
<1>1. ASSUME NEW a \in Apps, Instance(a)
      PROVE  SeenIsListed'
    <2>l. app[a].seen # None => app[a].pc \in Reading /\ app[a].seen.txn \in app[a].todo
        BY DEF SeenIsListed
    <2>1. CASE UserStarts(a) \/ AppEnds(a) \/ AppExits(a)
        BY <2>1, <1>o, <1>s DEF UserStarts, AppEnds, AppExits
    <2>2. CASE ListJournals(a)
        <3> DEFINE r == [app[a] EXCEPT
                !.todo = {t \in Txns : db[t] # None /\ db[t] \notin Settled},
                !.pc = IF @ = "booting" THEN "reconciling" ELSE @,
                !.polls = IF app[a].pc = "polling" THEN @ - 1 ELSE @]
        <3>1. app[a].seen = None
            BY <2>2, <2>l DEF ListJournals, Reading
        <3>2. r.seen = None
            BY <3>1, <1>t DEF AppRecord
        <3>3. app' = [app EXCEPT ![a] = r]
            BY <2>2, <1>t DEF ListJournals
        <3>4. QED
            BY <1>o, <3>2, <3>3
    <2>3. ASSUME NEW t \in Txns, ReadJournal(a, t)
          PROVE  SeenIsListed'
        <3>1. app[a].pc \in Reading /\ t \in app[a].todo /\ app[a].seen = None
            BY <2>3 DEF ReadJournal, Reading
        <3>2. CASE journal[t] = None
            <4>1. app' = [app EXCEPT ![a].todo = @ \ {t}]
                BY <2>3, <3>2 DEF ReadJournal
            <4>2. app'[a].seen = None /\ \A b \in Apps \ {a} : app'[b] = app[b]
                BY <3>1, <4>1, <1>t DEF AppRecord
            <4>3. QED
                BY <4>2 DEF SeenIsListed
        <3>3. CASE journal[t] # None
            <4>1. app' = [app EXCEPT ![a].seen = [txn |-> t, state |-> journal[t]]]
                BY <2>3, <3>3 DEF ReadJournal
            <4>2. /\ app'[a].pc \in Reading /\ app'[a].seen.txn \in app'[a].todo
                  /\ \A b \in Apps \ {a} : app'[b] = app[b]
                BY <3>1, <4>1, <1>t DEF AppRecord
            <4>3. QED
                BY <4>2 DEF SeenIsListed
        <3>4. QED
            BY <3>2, <3>3
    <2>4. CASE RecordJournal(a)
        <3>1. app'[a].seen = None /\ \A b \in Apps \ {a} : app'[b] = app[b]
            BY <2>4, <1>t, <1>s DEF RecordJournal, Refused, AppRecord
        <3>2. QED
            BY <3>1 DEF SeenIsListed
    <2>5. CASE \/ Reconciled(a) \/ PollsOver(a) \/ AcknowledgeUiReady(a) \/ DownloadUpdate(a)
               \/ SpawnHelper(a) \/ RecordApplying(a)
               \/ \E t \in Txns, r \in Releases : PrepareUpdate(a, t, r)
        <3>1. app[a].seen = None
            BY <2>5, <2>l DEF Reconciled, PollsOver, AcknowledgeUiReady, DownloadUpdate,
                              SpawnHelper, RecordApplying, PrepareUpdate, At, Reading
        <3>2. app'[a].seen = None /\ \A b \in Apps \ {a} : app'[b] = app[b]
            BY <2>5, <3>1, <1>t
               DEF Reconciled, PollsOver, AcknowledgeUiReady, DownloadUpdate, SpawnHelper,
                   RecordApplying, PrepareUpdate, Goes, AppRecord
        <3>3. QED
            BY <3>2 DEF SeenIsListed
    <2>6. QED
        BY <1>1, <2>1, <2>2, <2>3, <2>4, <2>5 DEF Instance, Reconciles
<1>2. ASSUME NEW t \in Txns, Apply(t) \/ HelperDies(t)
      PROVE  SeenIsListed'
    <2>1. TypeOK
        BY DEF IInv
    <2>2. ASSUME NEW a \in Apps, NEW r, r.seen = None, app' = [app EXCEPT ![a] = r]
          PROVE  SeenIsListed'
        BY <2>2, <1>o
    <2>3. QED
        BY <1>2, <1>u, <1>s, <2>1, <2>2, HelperOnApps
<1>3. QED
    BY <1>1, <1>2

\* A step of the helper of t that leaves at most one instance, in its role and with what is
\* installed.
LEMMA HelperGoes ==
    ASSUME IInv, Patient, NEW t \in Txns, Alone(t),
           \A a, b \in Apps : ~Off(a)' /\ ~Off(b)' => a = b,
           \A a \in Apps : ~Off(a)' =>
               /\ app'[a].release = installed' /\ app'[a].pc \notin Driving
               /\ helper'[t].pc # "none" => Attended(t, a)',
           helper'[t].pc \in Before \cup {"staging", "staged"} =>
               helper[t].pc \in Before \cup {"staging", "staged"} /\ installed' = installed
    PROVE  OneAtATime' /\ RunsInstalled'
<1>1. helper[t].pc # "none" /\ UNCHANGED from
    BY DEF Alone, table
<1>2. \A u \in Txns \ {t} : helper'[u].pc = "none"
    BY <1>1 DEF Alone, Patient, OneAtATime
<1>3. \A a \in Apps : app'[a].pc \notin Driving
    BY DEF Off, Driving
<1>4. OneAtATime'
    <2>1. \A u, w \in Txns : helper'[u].pc # "none" /\ helper'[w].pc # "none" => u = w
        BY <1>2
    <2>2. \A u \in Txns, a \in Apps : helper'[u].pc # "none" /\ ~Off(a)' => Attended(u, a)'
        BY <1>2 DEF Attended
    <2>3. QED
        BY <1>3, <2>1, <2>2 DEF OneAtATime, Off
<1>5. RunsInstalled'
    BY <1>1, <1>2, <1>3 DEF RunsInstalled, Patient, Off, Before
<1>6. QED
    BY <1>4, <1>5

\* As long as the program that asked for the update is awaited.
LEMMA PatientBefore ==
    ASSUME IInv, Patient, NEW t \in Txns, Apply(t) \/ HelperDies(t), helper[t].pc \in Before
    PROVE  OneAtATime' /\ RunsInstalled'
<1> USE DEF Stands, Before, payload
<1>1. Alone(t) /\ TypeOK
    BY HelperAlone DEF IInv
<1>2. \/ CheckParent(t) \/ TakeLock(t) \/ AnnounceWait(t) \/ ParentGone(t) \/ ParentAlive(t)
      \/ HelperDies(t)
    BY DEF Apply, StageCandidate, SwitchPointer, MoveAside, MoveIn, AnnounceSwap,
           LaunchCandidate, AnnounceLaunch, SeeHealth, Commit, HealthTimeout, Rollback,
           MoveBack, AnnounceRollback, LaunchPrevious
<1>3. UNCHANGED <<app, installed>>
    BY <1>2 DEF CheckParent, TakeLock, AnnounceWait, ParentGone, ParentAlive, HelperDies
<1>4. \/ helper'[t].pc = "none"
      \/ helper'[t].pc \in Before /\ helper'[t].parent = helper[t].parent
      \/ helper'[t].pc = "staging" /\ helper[t].parent = None
    <2>1. \A pc : To(t, pc) => helper'[t].pc = pc /\ helper'[t].parent = helper[t].parent
        BY <1>1 DEF To, TypeOK, HelperRecord
    <2>2. Ends(t) => helper'[t].pc = "none"
        BY <1>1, EndsMoves
    <2>3. CASE CheckParent(t) \/ AnnounceWait(t) \/ ParentGone(t) \/ ParentAlive(t)
        BY <2>1, <2>2, <2>3 DEF CheckParent, AnnounceWait, ParentGone, ParentAlive
    <2>4. CASE TakeLock(t)
        BY <1>1, <2>2, <2>4 DEF TakeLock, TypeOK, HelperRecord
    <2>5. CASE HelperDies(t)
        BY <2>2, <2>5 DEF HelperDies
    <2>6. QED
        BY <1>2, <2>3, <2>4, <2>5
<1>5. ASSUME NEW a \in Apps, ~Off(a)
      PROVE  /\ helper[t].parent = a /\ app[a].pc \in Waiting /\ app[a].txn = t
             /\ app[a].release = installed
    BY <1>5 DEF Patient, OneAtATime, RunsInstalled, Attended, Watching
<1>6. None \notin Apps
    BY NoneAssumption
<1>7. \A a \in Apps : ~Off(a)' =>
          /\ app'[a].release = installed' /\ app'[a].pc \notin Driving
          /\ helper'[t].pc # "none" => Attended(t, a)'
    BY <1>3, <1>4, <1>5, <1>6 DEF Off, Attended, Driving, Waiting
<1>8. \A a, b \in Apps : ~Off(a)' /\ ~Off(b)' => a = b
    BY <1>3, <1>5 DEF Off
<1>9. QED
    BY <1>1, <1>3, <1>4, <1>7, <1>8, HelperGoes

\* As long as the candidate is watched.
LEMMA PatientWatching ==
    ASSUME IInv, Patient, NEW t \in Txns, Apply(t) \/ HelperDies(t), helper[t].pc \in Watching
    PROVE  OneAtATime' /\ RunsInstalled'
<1> USE DEF Stands, Watching, payload
<1>1. Alone(t) /\ TypeOK
    BY HelperAlone DEF IInv
<1>2. \/ AnnounceLaunch(t) \/ SeeHealth(t) \/ Commit(t) \/ HealthTimeout(t) \/ HelperDies(t)
    BY DEF Apply, CheckParent, TakeLock, AnnounceWait, ParentGone, ParentAlive,
           StageCandidate, SwitchPointer, MoveAside, MoveIn, AnnounceSwap,
           LaunchCandidate, Rollback, MoveBack, AnnounceRollback, LaunchPrevious
<1>3. UNCHANGED installed
    BY <1>2 DEF AnnounceLaunch, SeeHealth, Commit, HealthTimeout, HelperDies
<1>4. ASSUME NEW a \in Apps, ~Off(a)
      PROVE  /\ helper[t].child = a /\ app[a].pc \in Candidate
             /\ app[a].release = installed
    BY <1>4 DEF Patient, OneAtATime, RunsInstalled, Attended, Before
<1>5. CASE HealthTimeout(t)
    <2>1. helper[t].child \in Apps \cup {None}
        BY <1>1 DEF TypeOK, HelperRecord
    <2>2. helper'[t].pc = "rolling"
        BY <1>1, <1>5, <2>1, WithoutTyped DEF HealthTimeout, TypeOK, HelperRecord
    <2>3. None \notin Apps /\ NoApp.pc = "off"
        BY NoneAssumption DEF NoApp
    <2>4. \A a \in Apps : Off(a)'
        BY <1>1, <1>4, <1>5, <2>1, <2>3 DEF HealthTimeout, Off, TypeOK
    <2>5. QED
        BY <1>1, <2>2, <2>4, HelperGoes DEF Before
<1>6. CASE \/ AnnounceLaunch(t) \/ SeeHealth(t) \/ Commit(t) \/ HelperDies(t)
    <2>1. UNCHANGED app
        BY <1>6 DEF AnnounceLaunch, SeeHealth, Commit, HelperDies
    <2>2. \/ helper'[t].pc = "none"
          \/ helper'[t].pc \in Watching /\ helper'[t].child = helper[t].child
        <3>1. \A pc : To(t, pc) => helper'[t].pc = pc /\ helper'[t].child = helper[t].child
            BY <1>1 DEF To, TypeOK, HelperRecord
        <3>2. Ends(t) => helper'[t].pc = "none"
            BY <1>1, EndsMoves
        <3>3. QED
            BY <1>6, <3>1, <3>2 DEF AnnounceLaunch, SeeHealth, Commit, HelperDies
    <2>3. \A a \in Apps : ~Off(a)' =>
              /\ app'[a].release = installed' /\ app'[a].pc \notin Driving
              /\ helper'[t].pc # "none" => Attended(t, a)'
        BY <1>3, <1>4, <2>1, <2>2 DEF Off, Attended, Driving, Candidate, Reading
    <2>4. \A a, b \in Apps : ~Off(a)' /\ ~Off(b)' => a = b
        BY <1>4, <2>1 DEF Off
    <2>5. QED
        BY <1>1, <2>2, <2>3, <2>4, HelperGoes DEF Before
<1>7. QED
    BY <1>2, <1>5, <1>6

\* Otherwise nothing runs, until the helper starts the candidate or the program again.
LEMMA PatientBetween ==
    ASSUME IInv, Patient, NEW t \in Txns, Apply(t) \/ HelperDies(t),
           helper[t].pc \notin Before \cup Watching
    PROVE  OneAtATime' /\ RunsInstalled'
<1> USE DEF Stands, payload
<1>1. Alone(t) /\ TypeOK
    BY HelperAlone DEF IInv
<1>2. \A a \in Apps : Off(a)
    BY <1>1 DEF Patient, OneAtATime, Attended, Alone
<1>m. /\ \A pc : To(t, pc) => helper'[t].pc = pc
      /\ Ends(t) => helper'[t].pc = "none"
    BY <1>1, ToMoves, EndsMoves
<1>s. \A r, u : Started(r, u).pc = "booting" /\ Started(r, u).release = r
    BY DEF Started, NoApp
<1>3. CASE LaunchCandidate(t)
    <2>1. CASE Ends(t) /\ UNCHANGED app
        BY <1>1, <1>2, <1>m, <2>1, HelperGoes DEF Off, Before
    <2>2. ASSUME NEW a \in Apps, app' = [app EXCEPT ![a] = Started(installed, t)],
                 helper' = [helper EXCEPT ![t].pc = "started", ![t].child = a]
          PROVE  OneAtATime' /\ RunsInstalled'
        <3>1. helper'[t].pc = "started" /\ helper'[t].child = a
            BY <1>1, <2>2 DEF TypeOK, HelperRecord
        <3>2. /\ app'[a].pc = "booting" /\ app'[a].release = installed
              /\ \A b \in Apps \ {a} : app'[b].pc = "off"
            BY <1>1, <1>2, <1>s, <2>2 DEF TypeOK, Off
        <3>3. UNCHANGED installed
            BY <1>3 DEF LaunchCandidate
        <3>4. Attended(t, a)'
            BY <3>1, <3>2 DEF Attended, Watching, Candidate
        <3>5. QED
            BY <1>1, <3>1, <3>2, <3>3, <3>4, HelperGoes DEF Off, Before, Driving
    <2>3. QED
        BY <1>3, <2>1, <2>2 DEF LaunchCandidate
<1>4. CASE LaunchPrevious(t)
    <2>1. helper'[t].pc = "none" /\ UNCHANGED installed
        BY <1>4, <1>m DEF LaunchPrevious
    <2>2. CASE UNCHANGED app
        BY <1>1, <1>2, <2>1, <2>2, HelperGoes DEF Off, Before
    <2>3. ASSUME NEW a \in Apps, app' = [app EXCEPT ![a] = Started(installed, None)]
          PROVE  OneAtATime' /\ RunsInstalled'
        <3>1. /\ app'[a].pc = "booting" /\ app'[a].release = installed
              /\ \A b \in Apps \ {a} : app'[b].pc = "off"
            BY <1>1, <1>2, <1>s, <2>3 DEF TypeOK, Off
        <3>2. QED
            BY <1>1, <2>1, <3>1, HelperGoes DEF Off, Before, Driving
    <2>4. QED
        BY <1>4, <2>2, <2>3 DEF LaunchPrevious
<1>5. CASE ~LaunchCandidate(t) /\ ~LaunchPrevious(t)
    <2>1. UNCHANGED app
        BY <1>1, <1>5, HelperOnApps
           DEF Apply, HelperDies, CheckParent, TakeLock, AnnounceWait, ParentGone, ParentAlive,
               StageCandidate, SwitchPointer, MoveAside, MoveIn, AnnounceSwap, AnnounceLaunch,
               SeeHealth, Commit, HealthTimeout, Rollback, MoveBack, AnnounceRollback,
               Before, Watching
    <2>2. helper'[t].pc \in Before \cup {"staging", "staged"} =>
              helper[t].pc = "staging" /\ installed' = installed
        <3>1. CASE StageCandidate(t)
            BY <1>1, <3>1, <1>m DEF StageCandidate
        <3>2. CASE SwitchPointer(t) \/ MoveAside(t) \/ MoveIn(t)
            BY <3>2, <1>m DEF SwitchPointer, MoveAside, MoveIn, Before
        <3>3. CASE AnnounceSwap(t) \/ Rollback(t) \/ MoveBack(t) \/ AnnounceRollback(t)
                   \/ HelperDies(t)
            BY <3>3, <1>m DEF AnnounceSwap, Rollback, MoveBack, RollbackFailed,
                              AnnounceRollback, HelperDies, Before
        <3>4. QED
            BY <1>5, <3>1, <3>2, <3>3
               DEF Apply, CheckParent, TakeLock, AnnounceWait, ParentGone, ParentAlive,
                   AnnounceLaunch, SeeHealth, Commit, HealthTimeout, Before, Watching
    <2>3. \A a \in Apps : Off(a)'
        BY <1>2, <2>1 DEF Off
    <2>4. QED
        BY <1>1, <2>2, <2>3, HelperGoes
<1>6. QED
    BY <1>3, <1>4, <1>5

\* With a user who waits one process follows the other, whatever dies or fails.
LEMMA PatientInvariant ==
    ASSUME ~Hasty
    PROVE  Spec => []Patient
<1>1. Init => Patient
    BY DEF Init, Patient, OneAtATime, RunsInstalled, SeenIsListed, Off, NoApp, NoHelper,
           Driving, Before
<1>2. IInv /\ Patient /\ [Next]_vars => Patient'
    <2> SUFFICES ASSUME IInv, Patient, [Next]_vars PROVE Patient'
        OBVIOUS
    <2>1. ASSUME NEW a \in Apps, Instance(a) PROVE Patient'
        BY <2>1, PatientInstance, SeenStaysListed DEF Patient
    <2>2. ASSUME NEW t \in Txns, Apply(t) \/ HelperDies(t) PROVE Patient'
        BY <2>2, PatientBefore, PatientWatching, PatientBetween, SeenStaysListed DEF Patient
    <2>3. CASE UNCHANGED vars
        BY <2>3 DEF vars, table, payload, Patient, OneAtATime, RunsInstalled, SeenIsListed,
                    Off, Resting, Attended
    <2>4. QED
        BY <2>1, <2>2, <2>3 DEF Next
<1>3. QED
    BY <1>1, <1>2, PayloadInvariant, PTL DEF Spec

\* Where the payload itself is moved the helper does not compare releases, but with a user
\* who waits for the update nothing replaces the release that asked for it: whatever dies or
\* fails, a swap is to a newer one.
THEOREM PatientOnlyAdvances ==
    ASSUME ~Hasty
    PROVE  Spec => NoDowngrade
<1>1. ASSUME NEW t \in Txns, IInv, Patient, helper[t].pc = "staged"
      PROVE  installed <= target[t]
    <2>1. installed = from[t] /\ Newer(t)
        BY <1>1 DEF IInv, Known, Patient, RunsInstalled
    <2>2. target[t] \in Nat /\ from[t] \in Nat
        BY <2>1, ReleasesAssumption DEF Newer
    <2>3. QED
        BY <2>1, <2>2 DEF Newer
<1>2. IInv /\ Patient => [\A t \in Txns :
          helper[t].pc = "staged" /\ helper'[t].pc \in {"moving", "activated"}
              => installed <= target[t]]_vars
    BY <1>1
<1>3. QED
    BY <1>2, PayloadInvariant, PatientInvariant, PTL DEF NoDowngrade

\* The user waits, nothing dies and the table can be written.
Mild == ~Hasty /\ Faults \subseteq {"launch_fails"}

\* The helper of t stopped waiting without a word.
LeftWaiting(t) == helper[t].pc = "none" /\ journal[t] = "waiting_for_exit"

\* The instance that started a helper records it before the table is read again, the wait for
\* exit is recorded only once nothing waits any more, and no helper stops before it waits.
Recorded ==
    /\ \A a \in Apps : app[a].pc = "spawned" =>
          app[a].txn \in Txns /\ db[app[a].txn] = "downloaded"
    /\ \A t \in Txns : db[t] = "downloaded" /\ (helper[t].pc # "none" \/ journal[t] # None) =>
          \E a \in Apps : app[a].pc = "spawned" /\ app[a].txn = t
    /\ \A t \in Txns : db[t] = "waiting_for_exit" => LeftWaiting(t)
    /\ \A a \in Apps : app[a].seen # None /\ app[a].seen.state = "waiting_for_exit" =>
          LeftWaiting(app[a].seen.txn)
    /\ \A t \in Txns : journal[t] = "prepared" => helper[t].pc = "prepared"

\* A helper takes the journals on, and the table is not its business.
LEMMA HelperRecords ==
    ASSUME Mild, IInv, Patient, Recorded, NEW t \in Txns, Apply(t) \/ HelperDies(t)
    PROVE  Recorded'
<1> USE DEF Stands
<1>1. Alone(t) /\ TypeOK
    BY HelperAlone DEF IInv
<1>2. UNCHANGED db /\ helper[t].pc # "none"
    BY <1>1 DEF Alone, table
<1>3. \A a \in Apps : app'[a].pc = "spawned" =>
          app[a].pc = "spawned" /\ app'[a].txn = app[a].txn
    <2>1. \A r, u : Started(r, u).pc = "booting" /\ NoApp.pc = "off"
        BY DEF Started, NoApp
    <2>2. QED
        BY <1>1, <2>1, HelperOnApps DEF TypeOK
<1>4. \A a \in Apps : app[a].pc = "spawned" => app'[a] = app[a]
    <2>1. CASE /\ helper[t].pc = "health" /\ helper[t].child \in Apps
               /\ app' = [app EXCEPT ![helper[t].child] = NoApp]
        <3>1. \A a \in Apps : app[a].pc # "spawned"
            BY <1>2, <2>1 DEF Patient, OneAtATime, Off, Attended, Before, Candidate, Reading
        <3>2. QED
            BY <3>1
    <2>2. CASE UNCHANGED app
        BY <2>2
    <2>3. ASSUME NEW a \in Apps, NEW r, Off(a), app' = [app EXCEPT ![a] = r]
          PROVE  \A b \in Apps : app[b].pc = "spawned" => app'[b] = app[b]
        BY <1>1, <2>3 DEF Off, TypeOK
    <2>4. QED
        BY <1>1, <2>1, <2>2, <2>3, HelperOnApps
<1>5. \A a \in Apps : app'[a].seen # None => app'[a].seen = app[a].seen
    BY <1>1, HelperReadsNothing
<1>6. \A u \in Txns : LeftWaiting(u) => LeftWaiting(u)'
    BY <1>1, <1>2 DEF Alone, LeftWaiting
<1>7. \A a \in Apps : app[a].seen # None => app[a].seen.txn \in Txns
    BY <1>1 DEF TypeOK, AppRecord
<1>8. journal'[t] = "prepared" => helper'[t].pc = "prepared"
    <2>m. /\ \A pc : To(t, pc) => helper'[t].pc = pc
          /\ \A s : WriteJournal(t, s) => journal'[t] = s
        BY <1>1, ToMoves, JournalMoves
    <2>j. journal[t] = "prepared" => helper[t].pc = "prepared"
        BY DEF Recorded
    <2>1. CASE TakeLock(t)
        <3>1. CASE helper' = [helper EXCEPT ![t].pc = "prepared"]
            BY <1>1, <3>1 DEF TypeOK, HelperRecord
        <3>2. CASE UNCHANGED journal
            BY <2>1, <2>j, <3>2 DEF TakeLock
        <3>3. QED
            BY <2>1, <3>1, <3>2 DEF TakeLock
    <2>2. CASE AnnounceWait(t) \/ ParentAlive(t) \/ AnnounceSwap(t) \/ AnnounceLaunch(t)
               \/ SeeHealth(t) \/ Commit(t) \/ AnnounceRollback(t)
        BY <2>2, <2>m DEF AnnounceWait, ParentAlive, AnnounceSwap, AnnounceLaunch, SeeHealth,
                          Commit, AnnounceRollback
    <2>3. CASE Rollback(t) \/ MoveBack(t)
        BY <2>3, <2>m, <2>j DEF Rollback, MoveBack, RollbackFailed
    <2>4. CASE CheckParent(t) \/ ParentGone(t) \/ StageCandidate(t) \/ SwitchPointer(t)
               \/ MoveAside(t) \/ MoveIn(t) \/ LaunchCandidate(t) \/ HealthTimeout(t)
               \/ LaunchPrevious(t)
        BY <2>4, <2>j DEF CheckParent, ParentGone, StageCandidate, SwitchPointer, MoveAside,
                          MoveIn, LaunchCandidate, HealthTimeout, LaunchPrevious
    <2>5. ~HelperDies(t)
        BY DEF Mild, HelperDies
    <2>6. QED
        BY <2>1, <2>2, <2>3, <2>4, <2>5 DEF Apply
<1>9. Recorded'
    <2>1. \A a \in Apps : app'[a].pc = "spawned" =>
              app'[a].txn \in Txns /\ db'[app'[a].txn] = "downloaded"
        BY <1>2, <1>3 DEF Recorded
    <2>2. \A u \in Txns :
              db'[u] = "downloaded" /\ (helper'[u].pc # "none" \/ journal'[u] # None) =>
                  \E a \in Apps : app'[a].pc = "spawned" /\ app'[a].txn = u
        <3> SUFFICES ASSUME NEW u \in Txns, db'[u] = "downloaded",
                            helper'[u].pc # "none" \/ journal'[u] # None
                     PROVE  \E a \in Apps : app'[a].pc = "spawned" /\ app'[a].txn = u
            OBVIOUS
        <3>1. helper[u].pc # "none" \/ journal[u] # None
            BY <1>1, <1>2 DEF Alone
        <3>2. \E a \in Apps : app[a].pc = "spawned" /\ app[a].txn = u
            BY <1>2, <3>1 DEF Recorded
        <3>3. QED
            BY <1>4, <3>2
    <2>3. \A u \in Txns : db'[u] = "waiting_for_exit" => LeftWaiting(u)'
        BY <1>2, <1>6 DEF Recorded
    <2>4. \A a \in Apps : app'[a].seen # None /\ app'[a].seen.state = "waiting_for_exit" =>
              LeftWaiting(app[a].seen.txn)' /\ app'[a].seen = app[a].seen
        BY <1>5, <1>6, <1>7 DEF Recorded
    <2>5. \A u \in Txns : journal'[u] = "prepared" => helper'[u].pc = "prepared"
        BY <1>1, <1>8 DEF Alone, Recorded
    <2>6. QED
        BY <2>1, <2>2, <2>3, <2>4, <2>5 DEF Recorded, LeftWaiting
<1>10. QED
    BY <1>9

\* What an instance does to the table.
LEMMA InstanceRecords ==
    ASSUME Mild, IInv, Patient, Recorded, NEW a \in Apps, Instance(a)
    PROVE  Recorded'
<1> USE DEF table
<1>t. /\ app \in [Apps -> AppRecord] /\ helper \in [Txns -> HelperRecord]
      /\ db \in [Txns -> UpdateState \cup {None}]
      /\ journal \in [Txns -> TransactionState \cup {None}]
    BY DEF IInv, TypeOK
<1>n. /\ None \notin UpdateState /\ None # "waiting_for_exit"
      /\ {"downloaded", "download_failed", "applying"} \cap TransactionState = {}
    BY NoneAssumption DEF UpdateState, TransactionState
<1>j. /\ UNCHANGED journal
      /\ \A t \in Txns : \/ helper'[t].pc = helper[t].pc
                         \/ helper[t].pc = "none" /\ journal[t] = None
    BY InstanceIsCalm DEF Calm, IInv
<1>w. \A t \in Txns : LeftWaiting(t) => LeftWaiting(t)'
    BY <1>j, <1>n DEF LeftWaiting
<1>p. \A t \in Txns : journal'[t] = "prepared" => helper'[t].pc = "prepared"
    BY <1>j, <1>n DEF Recorded, TransactionState, UpdateState
<1>s. \A r, t : /\ Started(r, t).seen = None /\ NoApp.seen = None
                /\ Started(r, t).pc = "booting" /\ NoApp.pc = "off"
    BY DEF Started, NoApp
<1>1. \A b \in Apps \ {a} : app'[b] = app[b]
    BY <1>t DEF Instance, Reconciles, UserStarts, ListJournals, ReadJournal, RecordJournal,
                Refused, Reconciled, PollsOver, AcknowledgeUiReady, AppEnds, PrepareUpdate,
                DownloadUpdate, SpawnHelper, RecordApplying, AppExits, Goes
<1>2. ~Off(a) \/ (UserStarts(a) /\ \A b \in Apps : Off(b))
    <2>1. UserStarts(a) => \A b \in Apps : Off(b)
        BY DEF UserStarts, Mild
    <2>2. RecordJournal(a) => ~Off(a)
        BY DEF RecordJournal, Patient, SeenIsListed, Off, Reading
    <2>3. QED
        BY <2>1, <2>2 DEF Instance, Reconciles, ListJournals, ReadJournal, Reconciled, PollsOver,
            AcknowledgeUiReady, AppEnds, PrepareUpdate, DownloadUpdate, SpawnHelper,
            RecordApplying, AppExits, At, Off
<1>3. \A b \in Apps \ {a} : app[b].pc # "spawned" /\ app'[b].pc # "spawned"
    BY <1>1, <1>2 DEF Patient, OneAtATime, Off
<1>4. \A b \in Apps \ {a} : app'[b].seen # None /\ app'[b].seen.state = "waiting_for_exit" =>
          LeftWaiting(app[b].seen.txn)' /\ app'[b].seen = app[b].seen
    <2>1. \A b \in Apps : app[b].seen # None => app[b].seen.txn \in Txns
        BY <1>t DEF AppRecord
    <2>2. QED
        BY <1>1, <1>w, <2>1 DEF Recorded
\* A step that has nothing to do with an instance that has just started a helper.
<1>k. ASSUME app[a].pc # "spawned", app'[a].pc # "spawned",
             \A t \in Txns : helper'[t].pc = helper[t].pc,
             \A t \in Txns : db'[t] = "downloaded" =>
                 db[t] = "downloaded" \/ (helper[t].pc = "none" /\ journal[t] = None),
             \A t \in Txns : db'[t] = "waiting_for_exit" => LeftWaiting(t),
             app'[a].seen # None /\ app'[a].seen.state = "waiting_for_exit" =>
                 app'[a].seen.txn \in Txns /\ LeftWaiting(app'[a].seen.txn)
      PROVE  Recorded'
    <2>1. \A b \in Apps : app[b].pc # "spawned" /\ app'[b].pc # "spawned"
        BY <1>3, <1>k
    <2>2. \A t \in Txns : db[t] = "downloaded" => helper[t].pc = "none" /\ journal[t] = None
        BY <2>1 DEF Recorded
    <2>3. \A t \in Txns : db'[t] = "downloaded" => helper'[t].pc = "none" /\ journal'[t] = None
        BY <2>2, <1>j, <1>k
    <2>4. \A t \in Txns : db'[t] = "waiting_for_exit" => LeftWaiting(t)'
        BY <1>w, <1>k
    <2>5. \A b \in Apps : app'[b].seen # None /\ app'[b].seen.state = "waiting_for_exit" =>
              LeftWaiting(app[b].seen.txn)'
        <3>1. ASSUME app'[a].seen # None, app'[a].seen.state = "waiting_for_exit"
              PROVE  LeftWaiting(app[a].seen.txn)'
            <4>1. PICK t \in Txns : t = app'[a].seen.txn /\ LeftWaiting(t)
                BY <1>k, <3>1
            <4>2. helper'[t].pc = "none" /\ journal'[t] = "waiting_for_exit"
                BY <4>1, <1>w DEF LeftWaiting
            <4>3. QED
                BY <4>1, <4>2 DEF LeftWaiting
        <3>2. ASSUME NEW b \in Apps \ {a}, app'[b].seen # None,
                     app'[b].seen.state = "waiting_for_exit"
              PROVE  LeftWaiting(app[b].seen.txn)'
            BY <3>2, <1>4 DEF LeftWaiting
        <3>3. QED
            BY <3>1, <3>2
    <2>6. QED
        BY <2>1, <2>3, <2>4, <2>5, <1>p DEF Recorded
<1>v. \A t \in Txns : db[t] = "waiting_for_exit" => LeftWaiting(t)
    BY DEF Recorded
<1>l. app[a].seen # None =>
          /\ app[a].pc \in Reading
          /\ app[a].seen.txn \in Txns /\ app[a].seen.state \in TransactionState
          /\ app[a].seen.state = "waiting_for_exit" => LeftWaiting(app[a].seen.txn)
    BY <1>t DEF Recorded, AppRecord, Patient, SeenIsListed
<1>5. CASE UserStarts(a) \/ AppEnds(a) \/ AppExits(a)
    <2>1. app[a].pc # "spawned" /\ app'[a].pc # "spawned" /\ app'[a].seen = None
        BY <1>5, <1>s, <1>t DEF UserStarts, AppEnds, AppExits, At, Off, Mild
    <2>2. UNCHANGED db /\ \A t \in Txns : helper'[t].pc = helper[t].pc
        BY <1>5, WithoutTyped DEF UserStarts, AppEnds, AppExits, IInv
    <2>3. QED
        BY <2>1, <2>2, <1>k, <1>v
<1>6. CASE ListJournals(a)
    <2> DEFINE r == [app[a] EXCEPT
            !.todo = {t \in Txns : db[t] # None /\ db[t] \notin Settled},
            !.pc = IF @ = "booting" THEN "reconciling" ELSE @,
            !.polls = IF app[a].pc = "polling" THEN @ - 1 ELSE @]
    <2>1. app[a].pc \in {"booting", "polling"} /\ UNCHANGED <<db, helper>>
        BY <1>6 DEF ListJournals
    <2>2. r.pc # "spawned" /\ r.seen = app[a].seen
        BY <1>t, <2>1 DEF AppRecord
    <2>3. app' = [app EXCEPT ![a] = r]
        BY <1>6, <1>t DEF ListJournals
    <2>4. app'[a] = r
        BY <2>3, <1>t
    <2>5. QED
        BY <2>1, <2>2, <2>4, <1>k, <1>l, <1>v
<1>7. CASE Reconciled(a) \/ PollsOver(a) \/ AcknowledgeUiReady(a)
    <2>1. /\ app[a].pc \in Reading \cup {"up"} /\ app'[a].pc # "spawned"
          /\ app'[a].seen = app[a].seen /\ UNCHANGED <<db, helper>>
        BY <1>7, <1>t DEF Reconciled, PollsOver, AcknowledgeUiReady, AppRecord, Reading
    <2>2. app[a].pc # "spawned"
        BY <2>1 DEF Reading
    <2>3. QED
        BY <2>1, <2>2, <1>k, <1>l, <1>v
<1>8. ASSUME NEW t \in Txns, ReadJournal(a, t)
      PROVE  Recorded'
    <2>1. app[a].pc \in Reading /\ app[a].seen = None /\ UNCHANGED <<db, helper>>
        BY <1>8 DEF ReadJournal, Reading
    <2>2. /\ app'[a].pc = app[a].pc
          /\ app'[a].seen # None =>
                journal[t] # None /\ app'[a].seen = [txn |-> t, state |-> journal[t]]
        BY <1>8, <2>1, <1>t DEF ReadJournal, AppRecord
    <2>3. journal[t] = "waiting_for_exit" => helper[t].pc = "none"
        <3>1. helper[t].pc # "none" => helper[t].pc \in Watching
            BY <2>1 DEF Patient, OneAtATime, Off, Attended, Waiting, Reading
        <3>2. QED
            BY <3>1 DEF IInv, Told, Watching
    <2>4. app[a].pc # "spawned" /\ app'[a].pc # "spawned"
        BY <2>1, <2>2 DEF Reading
    <2>5. QED
        BY <2>1, <2>2, <2>3, <2>4, <1>k, <1>v DEF LeftWaiting
<1>9. CASE RecordJournal(a)
    <2> DEFINE t == app[a].seen.txn
               state == app[a].seen.state
    <2>1. /\ app[a].seen # None /\ app[a].pc \in Reading /\ t \in Txns
          /\ state \in TransactionState
          /\ state = "waiting_for_exit" => LeftWaiting(t)
        BY <1>9, <1>l DEF RecordJournal
    <2>2. app'[a].pc # "spawned" /\ app'[a].seen = None
        BY <1>9, <2>1, <1>s, <1>t DEF RecordJournal, Refused, AppRecord, Reading
    <2>3. UNCHANGED db \/ db' = [db EXCEPT ![t] = state]
        BY <1>9 DEF RecordJournal
    <2>4. \A u \in Txns : helper'[u].pc = helper[u].pc
        BY <1>9, WithoutTyped DEF RecordJournal, Refused, IInv
    <2>5. app[a].pc # "spawned"
        BY <2>1 DEF Reading
    <2>6. /\ \A u \in Txns : db'[u] = "downloaded" => db[u] = "downloaded"
          /\ \A u \in Txns : db'[u] = "waiting_for_exit" => LeftWaiting(u)
        BY <2>1, <2>3, <1>n, <1>t, <1>v
    <2>7. QED
        BY <2>2, <2>4, <2>5, <2>6, <1>k
<1>10. ASSUME NEW t \in Txns, NEW r \in Releases, PrepareUpdate(a, t, r)
       PROVE  Recorded'
    <2>1. /\ app[a].pc = "idle" /\ app'[a].pc = "prepared" /\ app'[a].seen = app[a].seen
          /\ UNCHANGED helper /\ db' = [db EXCEPT ![t] = "prepared"]
        BY <1>10, <1>t DEF PrepareUpdate, At, AppRecord
    <2>2. app[a].seen = None
        BY <2>1, <1>l DEF Reading
    <2>3. /\ \A u \in Txns : db'[u] = "downloaded" => db[u] = "downloaded"
          /\ \A u \in Txns : db'[u] = "waiting_for_exit" => LeftWaiting(u)
        BY <2>1, <1>t, <1>v
    <2>4. QED
        BY <2>1, <2>2, <2>3, <1>k
<1>11. CASE DownloadUpdate(a)
    <2> DEFINE t == app[a].txn
    <2>1. /\ app[a].pc = "prepared" /\ app'[a].pc \in {"downloaded", "idle"}
          /\ app'[a].seen = app[a].seen /\ UNCHANGED helper
          /\ db' = [db EXCEPT ![t] = "downloaded"] \/ db' = [db EXCEPT ![t] = "download_failed"]
        BY <1>11, <1>t DEF DownloadUpdate, At, Goes, AppRecord
    <2>2. t \in Txns /\ helper[t].pc = "none" /\ journal[t] = None
        BY <2>1 DEF IInv, Drivers, Driving
    <2>3. app[a].seen = None
        BY <2>1, <1>l DEF Reading
    <2>4. /\ \A u \in Txns : db'[u] = "downloaded" =>
                db[u] = "downloaded" \/ (helper[u].pc = "none" /\ journal[u] = None)
          /\ \A u \in Txns : db'[u] = "waiting_for_exit" => LeftWaiting(u)
        BY <2>1, <2>2, <1>t, <1>v
    <2>5. QED
        BY <2>1, <2>3, <2>4, <1>k
<1>12. CASE SpawnHelper(a)
    <2> DEFINE t == app[a].txn
    <2>1. /\ app[a].pc = "downloaded" /\ app'[a].txn = t /\ app'[a].seen = app[a].seen
          /\ UNCHANGED db
        BY <1>12, <1>t DEF SpawnHelper, At, Goes, AppRecord
    <2>2. t \in Txns /\ helper[t].pc = "none" /\ journal[t] = None
        BY <2>1 DEF IInv, Drivers, Driving
    <2>3. app[a].seen = None
        BY <2>1, <1>l DEF Reading
    <2>4. CASE app'[a].pc = "idle" /\ UNCHANGED helper
        BY <2>1, <2>3, <2>4, <1>k, <1>v
    <2>5. CASE /\ db[t] = "downloaded" /\ app'[a].pc = "spawned"
               /\ \A u \in Txns \ {t} : helper'[u] = helper[u]
        <3>1. \A b \in Apps : app[b].pc # "spawned"
            BY <2>1, <1>3
        <3>2. \A u \in Txns \ {t} : db'[u] = "downloaded" =>
                  helper'[u].pc = "none" /\ journal'[u] = None
            BY <2>1, <2>5, <3>1, <1>j DEF Recorded
        <3>3. \A b \in Apps : app'[b].pc = "spawned" => b = a
            BY <1>3
        <3>4. \A u \in Txns : db'[u] = "waiting_for_exit" => LeftWaiting(u)'
            BY <2>1, <1>v, <1>w
        <3>5. \A b \in Apps : app'[b].seen # None /\ app'[b].seen.state = "waiting_for_exit" =>
                  b # a /\ LeftWaiting(app[b].seen.txn)' /\ app'[b].seen = app[b].seen
            BY <2>1, <2>3, <1>4
        <3>6. QED
            BY <2>1, <2>2, <2>5, <3>2, <3>3, <3>4, <3>5, <1>p DEF Recorded, LeftWaiting
    <2>6. QED
        BY <1>12, <1>t, <2>4, <2>5 DEF SpawnHelper, Goes, AppRecord
<1>13. CASE RecordApplying(a)
    <2> DEFINE t == app[a].txn
    <2>1. t \in Txns /\ db[t] = "downloaded" /\ app[a].pc = "spawned"
        BY <1>13 DEF RecordApplying, At, Recorded
    <2>2. ValidUpdateTransition(db[t], "applying")
        BY <2>1 DEF ValidUpdateTransition, Onward, UpdateState
    <2>3. /\ app'[a].pc = "exiting" /\ app'[a].seen = app[a].seen
          /\ db' = [db EXCEPT ![t] = "applying"] /\ UNCHANGED helper
        BY <1>13, <1>t, <2>2 DEF RecordApplying, Goes, AppRecord, Mild
    <2>4. \A b \in Apps : app'[b].pc # "spawned"
        BY <2>3, <1>3
    <2>5. \A u \in Txns : db'[u] = "downloaded" => helper'[u].pc = "none" /\ journal'[u] = None
        <3>1. \A b \in Apps : app[b].pc = "spawned" => b = a
            BY <1>3
        <3>2. \A u \in Txns \ {t} : db[u] = "downloaded" => helper[u].pc = "none" /\ journal[u] = None
            BY <3>1 DEF Recorded
        <3>3. QED
            BY <2>1, <2>3, <3>2, <1>j, <1>t
    <2>6. app[a].seen = None
        BY <2>1, <1>l DEF Reading
    <2>7. \A u \in Txns : db'[u] = "waiting_for_exit" => LeftWaiting(u)'
        BY <2>3, <1>t, <1>v, <1>w
    <2>8. \A b \in Apps : app'[b].seen # None /\ app'[b].seen.state = "waiting_for_exit" =>
              b # a /\ LeftWaiting(app[b].seen.txn)' /\ app'[b].seen = app[b].seen
        BY <2>3, <2>6, <1>4
    <2>9. QED
        BY <2>4, <2>5, <2>7, <2>8, <1>p DEF Recorded, LeftWaiting
<1>14. QED
    BY <1>5, <1>6, <1>7, <1>8, <1>9, <1>10, <1>11, <1>12, <1>13 DEF Instance, Reconciles

\* The table is never behind by what would block a start.
LEMMA RecordedInvariant ==
    ASSUME Mild
    PROVE  Spec => []Recorded
<1>1. Init => Recorded
    BY NoneAssumption DEF Init, Recorded, NoApp, NoHelper, UpdateState, TransactionState
<1>2. IInv /\ Patient /\ Recorded /\ [Next]_vars => Recorded'
    <2>1. IInv /\ Recorded /\ UNCHANGED vars => Recorded'
        BY DEF vars, table, Recorded, LeftWaiting
    <2>2. QED
        BY <2>1, HelperRecords, InstanceRecords DEF Next
<1>3. QED
    BY <1>1, <1>2, PayloadInvariant, PatientInvariant, PTL DEF Spec, Mild

\* Of the listed reasons one alone is left, and it is the candidate that skipped launched,
\* when nothing dies, the table can be written and the user waits for the update.
THEOREM OnlyTheRaceBlocks ==
    ASSUME ~Hasty, Faults \subseteq {"launch_fails"}
    PROVE  Spec => []OnlySkippedLaunchBlocks
<1>1. Mild
    BY DEF Mild
<1>2. ASSUME BlockedStartsAreKnown, Recorded, Quiet, NEW t \in Txns, StartBlockedBy(t)
      PROVE  SkippedLaunch(t)
    <2>1. journal[t] # None /\ db[t] # journal[t]
        BY <1>2 DEF StartBlockedBy, ValidUpdateTransition
    <2>2. db[t] # "downloaded"
        BY <1>2, <2>1 DEF Recorded, Quiet
    <2>3. db[t] # "waiting_for_exit"
        BY <1>2, <2>1 DEF Recorded, LeftWaiting
    <2>4. journal[t] # "prepared"
        BY <1>2 DEF Recorded, Quiet, Resting
    <2>5. QED
        BY <1>2, <2>2, <2>3, <2>4 DEF BlockedStartsAreKnown
<1>3. BlockedStartsAreKnown /\ Recorded => OnlySkippedLaunchBlocks
    BY <1>2 DEF OnlySkippedLaunchBlocks
<1>4. QED
    BY <1>1, <1>3, BlockedStartsAreListed, RecordedInvariant, PTL

--------------------------------------------------------------------------------
(* The updater implements PayloadTrial.                                     *)

Answering == {"started", "health", "healthy", "rolling", "restoring", "restored", "relaunching"}

\* The helper of t has started a candidate.
Launched(t) == helper[t].pc \in Answering \cup {"none"} /\ journal[t] # None

\* Only the candidate of a helper that got so far can acknowledge.
Acknowledgers ==
    /\ \A a \in Apps : app[a].cand # None => Launched(app[a].cand)
    /\ \A t \in acked : Launched(t)

\* From the first of its two renames to the verdict a helper decides what a start runs.
Trials == {"activated", "swapped", "started", "health", "healthy", "rolling", "restoring"}
Deciding == Trials \cup {"moving"}

\* What PayloadTrial is shown, when one helper at most decides.
Seen ==
    /\ (\A t \in Txns : helper[t].pc \notin Deciding) =>
          Trying = FALSE /\ Current = installed /\ Prior = None /\ Heard = FALSE
    /\ LockHeld => \A t \in Txns :
          /\ helper[t].pc = "moving" =>
                Trying = FALSE /\ Current = backup /\ Prior = None /\ Heard = FALSE
          /\ helper[t].pc \in Trials =>
                /\ Trying = TRUE /\ Heard = (t \in acked)
                /\ Current = IF helper[t].pc = "restoring" THEN target[t] ELSE installed
                /\ Prior = IF InstallKind = "pointer" THEN from[t] ELSE backup

LEMMA View == Seen
<1>1. \A t \in Txns : OnTrial(t) <=> helper[t].pc \in Trials
    BY DEF OnTrial, Trials
<1>2. ASSUME \A t \in Txns : helper[t].pc \notin Deciding
      PROVE  Trying = FALSE /\ Current = installed /\ Prior = None /\ Heard = FALSE
    <2>1. Trying = FALSE
        BY <1>1, <1>2 DEF Trying, Deciding
    <2>2. \A t \in Txns : helper[t].pc \notin {"moving", "restoring"}
        BY <1>2 DEF Deciding, Trials
    <2>3. QED
        BY <2>1, <2>2 DEF Current, Prior, Heard
<1>3. ASSUME LockHeld, NEW t \in Txns, helper[t].pc \in Deciding
      PROVE  \A u \in Txns : helper[u].pc \in Deciding => u = t
    <2>1. Deciding \subseteq Locking
        BY DEF Deciding, Trials, Locking, HelperPC
    <2>2. QED
        BY <1>3, <2>1 DEF LockHeld
<1>4. ASSUME LockHeld, NEW t \in Txns, helper[t].pc = "moving"
      PROVE  Trying = FALSE /\ Current = backup /\ Prior = None /\ Heard = FALSE
    <2>1. \A u \in Txns : helper[u].pc \notin Trials
        BY <1>3, <1>4 DEF Deciding, Trials
    <2>2. Trying = FALSE
        BY <1>1, <2>1 DEF Trying
    <2>3. QED
        BY <1>4, <2>2 DEF Current, Prior, Heard
<1>5. ASSUME LockHeld, NEW t \in Txns, helper[t].pc \in Trials
      PROVE  /\ Trying = TRUE /\ Heard = (t \in acked)
             /\ Current = IF helper[t].pc = "restoring" THEN target[t] ELSE installed
             /\ Prior = IF InstallKind = "pointer" THEN from[t] ELSE backup
    <2>1. \A u \in Txns : helper[u].pc \in Deciding => u = t
        BY <1>3, <1>5 DEF Deciding
    <2>2. Trying = TRUE
        BY <1>1, <1>5 DEF Trying
    <2>3. Tried = t
        <3>1. OnTrial(t) /\ \A u \in Txns : OnTrial(u) => u = t
            BY <1>1, <1>5, <2>1 DEF Deciding
        <3>2. QED
            BY <3>1 DEF Tried
    <2>4. Heard = (t \in acked)
        BY <2>2, <2>3 DEF Heard
    <2>5. (\E u \in Txns : helper[u].pc = "moving") = FALSE
        BY <1>5, <2>1 DEF Deciding, Trials
    <2>6. (\E u \in Txns : helper[u].pc = "restoring") = (helper[t].pc = "restoring")
        BY <1>5, <2>1 DEF Deciding, Trials
    <2>7. QED
        BY <2>2, <2>3, <2>4, <2>5, <2>6 DEF Current, Prior
<1>6. QED
    BY <1>2, <1>4, <1>5 DEF Seen

LEMMA ViewNext == Seen'
BY View, PTL

\* An instance that runs does not become a candidate, and acknowledges as itself.
LEMMA CandidatesStay ==
    ASSUME TypeOK, NEW a \in Apps, Instance(a)
    PROVE  /\ \A b \in Apps : app'[b].cand # None => app'[b].cand = app[b].cand
           /\ \A t \in acked' : t \in acked \/ \E b \in Apps : app[b].cand = t /\ t # None
<1>t. app \in [Apps -> AppRecord]
    BY DEF TypeOK
<1>n. NoApp.cand = None /\ \A r : Started(r, None).cand = None
    BY DEF NoApp, Started
<1>1. CASE UserStarts(a) \/ AppEnds(a) \/ AppExits(a)
    BY <1>1, <1>t, <1>n DEF UserStarts, AppEnds, AppExits
<1>2. CASE Reconciles(a)
    <2>1. CASE ListJournals(a)
        BY <2>1, <1>t DEF ListJournals, AppRecord
    <2>2. ASSUME NEW t \in Txns, ReadJournal(a, t)
          PROVE  acked' = acked /\ \A b \in Apps : app'[b].cand = app[b].cand
        BY <2>2, <1>t DEF ReadJournal, AppRecord
    <2>3. CASE RecordJournal(a)
        BY <2>3, <1>t, <1>n DEF RecordJournal, Refused, AppRecord
    <2>4. CASE Reconciled(a) \/ PollsOver(a)
        BY <2>4, <1>t DEF Reconciled, PollsOver, AppRecord
    <2>5. QED
        BY <1>2, <2>1, <2>2, <2>3, <2>4 DEF Reconciles
<1>3. CASE AcknowledgeUiReady(a)
    BY <1>3, <1>t DEF AcknowledgeUiReady, AppRecord
<1>4. ASSUME NEW t \in Txns, NEW r \in Releases, PrepareUpdate(a, t, r)
      PROVE  acked' = acked /\ \A b \in Apps : app'[b].cand = app[b].cand
    BY <1>4, <1>t DEF PrepareUpdate, AppRecord
<1>5. CASE DownloadUpdate(a) \/ SpawnHelper(a) \/ RecordApplying(a)
    BY <1>5, <1>t DEF DownloadUpdate, SpawnHelper, RecordApplying, Goes, AppRecord
<1>6. QED
    BY <1>1, <1>2, <1>3, <1>4, <1>5 DEF Instance

\* A helper acknowledges nothing, and starts a candidate as it says so.
LEMMA HelperLaunches ==
    ASSUME IInv, NEW t \in Txns, Apply(t) \/ HelperDies(t), NEW b \in Apps, app'[b].cand # None
    PROVE  \/ app'[b].cand = app[b].cand
           \/ app'[b].cand = t /\ helper'[t].pc = "started"
<1>t. app \in [Apps -> AppRecord] /\ helper \in [Txns -> HelperRecord]
    BY DEF IInv, TypeOK
<1>n. NoApp.cand = None /\ \A r, u : Started(r, u).cand = u
    BY DEF NoApp, Started
<1>1. CASE LaunchCandidate(t)
    BY <1>1, <1>t, <1>n DEF LaunchCandidate, HelperRecord
<1>2. CASE HealthTimeout(t)
    <2>1. helper[t].child \in Apps \cup {None}
        BY <1>t DEF HelperRecord
    <2>2. QED
        BY <1>2, <1>t, <1>n, <2>1 DEF HealthTimeout
<1>3. CASE LaunchPrevious(t)
    BY <1>3, <1>t, <1>n DEF LaunchPrevious
<1>4. ASSUME ~LaunchCandidate(t), ~HealthTimeout(t), ~LaunchPrevious(t)
      PROVE  UNCHANGED app
    BY <1>4
       DEF Apply, HelperDies, CheckParent, TakeLock, AnnounceWait, ParentGone, ParentAlive,
           StageCandidate, SwitchPointer, MoveAside, MoveIn, AnnounceSwap, AnnounceLaunch,
           SeeHealth, Commit, Rollback, MoveBack, AnnounceRollback
<1>5. QED
    BY <1>1, <1>2, <1>3, <1>4

\* Whoever has started a candidate does not come back to before.
LEMMA LaunchedStays ==
    ASSUME IInv, NEW t \in Txns, helper[t].pc \in Answering, journal[t] # None,
           Apply(t) \/ HelperDies(t)
    PROVE  Launched(t)'
<1> USE DEF Answering, Stands, Launched
<1>t. TypeOK
    BY DEF IInv
<1>n. None \notin TransactionState
    BY NoneAssumption DEF UpdateState
<1>m. /\ \A pc : To(t, pc) => helper'[t].pc = pc
      /\ Ends(t) => helper'[t].pc = "none"
      /\ \A s : WriteJournal(t, s) => journal'[t] = s
    BY <1>t, ToMoves, EndsMoves, JournalMoves
<1>1. CASE AnnounceLaunch(t) \/ SeeHealth(t) \/ Commit(t) \/ AnnounceRollback(t)
    BY <1>1, <1>m, <1>n
       DEF AnnounceLaunch, SeeHealth, Commit, AnnounceRollback, TransactionState
<1>2. CASE HealthTimeout(t)
    <2>1. helper[t].child \in Apps \cup {None}
        BY <1>t DEF TypeOK, HelperRecord
    <2>2. QED
        BY <1>2, <1>t, <2>1, WithoutTyped DEF HealthTimeout, TypeOK, HelperRecord
<1>3. CASE Rollback(t) \/ MoveBack(t)
    BY <1>3, <1>m, <1>n DEF Rollback, MoveBack, RollbackFailed, TransactionState
<1>4. CASE LaunchPrevious(t) \/ HelperDies(t)
    BY <1>4, <1>m DEF LaunchPrevious, HelperDies
<1>5. QED
    BY <1>1, <1>2, <1>3, <1>4
       DEF Apply, CheckParent, TakeLock, AnnounceWait, ParentGone, ParentAlive,
           StageCandidate, SwitchPointer, MoveAside, MoveIn, AnnounceSwap, LaunchCandidate

LEMMA AcknowledgersStep ==
    ASSUME IInv, IInv', Acknowledgers, [Next]_vars
    PROVE  Acknowledgers'
<1> USE DEF Acknowledgers
<1>n. None \notin TransactionState
    BY NoneAssumption DEF UpdateState
<1>t. acked \subseteq Txns /\ \A b \in Apps : app[b].cand \in Txns \cup {None}
    BY DEF IInv, TypeOK, AppRecord
<1>1. ASSUME NEW a \in Apps, Instance(a) PROVE Acknowledgers'
    <2>1. Calm
        BY <1>1, InstanceIsCalm DEF IInv
    <2>2. \A t \in Txns : Launched(t) => Launched(t)'
        BY <2>1 DEF Calm, Launched
    <2>3. \A t \in acked' : t \in Txns /\ Launched(t)
        BY <1>1, <1>t, CandidatesStay DEF IInv
    <2>4. \A b \in Apps : app'[b].cand # None => app'[b].cand = app[b].cand
        BY <1>1, CandidatesStay DEF IInv
    <2>5. QED
        BY <1>t, <2>2, <2>3, <2>4
<1>2. ASSUME NEW t \in Txns, Apply(t) \/ HelperDies(t) PROVE Acknowledgers'
    <2>1. Alone(t)
        BY <1>2, HelperAlone DEF IInv
    <2>2. \A u \in Txns : Launched(u) => Launched(u)'
        <3>1. Launched(t) => Launched(t)'
            BY <1>2, <2>1, LaunchedStays DEF Alone, Launched
        <3>2. QED
            BY <2>1, <3>1 DEF Alone, Launched
    <2>3. helper'[t].pc = "started" => Launched(t)'
        <3>1. helper'[t].pc = "started" => journal'[t] = "swapped"
            BY DEF IInv, Told
        <3>2. QED
            BY <1>n, <3>1 DEF Launched, Answering, TransactionState
    <2>4. QED
        BY <1>2, <1>t, <2>1, <2>2, <2>3, HelperLaunches DEF Alone
<1>3. CASE UNCHANGED vars
    BY <1>3 DEF vars, Launched
<1>4. QED
    BY <1>1, <1>2, <1>3 DEF Next

Shown == <<Current, Trying, Prior, Heard, {Base} \cup Kept, Failed>>

\* A step shows nothing new of what a start runs if who decides stays the same and finds
\* the payload and the releases as they were.
LEMMA NothingMoves ==
    ASSUME LockHeld, LockHeld', installed' = installed, acked \subseteq acked',
           \A t \in Txns : helper'[t].pc \in Trials <=> helper[t].pc \in Trials,
           \A t \in Txns : /\ helper'[t].pc = "moving" <=> helper[t].pc = "moving"
                           /\ helper'[t].pc = "restoring" <=> helper[t].pc = "restoring",
           \A t \in Txns : helper[t].pc \in Deciding =>
               target'[t] = target[t] /\ from'[t] = from[t] /\ backup' = backup
    PROVE  /\ Current' = Current /\ Trying' = Trying /\ Prior' = Prior
           /\ \/ Heard' = Heard
              \/ Trying = TRUE /\ Heard' = TRUE /\ acked' # acked
<1>s. Seen /\ Seen'
    BY View, ViewNext
<1>1. CASE \A t \in Txns : helper[t].pc \notin Deciding
    <2>1. \A t \in Txns : helper'[t].pc \notin Deciding
        BY <1>1 DEF Deciding
    <2>2. Trying = FALSE /\ Current = installed /\ Prior = None /\ Heard = FALSE
        BY <1>1, <1>s DEF Seen
    <2>3. Trying' = FALSE /\ Current' = installed' /\ Prior' = None /\ Heard' = FALSE
        BY <2>1, <1>s DEF Seen
    <2>4. QED
        BY <2>2, <2>3
<1>2. ASSUME NEW t \in Txns, helper[t].pc = "moving"
      PROVE  Current' = Current /\ Trying' = Trying /\ Prior' = Prior /\ Heard' = Heard
    <2>1. helper'[t].pc = "moving" /\ backup' = backup
        BY <1>2 DEF Deciding
    <2>2. Trying = FALSE /\ Current = backup /\ Prior = None /\ Heard = FALSE
        BY <1>2, <1>s DEF Seen
    <2>3. Trying' = FALSE /\ Current' = backup' /\ Prior' = None /\ Heard' = FALSE
        BY <2>1, <1>s DEF Seen
    <2>4. QED
        BY <2>1, <2>2, <2>3
<1>3. ASSUME NEW t \in Txns, helper[t].pc \in Trials
      PROVE  /\ Current' = Current /\ Trying' = Trying /\ Prior' = Prior
             /\ Heard' = Heard \/ (Trying = TRUE /\ Heard' = TRUE /\ acked' # acked)
    <2>1. /\ helper'[t].pc \in Trials /\ target'[t] = target[t] /\ from'[t] = from[t]
          /\ backup' = backup
        BY <1>3 DEF Deciding
    <2>2. /\ Trying = TRUE /\ Heard = (t \in acked)
          /\ Current = IF helper[t].pc = "restoring" THEN target[t] ELSE installed
          /\ Prior = IF InstallKind = "pointer" THEN from[t] ELSE backup
        BY <1>3, <1>s DEF Seen
    <2>3. /\ Trying' = TRUE /\ Heard' = (t \in acked')
          /\ Current' = IF helper'[t].pc = "restoring" THEN target'[t] ELSE installed'
          /\ Prior' = IF InstallKind = "pointer" THEN from'[t] ELSE backup'
        BY <2>1, <1>s DEF Seen
    <2>4. CASE t \in acked \/ t \notin acked'
        BY <2>1, <2>2, <2>3, <2>4
    <2>5. CASE t \in acked' /\ t \notin acked
        BY <2>1, <2>2, <2>3, <2>5
    <2>6. QED
        BY <2>4, <2>5
<1>4. QED
    BY <1>1, <1>2, <1>3 DEF Deciding

\* What was kept, and that a repair failed, is read off the journals.
LEMMA JournalsMove ==
    ASSUME \A t \in Txns : /\ journal'[t] = "committed" <=> journal[t] = "committed"
                           /\ journal[t] = "committed" => target'[t] = target[t]
    PROVE  Kept' = Kept
BY DEF Kept

LEMMA CalmMaps ==
    ASSUME IInv, IInv', Calm
    PROVE  Trial!Hear \/ UNCHANGED Shown
<1>1. \A t \in Txns :
          \/ helper'[t].pc = helper[t].pc
          \/ helper[t].pc = "none" /\ helper'[t].pc = "spawned"
    BY DEF Calm
<1>2. \A t \in Txns : helper[t].pc # "none" \/ journal[t] # None =>
          target'[t] = target[t] /\ from'[t] = from[t]
    BY DEF Calm, IInv, Untouched
<1>3. \A t \in Txns : helper'[t].pc \in Trials <=> helper[t].pc \in Trials
    BY <1>1 DEF Trials
<1>4. /\ Current' = Current /\ Trying' = Trying /\ Prior' = Prior
      /\ \/ Heard' = Heard
         \/ Trying = TRUE /\ Heard' = TRUE
    <2>1. /\ LockHeld /\ LockHeld' /\ acked \subseteq acked'
          /\ installed' = installed /\ backup' = backup
        BY DEF IInv, Calm, payload
    <2>2. \A t \in Txns : /\ helper'[t].pc = "moving" <=> helper[t].pc = "moving"
                          /\ helper'[t].pc = "restoring" <=> helper[t].pc = "restoring"
        BY <1>1
    <2>3. \A t \in Txns : helper[t].pc \in Deciding =>
              target'[t] = target[t] /\ from'[t] = from[t] /\ backup' = backup
        BY <1>2, <2>1 DEF Deciding, Trials
    <2>4. QED
        BY <1>3, <2>1, <2>2, <2>3, NothingMoves
<1>5. Kept' = Kept /\ Failed' = Failed
    <2>1. journal' = journal /\ None # "committed"
        BY NoneAssumption DEF Calm, UpdateState, TransactionState
    <2>2. QED
        BY <1>2, <2>1, JournalsMove DEF Failed
<1>6. QED
    BY <1>4, <1>5 DEF Trial!Hear, Shown

\* The journals before the verdict show nothing.
LEMMA VerdictsAlone ==
    ASSUME IInv, NEW t \in Txns, Alone(t)
    PROVE  /\ journal'[t] # "committed" => Kept' = Kept
           /\ journal'[t] = "committed" => Kept' = Kept \cup {target[t]}
           /\ journal'[t] # "rollback_failed" => Failed' = Failed
           /\ journal'[t] = "rollback_failed" => Failed' = TRUE
<1>1. journal[t] \notin {"committed", "rollback_failed"}
    BY DEF IInv, Told, Alone
<1>2. target' = target /\ \A u \in Txns \ {t} : journal'[u] = journal[u]
    BY DEF Alone, table
<1>3. journal'[t] # "committed" => Kept' = Kept
    BY <1>1, <1>2, JournalsMove
<1>4. journal'[t] = "committed" => Kept' = Kept \cup {target[t]}
    BY <1>1, <1>2 DEF Kept
<1>5. QED
    BY <1>1, <1>2, <1>3, <1>4 DEF Failed

\* A helper shows nothing as long as it neither begins nor ends a trial.
LEMMA HelperShowsNothing ==
    ASSUME IInv, IInv', NEW t \in Txns, Alone(t), installed' = installed,
           helper'[t].pc \in Trials <=> helper[t].pc \in Trials,
           helper'[t].pc = "moving" <=> helper[t].pc = "moving",
           helper'[t].pc = "restoring" <=> helper[t].pc = "restoring",
           backup' = backup \/ helper[t].pc = "staged",
           journal'[t] \notin {"committed", "rollback_failed"}
    PROVE  UNCHANGED Shown
<1>1. LockHeld /\ LockHeld'
    BY DEF IInv
<1>2. backup' = backup \/ \A u \in Txns : helper[u].pc \notin Deciding
    BY <1>1 DEF LockHeld, Locking, HelperPC, Deciding, Trials
<1>3. /\ \A u \in Txns : helper'[u].pc \in Trials <=> helper[u].pc \in Trials
      /\ \A u \in Txns : /\ helper'[u].pc = "moving" <=> helper[u].pc = "moving"
                         /\ helper'[u].pc = "restoring" <=> helper[u].pc = "restoring"
      /\ acked' = acked /\ target' = target /\ from' = from
    BY DEF Alone, table
<1>4. Current' = Current /\ Trying' = Trying /\ Prior' = Prior /\ Heard' = Heard
    BY <1>1, <1>2, <1>3, NothingMoves
<1>5. Kept' = Kept /\ Failed' = Failed
    BY VerdictsAlone
<1>6. QED
    BY <1>4, <1>5 DEF Shown

\* What the helper of t shows, by where it stands.
Free(t) == Trying = FALSE /\ Current = installed /\ Prior = None /\ Heard = FALSE
Aside(t) == Trying = FALSE /\ Current = backup /\ Prior = None /\ Heard = FALSE
Tries(t) ==
    /\ Trying = TRUE /\ Heard = (t \in acked)
    /\ Current = IF helper[t].pc = "restoring" THEN target[t] ELSE installed
    /\ Prior = IF InstallKind = "pointer" THEN from[t] ELSE backup

LEMMA HelperShows ==
    ASSUME IInv, IInv', NEW t \in Txns, Alone(t), helper[t].pc \in Locking
    PROVE  /\ helper[t].pc \notin Deciding => Free(t)
           /\ helper[t].pc = "moving" => Aside(t)
           /\ helper[t].pc \in Trials => Tries(t)
           /\ helper'[t].pc \notin Deciding => Free(t)'
           /\ helper'[t].pc = "moving" => Aside(t)'
           /\ helper'[t].pc \in Trials => Tries(t)'
<1>1. \A u \in Txns \ {t} : helper[u].pc \notin Deciding /\ helper'[u].pc \notin Deciding
    BY DEF IInv, LockHeld, Locking, HelperPC, Deciding, Trials, Alone
<1>2. Seen /\ Seen' /\ LockHeld /\ LockHeld'
    BY View, ViewNext DEF IInv
<1>3. helper[t].pc \notin Deciding => Free(t)
    BY <1>1, <1>2 DEF Seen, Free
<1>4. helper'[t].pc \notin Deciding => Free(t)'
    BY <1>1, <1>2 DEF Seen, Free
<1>5. /\ helper[t].pc = "moving" => Aside(t)
      /\ helper[t].pc \in Trials => Tries(t)
    BY <1>2 DEF Seen, Aside, Tries
<1>6. /\ helper'[t].pc = "moving" => Aside(t)'
      /\ helper'[t].pc \in Trials => Tries(t)'
    BY <1>2 DEF Seen, Aside, Tries
<1>7. QED
    BY <1>3, <1>4, <1>5, <1>6

\* Up to the swap, while the candidate is watched, and after the repair.
LEMMA HelperWaits ==
    ASSUME IInv, IInv', NEW t \in Txns, Alone(t),
           \/ CheckParent(t) \/ TakeLock(t) \/ AnnounceWait(t) \/ ParentGone(t)
           \/ ParentAlive(t) \/ StageCandidate(t) \/ AnnounceSwap(t) \/ AnnounceLaunch(t)
           \/ SeeHealth(t) \/ HealthTimeout(t) \/ AnnounceRollback(t) \/ LaunchPrevious(t)
    PROVE  UNCHANGED Shown
<1> USE DEF Stands
<1>t. TypeOK
    BY DEF IInv
<1>m. /\ \A pc : To(t, pc) => helper'[t].pc = pc
      /\ Ends(t) => helper'[t].pc = "none"
      /\ \A s : WriteJournal(t, s) => journal'[t] = s
    BY <1>t, ToMoves, EndsMoves, JournalMoves
<1>j. journal[t] \notin {"committed", "rollback_failed"}
    BY DEF IInv, Told, Alone
<1>1. CASE CheckParent(t) \/ TakeLock(t) \/ AnnounceWait(t) \/ ParentGone(t) \/ ParentAlive(t)
    <2>1. /\ helper[t].pc \in {"spawned", "checked", "prepared", "waiting"}
          /\ helper'[t].pc \in {"checked", "prepared", "waiting", "staging", "none"}
          /\ journal'[t] \notin {"committed", "rollback_failed"}
          /\ installed' = installed /\ backup' = backup
        BY <1>1, <1>m, <1>j, <1>t
           DEF CheckParent, TakeLock, AnnounceWait, ParentGone, ParentAlive, payload, TypeOK,
               HelperRecord
    <2>2. QED
        BY <2>1, HelperShowsNothing DEF Trials
<1>2. CASE StageCandidate(t)
    <2>1. /\ helper[t].pc = "staging" /\ helper'[t].pc \in {"staged", "none"}
          /\ UNCHANGED <<journal, installed, backup>>
        BY <1>2, <1>m DEF StageCandidate, payload
    <2>2. QED
        BY <2>1, <1>j, HelperShowsNothing DEF Trials
<1>3. CASE AnnounceSwap(t) \/ AnnounceLaunch(t) \/ SeeHealth(t)
    <2>1. /\ helper[t].pc \in {"activated", "started", "health"}
          /\ helper'[t].pc \in {"swapped", "health", "healthy"}
          /\ journal'[t] \notin {"committed", "rollback_failed"}
          /\ installed' = installed /\ backup' = backup
        BY <1>3, <1>m DEF AnnounceSwap, AnnounceLaunch, SeeHealth, payload
    <2>2. QED
        BY <2>1, HelperShowsNothing DEF Trials
<1>4. CASE HealthTimeout(t)
    <2>1. helper[t].child \in Apps \cup {None}
        BY <1>t DEF TypeOK, HelperRecord
    <2>2. /\ helper[t].pc = "health" /\ helper'[t].pc = "rolling"
          /\ UNCHANGED <<journal, installed, backup>>
        BY <1>4, <1>t, <2>1, WithoutTyped DEF HealthTimeout, TypeOK, HelperRecord, payload
    <2>3. QED
        BY <2>2, <1>j, HelperShowsNothing DEF Trials
<1>5. CASE AnnounceRollback(t) \/ LaunchPrevious(t)
    <2>1. /\ helper[t].pc \in {"restored", "relaunching"}
          /\ helper'[t].pc \in {"relaunching", "none"}
          /\ journal'[t] \notin {"committed", "rollback_failed"}
          /\ installed' = installed /\ backup' = backup
        BY <1>5, <1>m, <1>j DEF AnnounceRollback, LaunchPrevious, payload
    <2>2. QED
        BY <2>1, HelperShowsNothing DEF Trials
<1>6. QED
    BY <1>1, <1>2, <1>3, <1>4, <1>5

\* The swap begins a trial, leaves things as they are, or loses them.
LEMMA SwapMaps ==
    ASSUME IInv, IInv', Acknowledgers, NEW t \in Txns, Alone(t),
           SwitchPointer(t) \/ MoveAside(t) \/ MoveIn(t)
    PROVE  Trial!Try \/ Trial!Lose \/ UNCHANGED Shown
<1> USE DEF Stands
<1>t. TypeOK
    BY DEF IInv
<1>m. /\ \A pc : To(t, pc) => helper'[t].pc = pc
      /\ Ends(t) => helper'[t].pc = "none"
    BY <1>t, ToMoves, EndsMoves
<1>j. /\ journal[t] = "waiting_for_exit" /\ UNCHANGED <<journal, acked, target, from>>
    BY DEF IInv, Told, SwitchPointer, MoveAside, MoveIn, table
<1>k. Kept' = Kept /\ Failed' = Failed
    BY <1>j, VerdictsAlone
<1>r. target[t] \in Releases /\ from[t] \in Releases /\ None \notin Releases
    BY NoneAssumption DEF IInv, Alone, Known, Newer
<1>s. {"staged", "moving"} \subseteq Locking /\ {"staged", "none"} \cap Deciding = {}
      /\ "activated" \in Trials /\ {"staged", "moving", "none"} \cap Trials = {}
    BY DEF Locking, HelperPC, Deciding, Trials
<1>h. helper[t].pc \in {"staged", "moving"} => t \notin acked
    BY DEF Acknowledgers, Launched, Answering
<1>1. CASE SwitchPointer(t)
    <2>1. /\ helper[t].pc = "staged" /\ InstallKind = "pointer" /\ installed = from[t]
          /\ \/ helper'[t].pc = "activated" /\ installed' = target[t]
             \/ helper'[t].pc = "none" /\ installed' = installed /\ backup' = backup
        BY <1>1, <1>m DEF IInv, Way, SwitchPointer
    <2>2. CASE helper'[t].pc = "activated" /\ installed' = target[t]
        <3>1. Free(t) /\ Tries(t)'
            BY <2>1, <2>2, <1>s, HelperShows
        <3>2. Trying = FALSE /\ Current = from[t]
            BY <2>1, <3>1 DEF Free
        <3>3. Trying' = TRUE /\ Current' = target[t] /\ Prior' = from[t]
            BY <2>1, <2>2, <3>1, <1>j DEF Tries
        <3>4. Heard' = FALSE
            BY <2>1, <3>1, <1>h, <1>j DEF Tries, Heard
        <3>5. Trial!Try
            BY <3>2, <3>3, <3>4, <1>k, <1>r DEF Trial!Try
        <3>6. QED
            BY <3>5
    <2>3. CASE helper'[t].pc = "none" /\ installed' = installed /\ backup' = backup
        BY <2>1, <2>3, <1>j, HelperShowsNothing DEF Trials
    <2>4. QED
        BY <2>1, <2>2, <2>3
<1>2. CASE MoveAside(t)
    <2>1. /\ helper[t].pc = "staged"
          /\ \/ helper'[t].pc = "moving" /\ backup' = installed
             \/ helper'[t].pc = "none" /\ installed' = installed
        BY <1>2, <1>m DEF MoveAside
    <2>2. CASE helper'[t].pc = "moving" /\ backup' = installed
        <3>1. Free(t) /\ Aside(t)'
            BY <2>1, <2>2, <1>s, HelperShows
        <3>2. Trying = FALSE /\ Current = installed /\ Prior = None /\ Heard = FALSE
            BY <3>1 DEF Free
        <3>3. Trying' = FALSE /\ Current' = installed /\ Prior' = None /\ Heard' = FALSE
            BY <2>2, <3>1 DEF Aside
        <3>4. QED
            BY <3>2, <3>3, <1>k DEF Shown
    <2>3. CASE helper'[t].pc = "none" /\ installed' = installed
        BY <2>1, <2>3, <1>j, HelperShowsNothing DEF Trials
    <2>4. QED
        BY <2>1, <2>2, <2>3
<1>3. CASE MoveIn(t)
    <2>1. /\ helper[t].pc = "moving" /\ InstallKind = "payload" /\ installed = None
          /\ backup \in Releases
          /\ \/ helper'[t].pc = "activated" /\ installed' = target[t] /\ backup' = backup
             \/ helper'[t].pc = "none" /\ installed' = backup
             \/ /\ helper'[t].pc = "none" /\ installed' = None
                /\ faults + 2 <= RenameFaults
        BY <1>3, <1>m, SwitchesAssumption DEF IInv, Way, MoveIn, Proven
    <2>2. Aside(t)
        BY <2>1, <1>s, HelperShows
    <2>3. Trying = FALSE /\ Current = backup /\ Prior = None /\ Heard = FALSE
        BY <2>2 DEF Aside
    <2>4. CASE helper'[t].pc = "activated" /\ installed' = target[t] /\ backup' = backup
        <3>1. Tries(t)'
            BY <2>1, <2>4, <1>s, HelperShows
        <3>2. Trying' = TRUE /\ Current' = target[t] /\ Prior' = backup
            BY <2>1, <2>4, <3>1, <1>j DEF Tries
        <3>3. Heard' = FALSE
            BY <2>1, <3>1, <1>h, <1>j DEF Tries, Heard
        <3>4. Trial!Try
            BY <2>1, <2>3, <3>2, <3>3, <1>k, <1>r DEF Trial!Try
        <3>5. QED
            BY <3>4
    <2>5. CASE helper'[t].pc = "none"
        <3>1. Free(t)'
            BY <2>1, <2>5, <1>s, HelperShows
        <3>2. Trying' = FALSE /\ Current' = installed' /\ Prior' = None /\ Heard' = FALSE
            BY <3>1 DEF Free
        <3>3. CASE installed' = backup
            BY <2>3, <3>2, <3>3, <1>k DEF Shown
        <3>4. CASE installed' = None /\ faults + 2 <= RenameFaults
            <4>1. RenameFaults > 1
                BY <1>t, <3>4, SwitchesAssumption DEF TypeOK
            <4>2. Trial!Lose
                BY <2>1, <2>3, <3>2, <3>4, <4>1, <1>k DEF Trial!Lose
            <4>3. QED
                BY <4>2
        <3>5. QED
            BY <2>1, <2>5, <3>3, <3>4
    <2>6. QED
        BY <2>1, <2>4, <2>5
<1>4. QED
    BY <1>1, <1>2, <1>3

\* A trial ends with the helper that decides, or with the repair.
LEMMA TrialOver ==
    ASSUME IInv, IInv', NEW t \in Txns, Alone(t), helper[t].pc \in Trials,
           helper'[t].pc \notin Deciding
    PROVE  /\ Trial!TrialEnds /\ Heard = (t \in acked) /\ Current' = installed'
           /\ Current = IF helper[t].pc = "restoring" THEN target[t] ELSE installed
           /\ Prior = IF InstallKind = "pointer" THEN from[t] ELSE backup
<1>1. helper[t].pc \in Locking
    BY DEF Trials, Locking, HelperPC
<1>2. Tries(t) /\ Free(t)'
    BY <1>1, HelperShows
<1>3. Trying = TRUE
    BY <1>2 DEF Tries
<1>4. Trying' = FALSE /\ Prior' = None /\ Heard' = FALSE /\ Current' = installed'
    BY <1>2 DEF Free
<1>5. Trial!TrialEnds
    BY <1>3, <1>4 DEF Trial!TrialEnds
<1>6. QED
    BY <1>2, <1>4, <1>5 DEF Tries

\* The verdict keeps what was acknowledged.
LEMMA CommitMaps ==
    ASSUME IInv, IInv', NEW t \in Txns, Alone(t), Commit(t)
    PROVE  Trial!Keep
<1>1. helper[t].pc = "healthy" /\ helper'[t].pc = "none" /\ journal'[t] = "committed"
    BY EndsMoves, JournalMoves DEF IInv, Commit, Stands
<1>2. t \in acked /\ installed = target[t] /\ installed' = installed
    BY <1>1 DEF IInv, Told, Way, Swapped, Commit, payload
<1>3. /\ Trial!TrialEnds /\ Heard = (t \in acked) /\ Current' = installed'
      /\ Current = IF helper[t].pc = "restoring" THEN target[t] ELSE installed
    BY <1>1, TrialOver DEF Trials, Deciding
<1>4. Heard /\ Current = target[t] /\ Current' = Current
    BY <1>1, <1>2, <1>3 DEF Heard
<1>5. Kept' = Kept \cup {target[t]} /\ Failed' = Failed
    BY <1>1, VerdictsAlone
<1>6. QED
    BY <1>3, <1>4, <1>5 DEF Trial!Keep

\* A repair reverts to what was there before, goes on, or fails and says so.
LEMMA RepairMaps ==
    ASSUME IInv, IInv', NEW t \in Txns, Alone(t), Rollback(t) \/ MoveBack(t)
    PROVE  Trial!Revert \/ Trial!GiveUp \/ UNCHANGED Shown
<1> USE DEF Stands
<1>m. /\ \A pc : To(t, pc) => helper'[t].pc = pc
      /\ Ends(t) => helper'[t].pc = "none"
      /\ \A s : WriteJournal(t, s) => journal'[t] = s
    BY ToMoves, EndsMoves, JournalMoves DEF IInv
<1>o. ASSUME helper[t].pc \in {"rolling", "restoring"}, helper'[t].pc \in {"restored", "none"}
      PROVE  /\ Trial!TrialEnds /\ Current' = installed'
             /\ Current = IF helper[t].pc = "restoring" THEN target[t] ELSE installed
             /\ Prior = IF InstallKind = "pointer" THEN from[t] ELSE backup
    BY <1>o, TrialOver DEF Trials, Deciding
<1>r. RenameMayFail => RenameFaults > 0
    BY SwitchesAssumption DEF RenameMayFail, IInv, TypeOK
<1>k. journal[t] \notin {"committed", "rollback_failed"}
    BY DEF IInv, Told, Alone
<1>1. CASE Rollback(t)
    <2>1. /\ helper[t].pc = "rolling" /\ installed = target[t]
          /\ \/ /\ InstallKind = "pointer" /\ helper'[t].pc = "restored"
                /\ installed' = from[t] /\ UNCHANGED journal
             \/ /\ InstallKind = "payload" /\ helper'[t].pc = "restoring"
                /\ installed' = None /\ UNCHANGED <<journal, backup>>
             \/ /\ helper'[t].pc = "none" /\ journal'[t] = "rollback_failed"
                /\ UNCHANGED installed /\ RenameFaults > 0
        BY <1>1, <1>m, <1>r DEF Rollback, RollbackFailed, IInv, Way, Swapped
    <2>2. CASE InstallKind = "pointer" /\ helper'[t].pc = "restored"
        <3>1. Current' = Prior /\ Kept' = Kept /\ Failed' = Failed
            BY <2>1, <2>2, <1>o, <1>k, VerdictsAlone
        <3>2. Trial!Revert
            BY <2>1, <2>2, <3>1, <1>o DEF Trial!Revert
        <3>3. QED
            BY <3>2
    <2>3. CASE InstallKind = "payload" /\ helper'[t].pc = "restoring"
        <3>1. "rolling" \in Locking /\ "rolling" \in Trials /\ "restoring" \in Trials
            BY DEF Locking, HelperPC, Trials
        <3>2. Tries(t) /\ Tries(t)'
            BY <2>1, <2>3, <3>1, HelperShows
        <3>3. target' = target /\ acked' = acked
            BY DEF Alone, table
        <3>4. Trying' = Trying /\ Heard' = Heard /\ Prior' = Prior /\ Current' = Current
            BY <2>1, <2>3, <3>2, <3>3 DEF Tries
        <3>5. Kept' = Kept /\ Failed' = Failed
            BY <2>1, <2>3, <1>k, VerdictsAlone
        <3>6. QED
            BY <3>4, <3>5 DEF Shown
    <2>4. CASE helper'[t].pc = "none"
        <3>1. Current' = Current /\ Kept' = Kept /\ Failed' = TRUE
            BY <2>1, <2>4, <1>o, VerdictsAlone
        <3>2. Trial!GiveUp
            BY <2>1, <2>4, <3>1, <1>o DEF Trial!GiveUp, Trial!BreaksOff
        <3>3. QED
            BY <3>2
    <2>5. QED
        BY <2>1, <2>2, <2>3, <2>4
<1>2. CASE MoveBack(t)
    <2>1. /\ helper[t].pc = "restoring" /\ installed = None /\ InstallKind = "payload"
          /\ \/ /\ helper'[t].pc = "restored" /\ installed' = backup
                /\ UNCHANGED journal
             \/ /\ helper'[t].pc = "none" /\ journal'[t] = "rollback_failed"
                /\ UNCHANGED installed /\ RenameFaults > 0
        BY <1>2, <1>m, <1>r, NoneAssumption, SwitchesAssumption
           DEF MoveBack, RollbackFailed, IInv, Way, Proven
    <2>2. CASE helper'[t].pc = "restored"
        <3>1. Current' = Prior /\ Kept' = Kept /\ Failed' = Failed
            BY <2>1, <2>2, <1>o, <1>k, VerdictsAlone
        <3>2. Trial!Revert
            BY <2>1, <2>2, <3>1, <1>o DEF Trial!Revert
        <3>3. QED
            BY <3>2
    <2>3. CASE helper'[t].pc = "none"
        <3>1. Current' = None /\ Kept' = Kept /\ Failed' = TRUE
            BY <2>1, <2>3, <1>o, VerdictsAlone
        <3>2. Trial!GiveUp
            BY <2>1, <2>3, <3>1, <1>o DEF Trial!GiveUp, Trial!BreaksOff
        <3>3. QED
            BY <3>2
    <2>4. QED
        BY <2>1, <2>2, <2>3
<1>3. QED
    BY <1>1, <1>2

\* A helper that ends too soon leaves its trial, or nothing to start.
LEMMA EndMaps ==
    ASSUME IInv, IInv', NEW t \in Txns, Alone(t), LaunchCandidate(t) \/ HelperDies(t)
    PROVE  Trial!Leave \/ Trial!Lose \/ UNCHANGED Shown
<1> USE DEF Stands
<1>k. journal' = journal /\ journal[t] \notin {"committed", "rollback_failed"}
      /\ installed' = installed /\ backup' = backup
    BY DEF IInv, Told, Alone, LaunchCandidate, HelperDies, payload
<1>v. Kept' = Kept /\ Failed' = Failed
    BY <1>k, VerdictsAlone
<1>1. CASE helper'[t].pc # "none"
    <2>1. helper[t].pc = "swapped" /\ helper'[t].pc = "started"
        BY <1>1, EndsMoves DEF IInv, TypeOK, HelperRecord, LaunchCandidate, HelperDies
    <2>2. QED
        BY <2>1, <1>k, HelperShowsNothing DEF Trials
<1>2. CASE helper'[t].pc = "none" /\ helper[t].pc \notin Deciding
    BY <1>2, <1>k, HelperShowsNothing DEF Trials, Deciding
<1>3. CASE helper'[t].pc = "none" /\ helper[t].pc = "moving"
    <2>1. /\ "helper_dies" \in Faults /\ InstallKind = "payload" /\ installed = None
        BY <1>3, SwitchesAssumption DEF IInv, Way, LaunchCandidate, HelperDies
    <2>2. Aside(t) /\ Free(t)'
        BY <1>3, HelperShows DEF Locking, HelperPC, Deciding, Trials
    <2>3. Trying = FALSE /\ Prior = None /\ Heard = FALSE
        BY <2>2 DEF Aside
    <2>4. Trying' = FALSE /\ Prior' = None /\ Heard' = FALSE /\ Current' = None
        BY <2>1, <2>2, <1>k DEF Free
    <2>5. Trial!Lose
        BY <2>1, <2>3, <2>4, <1>v DEF Trial!Lose
    <2>6. QED
        BY <2>5
<1>4. CASE helper'[t].pc = "none" /\ helper[t].pc \in Trials
    <2>1. Faults \cap {"helper_dies", "launch_fails"} # {}
        BY <1>4 DEF LaunchCandidate, HelperDies, IInv, TypeOK, HelperRecord
    <2>2. /\ Trial!TrialEnds /\ Current' = installed'
          /\ Current = IF helper[t].pc = "restoring" THEN target[t] ELSE installed
        BY <1>4, TrialOver DEF Trials, Deciding
    <2>3. helper[t].pc = "restoring" => installed = None /\ InstallKind = "payload"
        BY SwitchesAssumption DEF IInv, Way
    <2>4. Trial!Leave
        BY <2>1, <2>2, <2>3, <1>k, <1>v DEF Trial!Leave, Trial!BreaksOff
    <2>5. QED
        BY <2>4
<1>5. QED
    BY <1>1, <1>2, <1>3, <1>4 DEF Deciding

\* Every step is one of PayloadTrial or shows nothing.
LEMMA StepIsTrial ==
    ASSUME IInv, IInv', Acknowledgers, [Next]_vars
    PROVE  Trial!Next \/ UNCHANGED Shown
<1>1. ASSUME NEW a \in Apps, Instance(a)
      PROVE  Trial!Next \/ UNCHANGED Shown
    BY <1>1, InstanceIsCalm, CalmMaps DEF IInv, Trial!Next
<1>2. ASSUME NEW t \in Txns, Apply(t) \/ HelperDies(t)
      PROVE  Trial!Next \/ UNCHANGED Shown
    <2>1. Alone(t)
        BY <1>2, HelperAlone DEF IInv
    <2>2. QED
        BY <1>2, <2>1, HelperWaits, SwapMaps, CommitMaps, RepairMaps, EndMaps
           DEF Apply, Trial!Next
<1>3. CASE UNCHANGED vars
    BY <1>3 DEF vars, table, payload, Shown, Current, Trying, Tried, OnTrial, Prior, Heard, Kept,
        Failed
<1>4. QED
    BY <1>1, <1>2, <1>3 DEF Next

\* The updater implements PayloadTrial, whatever fails and whoever dies, and with a hasty
\* user too: a rollback brings back exactly the release that was there before the trial, and
\* a release is kept only if this trial's own candidate has acknowledged (fmd-updater
\* lib.rs:253-369).
THEOREM TrialImplemented == Spec => ImplementsTrial
<1>1. Init => Acknowledgers /\ Trial!Init
    <2> SUFFICES ASSUME Init PROVE Acknowledgers /\ Trial!Init
        OBVIOUS
    <2>1. Acknowledgers
        BY DEF Init, Acknowledgers, NoApp
    <2>2. \A t \in Txns : helper[t].pc \notin Deciding /\ journal[t] = None
        BY DEF Init, NoHelper, Deciding, Trials
    <2>3. Seen
        BY View
    <2>4. Trying = FALSE /\ Current = Base /\ Prior = None /\ Heard = FALSE
        BY <2>2, <2>3 DEF Seen, Init
    <2>5. None \notin {"committed", "rollback_failed"}
        BY NoneAssumption DEF UpdateState, TransactionState
    <2>6. Kept = {} /\ Failed = FALSE
        BY <2>2, <2>5 DEF Kept, Failed
    <2>7. QED
        BY <2>1, <2>4, <2>6 DEF Trial!Init
<1>2. IInv /\ IInv' /\ Acknowledgers /\ [Next]_vars => Acknowledgers'
    BY AcknowledgersStep
<1>3. IInv /\ IInv' /\ Acknowledgers /\ [Next]_vars
          => [Trial!Next]_<<Current, Trying, Prior, Heard, {Base} \cup Kept, Failed>>
    BY StepIsTrial DEF Shown
<1>4. Spec => [](IInv /\ Acknowledgers)
    BY <1>1, <1>2, PayloadInvariant, PTL DEF Spec
<1>5. Spec => Trial!Init
              /\ [][Trial!Next]_<<Current, Trying, Prior, Heard, {Base} \cup Kept, Failed>>
    BY <1>1, <1>3, <1>4, PTL DEF Spec
<1>6. QED
    BY <1>5, PTL DEF ImplementsTrial, Trial!Spec, Trial!vars

=============================================================================
