------------------------------ MODULE JobExecutor ------------------------------
(***************************************************************************)
(* The job scheduler and executor of fmd-core: the in-memory job table and *)
(* the SQLite table behind it (scheduler.rs, storage.rs), the commands the *)
(* window sends (src-tauri/src/lib.rs), and the Tokio task that probes and *)
(* downloads one job (executor.rs).                                        *)
(*                                                                         *)
(* Tauri runs the job commands, which are synchronous functions, one after *)
(* the other on its main thread; the tasks run beside it on the runtime's  *)
(* threads.  An action of a task is what it does between two points where  *)
(* another thread's step could make a difference: an await, or the release *)
(* of a lock on shared state.  A command is one action unless it reads     *)
(* state, releases the lock and acts on what it read (resume), or submits  *)
(* the job after it has changed its state (Submit).                        *)
(*                                                                         *)
(* Nothing keeps the user from starting the program twice on one profile.  *)
(* The variables of the process are those of one instance, called "this";  *)
(* "another" stands for all that run beside it.  What they do to the table *)
(* of jobs, the leases and the files of this one's jobs are actions of     *)
(* their own, kept as general as OtherRows allows; with no OtherRows the   *)
(* program is started once at a time.                                      *)
(***************************************************************************)
EXTENDS Naturals, Sequences, FiniteSets, JobStates

CONSTANTS
    Jobs,              \* identifiers of the jobs the user may create
    Concurrencies,     \* permits the scheduler's semaphore may be made with
    NEngines,          \* engines on the route of a source
    MaxTries,          \* retries of a transient failure (3 in the code)
    StoreMayFail,      \* whether SQLite writes may fail
    Plans,             \* snapshots set_plan may make of what a probe returns
    PostProcessing,    \* values DownloadOutcome::requires_post_processing may take
    RawCommands,       \* whether start_job and select_format are invoked
    OtherRows          \* snapshots another instance may save for a job

ASSUME JobsAssumption == IsFiniteSet(Jobs)
ASSUME ConcurrencyAssumption == Concurrencies \subseteq 1..8
ASSUME EnginesAssumption == NEngines \in Nat \ {0} /\ MaxTries \in Nat
ASSUME SwitchAssumption ==
    /\ StoreMayFail \in BOOLEAN
    /\ RawCommands \in BOOLEAN
    /\ PostProcessing \subseteq BOOLEAN

\* JobScheduler::set_plan: a plan with nothing to choose queues the job, one with
\* formats, subtitles, entries or authentication requirements awaits a selection.
AnyPlan == {[state |-> "Queued", needsAuth |-> FALSE],
            [state |-> "AwaitingSelection", needsAuth |-> FALSE],
            [state |-> "AwaitingSelection", needsAuth |-> TRUE]}
ASSUME PlansAssumption == Plans \subseteq AnyPlan

\* A job as the executor tells jobs apart: its state, and whether the plan its
\* probe resolved lists authentication requirements.
Snapshot == [state : JobState \cup {Absent}, needsAuth : BOOLEAN]
NoSnapshot == [state |-> Absent, needsAuth |-> FALSE]

ASSUME OthersAssumption == OtherRows \subseteq [state : JobState, needsAuth : BOOLEAN]

VARIABLES
    up,          \* the process is running
    concurrency, \* the permits the semaphore was made with
    marking,     \* the process is starting and has listed the active jobs
    listed,      \* the rows it has listed and not yet marked
    mem,         \* JobScheduler::jobs, the snapshots in memory
    db,          \* the jobs table of fmd.db
    leases,      \* the engine_leases table: pairs <<job, engine>>
    auth,        \* JobExecutor::transfer_auth: jobs with credentials in memory
    token,       \* JobExecutor::cancellations: whose token the job's entry holds
    stop,        \* the token held by the job's task is cancelled
    pc,          \* where the job's task stands, "idle" when there is none
    attempt,     \* the engine of the route the task is at
    tries,       \* transient failures of the current engine
    permits,     \* permits the semaphore has left
    waiting,     \* the semaphore's queue, first come first served
    resuming,    \* the job whose resume command is between its checks, if any
    submitting,  \* the job whose command has yet to call submit, if any
    shared,      \* history: jobs another instance has worked on
    placed,      \* history: jobs whose latest download put its file in place,
                 \* where it still is
    replaced,    \* history: those whose file another job's has replaced since
    unseen,      \* history: jobs whose file was put in place after the destination
                 \* of this one, about to be moved, was found free
    unserved     \* history: jobs whose latest submit started no task, or that
                 \* were read back as they stood when the process started

\* What no step of the running process changes.
outside == <<up, concurrency, marking, listed, shared>>
memory == <<mem, auth>>
commands == <<resuming, submitting>>
engine == <<attempt, tries>>
semaphore == <<permits, waiting>>
files == <<placed, replaced, unseen>>
history == <<files, unserved>>
vars == <<outside, mem, db, leases, auth, token, stop, pc, attempt, tries, permits,
          waiting, resuming, submitting, files, unserved>>

\* Where the holder of a permit stands: from the grant to the end of download().
HoldsPermit == {"prepare", "launch", "transfer", "backoff", "place", "rename", "complete"}
\* Where the task uses the engine of its current attempt, whose lease it took.
UsesEngine == {"probe", "launch", "transfer", "backoff", "place", "rename", "complete"}
PC == HoldsPermit \cup
      {"idle", "start", "resolve", "probe", "proceed", "wait", "error", "settle", "unmap"}

SaveResults == IF StoreMayFail THEN BOOLEAN ELSE {TRUE}

Init ==
    /\ up = TRUE
    /\ concurrency \in Concurrencies
    /\ marking = FALSE
    /\ listed = [j \in Jobs |-> NoSnapshot]
    /\ mem = [j \in Jobs |-> NoSnapshot]
    /\ db = [j \in Jobs |-> NoSnapshot]
    /\ leases = {}
    /\ auth = {}
    /\ token = [j \in Jobs |-> "none"]
    /\ stop = [j \in Jobs |-> FALSE]
    /\ pc = [j \in Jobs |-> "idle"]
    /\ attempt = [j \in Jobs |-> 1]
    /\ tries = [j \in Jobs |-> 0]
    /\ permits = concurrency
    /\ waiting = <<>>
    /\ resuming = {}
    /\ submitting = {}
    /\ shared = {}
    /\ placed = {}
    /\ replaced = {}
    /\ unseen = [j \in Jobs |-> {}]
    /\ unserved = {}

--------------------------------------------------------------------------------
(* The scheduler: every change is made in memory first, then saved.         *)

\* The snapshot of j becomes s in memory; saved says whether SQLite took it.
Store(j, s, saved) ==
    /\ mem' = [mem EXCEPT ![j] = s]
    /\ db' = IF saved THEN [db EXCEPT ![j] = s] ELSE db

WithState(j, s) == [mem[j] EXCEPT !.state = s]

\* JobScheduler::transition, when the table admits the step.
Transition(j, s, saved) ==
    /\ CanTransition(mem[j].state, s)
    /\ saved \in SaveResults
    /\ Store(j, WithState(j, s), saved)

\* JobExecutor::transition: nothing to do in state s, else the scheduler's
\* transition, which fails outside the table or when the store does.
Reach(j, s, done) ==
    \/ mem[j].state = s /\ done /\ UNCHANGED <<mem, db>>
    \/ mem[j].state # s /\ Transition(j, s, done)
    \/ /\ mem[j].state # s
       /\ ~CanTransition(mem[j].state, s)
       /\ ~done
       /\ UNCHANGED <<mem, db>>

\* Mutant of Fail: a failure overwrites a state that had ended.
FailAlways(j, done) == done \in SaveResults /\ Store(j, WithState(j, "Failed"), done)

\* JobScheduler::fail: from every state that is not terminal, whatever the table.
Fail(j, done) ==
    IF mem[j].state \in Terminal
    THEN done /\ UNCHANGED <<mem, db>>
    ELSE done \in SaveResults /\ Store(j, WithState(j, "Failed"), done)

\* JobExecutor::fail_engine: an engine stopped on request is not a failure.
FailEngine(j, canceled, done) ==
    IF canceled /\ mem[j].state \in {"Paused", "Canceled"}
    THEN done /\ UNCHANGED <<mem, db>>
    ELSE Fail(j, done)

\* update_progress and record_engine_version write the snapshot as it stands.
Resave(j) == db' = [db EXCEPT ![j] = mem[j]]

--------------------------------------------------------------------------------
(* The commands of the window.                                              *)

MainThreadFree == up /\ resuming = {} /\ submitting = {}
Exists(j) == mem[j].state # Absent

\* create_job, up to the submission of the job it created.  It is an async command
\* and runs on the runtime's threads, but until it has submitted the job nothing
\* else can be done to it, as it is Probing and has no entry.  Its identifier is
\* a new one, which no row has.
CreateJob(j) ==
    /\ MainThreadFree
    /\ db[j].state = Absent
    /\ ~Exists(j)
    /\ Store(j, WithState(j, "Probing"), TRUE)
    /\ submitting' = {j}
    /\ UNCHANGED <<outside, leases, auth, token, stop, pc, engine, semaphore, resuming,
                   history>>

\* JobExecutor::submit: the new token always replaces the one in the entry; a
\* task is spawned only when there was no entry.
Submit(j) ==
    /\ up
    /\ j \in submitting
    /\ submitting' = {}
    /\ IF token[j] = "none"
       THEN /\ token' = [token EXCEPT ![j] = "task"]
            /\ pc' = [pc EXCEPT ![j] = "start"]
            /\ unserved' = unserved \ {j}
       ELSE /\ token' = [token EXCEPT ![j] = "orphan"]
            /\ unserved' = unserved \cup {j}
            /\ UNCHANGED pc
    /\ UNCHANGED <<outside, memory, db, leases, stop, engine, semaphore, resuming,
                   files>>

\* start_job, a registered command the window never invokes.
StartJob(j) ==
    /\ RawCommands
    /\ MainThreadFree
    /\ Exists(j)
    /\ submitting' = {j}
    /\ UNCHANGED <<outside, memory, db, leases, token, stop, pc, engine, semaphore,
                   resuming, history>>

\* JobScheduler::complete_selection, with a selection the plan admits, and the
\* call of submit that follows it unless the store failed.
CompleteSelection(j) ==
    /\ MainThreadFree
    /\ mem[j].state = "AwaitingSelection"
    /\ \E saved \in SaveResults :
          /\ Store(j, WithState(j, "Queued"), saved)
          /\ submitting' = IF saved THEN {j} ELSE {}
    /\ UNCHANGED <<outside, leases, auth, token, stop, pc, engine, semaphore, resuming,
                   history>>

\* complete_job_selection asks for the credentials the plan requires first.
CompleteJobSelection(j) ==
    /\ mem[j].needsAuth => j \in auth
    /\ CompleteSelection(j)

\* select_format, a registered command the window never invokes, does not.
SelectFormat(j) == RawCommands /\ CompleteSelection(j)

\* authorize_sftp_job, up to JobExecutor::set_transfer_auth.
AuthorizeJob(j) ==
    /\ MainThreadFree
    /\ mem[j] = [state |-> "AwaitingSelection", needsAuth |-> TRUE]
    /\ auth' = auth \cup {j}
    /\ UNCHANGED <<outside, mem, db, leases, token, stop, pc, engine, semaphore,
                   commands, history>>

\* JobExecutor::pause.  The token of the entry is cancelled, which reaches the
\* task only when it is the one the task holds.
PauseJob(j) ==
    /\ MainThreadFree
    /\ mem[j].state \in {"Queued", "Preparing", "Downloading"}
    /\ \E saved \in SaveResults :
          /\ Transition(j, "Paused", saved)
          /\ stop' = [stop EXCEPT ![j] = @ \/ (saved /\ token[j] = "task")]
    /\ UNCHANGED <<outside, leases, auth, token, pc, engine, semaphore, commands,
                   history>>

\* JobExecutor::resume, its first check.
ResumeJob(j) ==
    /\ MainThreadFree
    /\ mem[j].state \in {"Paused", "Interrupted"}
    /\ resuming' = {j}
    /\ UNCHANGED <<outside, memory, db, leases, token, stop, pc, engine, semaphore,
                   submitting, history>>

\* JobExecutor::resume, the rest: refused while the job has an entry or when the
\* state has changed meanwhile.
ResumeChecked(j) ==
    /\ up
    /\ j \in resuming
    /\ resuming' = {}
    /\ \/ /\ token[j] # "none" \/ ~CanTransition(mem[j].state, "Queued")
          /\ UNCHANGED <<mem, db, submitting>>
       \/ /\ token[j] = "none"
          /\ \E saved \in SaveResults :
                /\ Transition(j, "Queued", saved)
                /\ submitting' = IF saved THEN {j} ELSE {}
    /\ UNCHANGED <<outside, leases, auth, token, stop, pc, engine, semaphore, history>>

\* Mutant of RetryJob: the job is queued but not submitted.
RetryWithoutSubmit(j) ==
    /\ MainThreadFree
    /\ mem[j].state = "Failed"
    /\ \E saved \in SaveResults :
          Transition(j, IF mem[j].needsAuth THEN "Probing" ELSE "Queued", saved)
    /\ UNCHANGED <<outside, leases, auth, token, stop, pc, engine, semaphore, commands,
                   history>>

\* JobExecutor::retry: a job that needs credentials is probed again for them.
RetryJob(j) ==
    /\ MainThreadFree
    /\ mem[j].state = "Failed"
    /\ \E saved \in SaveResults :
          /\ Transition(j, IF mem[j].needsAuth THEN "Probing" ELSE "Queued", saved)
          /\ submitting' = IF saved THEN {j} ELSE {}
    /\ UNCHANGED <<outside, leases, auth, token, stop, pc, engine, semaphore, resuming,
                   history>>

\* Mutant of CancelJob: the leases are deleted at once, as in TaskSettle.
CancelJobReleases(j) ==
    /\ MainThreadFree
    /\ token[j] = "none" =>
          mem[j].state \in {"AwaitingSelection", "Queued", "Paused", "Interrupted"}
    /\ Exists(j)
    /\ \E saved \in SaveResults :
          /\ Transition(j, "Canceled", saved)
          /\ auth' = IF saved THEN auth \ {j} ELSE auth
          /\ stop' = [stop EXCEPT ![j] = @ \/ (saved /\ token[j] = "task")]
    /\ leases' = {l \in leases : l[1] # j}
    /\ UNCHANGED <<outside, token, pc, engine, semaphore, commands, history>>

\* JobExecutor::cancel.  With an entry the scheduler's table decides; without
\* one, four states admit it.  The leases of the job are left as they are.
CancelJob(j) ==
    /\ MainThreadFree
    /\ token[j] = "none" =>
          mem[j].state \in {"AwaitingSelection", "Queued", "Paused", "Interrupted"}
    /\ Exists(j)
    /\ \E saved \in SaveResults :
          /\ Transition(j, "Canceled", saved)
          /\ auth' = IF saved THEN auth \ {j} ELSE auth
          /\ stop' = [stop EXCEPT ![j] = @ \/ (saved /\ token[j] = "task")]
    /\ UNCHANGED <<outside, leases, token, pc, engine, semaphore, commands, history>>

--------------------------------------------------------------------------------
(* The task of a job.                                                       *)

Goto(j, label) == pc' = [pc EXCEPT ![j] = label]

\* A result of a step of probe(): Ok leads back to run(), Err to the error path.
ProbeEnds(j, done) == Goto(j, IF done THEN "proceed" ELSE "error")

\* Mutant of DownloadEnds: the permit is kept on the error path.
DownloadEndsLeaking(j, done) ==
    /\ Goto(j, IF done THEN "settle" ELSE "error")
    /\ permits' = IF done THEN permits + 1 ELSE permits

\* download() returns, with Ok or Err, and drops its permit.
DownloadEnds(j, done) ==
    /\ Goto(j, IF done THEN "settle" ELSE "error")
    /\ permits' = permits + 1

NextEngine(j, label) ==
    /\ attempt' = [attempt EXCEPT ![j] = @ + 1]
    /\ Goto(j, label)

\* run(), the match on the state it finds.  A probe ends here when a pack of the
\* route is missing or its staging directory cannot be created.
TaskStart(j) ==
    /\ pc[j] = "start"
    /\ CASE mem[j].state = "Probing" ->
               \/ /\ attempt' = [attempt EXCEPT ![j] = 1]
                  /\ Goto(j, "resolve")
                  /\ UNCHANGED <<mem, db>>
               \/ \E done \in BOOLEAN :
                     Fail(j, done) /\ ProbeEnds(j, done) /\ UNCHANGED attempt
               \/ Goto(j, "error") /\ UNCHANGED <<mem, db, attempt>>
         [] mem[j].state \in {"Queued", "Interrupted", "Paused"} ->
               \E done \in BOOLEAN :
                 Reach(j, "Queued", done) /\ ProbeEnds(j, done) /\ UNCHANGED attempt
         [] mem[j].state = "AwaitingSelection" ->
               Goto(j, "settle") /\ UNCHANGED <<mem, db, attempt>>
         [] OTHER -> Goto(j, "error") /\ UNCHANGED <<mem, db, attempt>>
    /\ UNCHANGED <<outside, auth, leases, token, stop, tries, semaphore, commands,
                   history>>

\* probe(), the head of its loop: an engine that is not installed is skipped,
\* one that is gets a lease; past the last engine the probe has failed.
TaskResolve(j) ==
    /\ pc[j] = "resolve"
    /\ \/ /\ attempt[j] <= NEngines
          /\ NextEngine(j, "resolve")
          /\ UNCHANGED <<mem, db, leases>>
       \/ /\ attempt[j] <= NEngines
          /\ leases' = leases \cup {<<j, attempt[j]>>}
          /\ Goto(j, "probe")
          /\ UNCHANGED <<mem, db, attempt>>
       \/ /\ attempt[j] <= NEngines
          /\ Goto(j, "error")
          /\ UNCHANGED <<mem, db, leases, attempt>>
       \/ /\ attempt[j] > NEngines
          /\ \E done \in BOOLEAN : FailEngine(j, FALSE, done) /\ ProbeEnds(j, done)
          /\ UNCHANGED <<leases, attempt>>
    /\ UNCHANGED <<outside, auth, token, stop, tries, semaphore, commands,
                   history>>

\* JobScheduler::set_plan, only for a job that is still Probing, after
\* record_engine_version has written the snapshot, or has failed to.
SetPlan(j, plan, done) ==
    \/ mem[j].state = "Probing" /\ done \in SaveResults /\ Store(j, plan, done)
    \/ mem[j].state # "Probing" /\ ~done /\ Resave(j) /\ UNCHANGED mem
    \/ StoreMayFail /\ ~done /\ UNCHANGED <<mem, db>>

\* probe(), when the adapter returns.
TaskProbed(j) ==
    /\ pc[j] = "probe"
    /\ \/ /\ ~stop[j]
          /\ \E plan \in Plans, done \in BOOLEAN :
                SetPlan(j, plan, done) /\ ProbeEnds(j, done)
          /\ UNCHANGED attempt
       \/ NextEngine(j, "resolve") /\ UNCHANGED <<mem, db>>
       \/ \E canceled \in {FALSE, stop[j]}, done \in BOOLEAN :
             /\ FailEngine(j, canceled, done)
             /\ ProbeEnds(j, done)
             /\ UNCHANGED attempt
    /\ UNCHANGED <<outside, auth, leases, token, stop, tries, semaphore, commands,
                   history>>

\* run(), after the probe: a job that awaits a selection ends its task, any other
\* one queues for a permit.
TaskProceed(j) ==
    /\ pc[j] = "proceed"
    /\ IF mem[j].state = "AwaitingSelection"
       THEN Goto(j, "settle") /\ UNCHANGED waiting
       ELSE Goto(j, "wait") /\ waiting' = Append(waiting, j)
    /\ UNCHANGED <<outside, memory, db, leases, token, stop, engine, permits, commands,
                   history>>

\* download(): the permit is granted, and given back at once if the job cannot
\* be prepared any more.
TaskGranted(j) ==
    /\ pc[j] = "wait"
    /\ permits > 0
    /\ waiting # <<>> /\ Head(waiting) = j
    /\ waiting' = Tail(waiting)
    /\ \E done \in BOOLEAN :
          /\ Reach(j, "Preparing", done)
          /\ permits' = IF done THEN permits - 1 ELSE permits
          /\ Goto(j, IF done THEN "prepare" ELSE "error")
    /\ attempt' = [attempt EXCEPT ![j] = 1]
    /\ placed' = placed \ {j}
    /\ replaced' = replaced \ {j}
    /\ UNCHANGED <<outside, auth, leases, token, stop, tries, commands, unseen,
                   unserved>>

\* download(), the head of its loop over the engines, up to the version record.
TaskPrepare(j) ==
    /\ pc[j] = "prepare"
    /\ \/ /\ attempt[j] <= NEngines
          /\ NextEngine(j, "prepare")
          /\ UNCHANGED <<mem, db, leases, permits>>
       \/ /\ attempt[j] <= NEngines
          /\ leases' = leases \cup {<<j, attempt[j]>>}
          /\ Resave(j)
          /\ Goto(j, "launch")
          /\ UNCHANGED <<mem, attempt, permits>>
       \/ /\ attempt[j] <= NEngines
          /\ leases' \in {leases, leases \cup {<<j, attempt[j]>>}}
          /\ DownloadEnds(j, FALSE)
          /\ UNCHANGED <<mem, db, attempt>>
       \/ /\ attempt[j] > NEngines
          /\ \E done \in BOOLEAN : FailEngine(j, FALSE, done) /\ DownloadEnds(j, done)
          /\ UNCHANGED <<leases, attempt>>
    /\ UNCHANGED <<outside, auth, token, stop, tries, waiting, commands,
                   history>>

\* download(): the job is Downloading from here on, also with the next engine.
TaskLaunch(j) ==
    /\ pc[j] = "launch"
    /\ \/ Reach(j, "Downloading", TRUE) /\ Goto(j, "transfer") /\ UNCHANGED permits
       \/ Reach(j, "Downloading", FALSE) /\ DownloadEnds(j, FALSE)
    /\ tries' = [tries EXCEPT ![j] = 0]
    /\ UNCHANGED <<outside, auth, leases, token, stop, attempt, waiting, commands,
                   history>>

\* update_progress, called by the monitor of the running engine.
TaskProgress(j) ==
    /\ pc[j] = "transfer"
    /\ Resave(j)
    /\ UNCHANGED <<outside, memory, leases, token, stop, pc, engine, semaphore,
                   commands, history>>

\* download(), when the adapter returns.  The adapter reports success only after
\* it has seen the token not cancelled.
TaskTransferred(j) ==
    /\ pc[j] = "transfer"
    /\ \/ /\ ~stop[j]
          /\ Goto(j, "place")
          /\ UNCHANGED <<mem, db, engine, permits>>
       \/ /\ tries[j] < MaxTries
          /\ tries' = [tries EXCEPT ![j] = @ + 1]
          /\ Goto(j, "backoff")
          /\ UNCHANGED <<mem, db, attempt, permits>>
       \/ NextEngine(j, "prepare") /\ UNCHANGED <<mem, db, tries, permits>>
       \/ \E canceled \in {FALSE, stop[j]}, done \in BOOLEAN :
             /\ FailEngine(j, canceled, done)
             /\ DownloadEnds(j, done)
             /\ UNCHANGED engine
    /\ UNCHANGED <<outside, auth, leases, token, stop, waiting, commands, history>>

\* The sleep between two tries, which does not watch the token.
TaskBackoff(j) ==
    /\ pc[j] = "backoff"
    /\ Goto(j, "transfer")
    /\ UNCHANGED <<outside, memory, db, leases, token, stop, engine, semaphore,
                   commands, history>>

\* download(), success: a destination is chosen among the names that are free, and
\* the job is PostProcessing if the adapter asks for it.  The window never asks for
\* an existing file to be shared.
TaskPlace(j) ==
    /\ pc[j] = "place"
    /\ \/ DownloadEnds(j, FALSE) /\ UNCHANGED <<mem, db>>
       \/ /\ FALSE \in PostProcessing
          /\ Goto(j, "rename")
          /\ UNCHANGED <<mem, db, permits>>
       \/ /\ TRUE \in PostProcessing
          /\ \/ Reach(j, "PostProcessing", TRUE) /\ Goto(j, "rename") /\ UNCHANGED permits
             \/ Reach(j, "PostProcessing", FALSE) /\ DownloadEnds(j, FALSE)
    /\ UNCHANGED <<outside, auth, leases, token, stop, engine, waiting, commands,
                   history>>

\* Mutant of TaskRename: the size is recorded and the file left in staging.
TaskRenameForgotten(j) ==
    /\ pc[j] = "rename"
    /\ Resave(j) /\ Goto(j, "complete")
    /\ UNCHANGED <<outside, memory, leases, token, stop, engine, semaphore, commands,
                   history>>

\* The file of j comes to its destination.  The name was free when it was chosen:
\* the rename replaces a file that came there since.
MoveFile(j) ==
    /\ \E victims \in {{}} \cup {{k} : k \in unseen[j] \cap placed} :
          /\ placed' = (placed \ victims) \cup {j}
          /\ replaced' = replaced \cup victims
    /\ unseen' = [k \in Jobs |->
                     IF k # j /\ pc[k] = "rename" THEN unseen[k] \cup {j} ELSE {}]

\* download(): the file is moved to its destination and its size recorded.
TaskRename(j) ==
    /\ pc[j] = "rename"
    /\ \/ /\ DownloadEnds(j, FALSE)
          /\ unseen' = [unseen EXCEPT ![j] = {}]
          /\ UNCHANGED <<db, placed, replaced>>
       \/ /\ MoveFile(j)
          /\ \/ Resave(j) /\ Goto(j, "complete") /\ UNCHANGED permits
             \/ StoreMayFail /\ DownloadEnds(j, FALSE) /\ UNCHANGED db
    /\ UNCHANGED <<outside, memory, leases, token, stop, engine, waiting, commands,
                   unserved>>

TaskComplete(j) ==
    /\ pc[j] = "complete"
    /\ \E done \in BOOLEAN : Reach(j, "Completed", done) /\ DownloadEnds(j, done)
    /\ UNCHANGED <<outside, auth, leases, token, stop, engine, waiting, commands,
                   history>>

\* Mutant of TaskError: the error is dropped.
TaskErrorDropped(j) ==
    /\ pc[j] = "error"
    /\ Goto(j, "settle")
    /\ UNCHANGED <<outside, memory, db, leases, token, stop, engine, semaphore,
                   commands, history>>

\* submit()'s closure: an error run() returned becomes the job's failure.
TaskError(j) ==
    /\ pc[j] = "error"
    /\ \E done \in BOOLEAN : Fail(j, done)
    /\ Goto(j, "settle")
    /\ UNCHANGED <<outside, auth, leases, token, stop, engine, semaphore, commands,
                   history>>

\* The rows release_engine_leases deletes.
LeasesOf(j) == {l \in leases : l[1] = j}

\* Mutant of TaskSettle: the credentials stay in the map.
TaskSettleKeepsSecrets(j) ==
    /\ pc[j] = "settle"
    /\ Goto(j, "unmap")
    /\ leases' = IF mem[j].state \in Terminal THEN leases \ LeasesOf(j) ELSE leases
    /\ UNCHANGED <<outside, memory, db, token, stop, engine, semaphore, commands,
                   history>>

\* submit()'s closure: a job that has ended gives its leases and secrets back.
TaskSettle(j) ==
    /\ pc[j] = "settle"
    /\ Goto(j, "unmap")
    /\ IF mem[j].state \in Terminal
       THEN /\ \E saved \in SaveResults :
                 leases' = IF saved THEN leases \ LeasesOf(j) ELSE leases
            /\ auth' = auth \ {j}
       ELSE UNCHANGED <<leases, auth>>
    /\ UNCHANGED <<outside, mem, db, token, stop, engine, semaphore, commands,
                   history>>

\* Mutant of TaskUnmap: an entry whose token was replaced is left alone.
TaskUnmapOwnToken(j) ==
    /\ pc[j] = "unmap"
    /\ token' = [token EXCEPT ![j] = IF @ = "task" THEN "none" ELSE @]
    /\ Goto(j, "idle")
    /\ UNCHANGED <<outside, memory, db, leases, stop, engine, semaphore, commands,
                   history>>

\* submit()'s closure: the entry goes, whichever token it holds by now, and the
\* task's own state with it.
TaskUnmap(j) ==
    /\ pc[j] = "unmap"
    /\ token' = [token EXCEPT ![j] = "none"]
    /\ Goto(j, "idle")
    /\ stop' = [stop EXCEPT ![j] = FALSE]
    /\ attempt' = [attempt EXCEPT ![j] = 1]
    /\ tries' = [tries EXCEPT ![j] = 0]
    /\ UNCHANGED <<outside, memory, db, leases, semaphore, commands, history>>

--------------------------------------------------------------------------------
(* The process ends, and starts again (AppState::initialize).               *)

Crash ==
    /\ up
    /\ up' = FALSE
    /\ mem' = [j \in Jobs |-> NoSnapshot]
    /\ auth' = {}
    /\ token' = [j \in Jobs |-> "none"]
    /\ stop' = [j \in Jobs |-> FALSE]
    /\ pc' = [j \in Jobs |-> "idle"]
    /\ attempt' = [j \in Jobs |-> 1]
    /\ tries' = [j \in Jobs |-> 0]
    /\ permits' = concurrency
    /\ waiting' = <<>>
    /\ resuming' = {}
    /\ submitting' = {}
    /\ unserved' = {}
    /\ unseen' = [j \in Jobs |-> {}]
    /\ UNCHANGED <<concurrency, marking, listed, shared, db, leases, placed,
                   replaced>>

\* Mutant of ListActive: every job that has not ended is listed.
ListUnended ==
    /\ ~up
    /\ marking' = TRUE
    /\ listed' = [j \in Jobs |->
                     IF db[j].state \in Terminal \cup {Absent} THEN NoSnapshot ELSE db[j]]
    /\ UNCHANGED <<up, concurrency, shared, memory, db, leases, token, stop, pc, engine,
                   semaphore, commands, history>>

\* JobStore::mark_active_jobs_interrupted lists the rows of active jobs.  A start that
\* was cut short begins anew.
ListActive ==
    /\ ~up
    /\ marking' = TRUE
    /\ listed' = [j \in Jobs |-> IF db[j].state \in Active THEN db[j] ELSE NoSnapshot]
    /\ UNCHANGED <<up, concurrency, shared, memory, db, leases, token, stop, pc, engine,
                   semaphore, commands, history>>

\* It then saves them as interrupted, one at a time, whatever the rows are by then.
MarkInterrupted(j) ==
    /\ listed[j] # NoSnapshot
    /\ db' = [db EXCEPT ![j] = [listed[j] EXCEPT !.state = "Interrupted"]]
    /\ listed' = [listed EXCEPT ![j] = NoSnapshot]
    /\ UNCHANGED <<up, concurrency, marking, shared, memory, leases, token, stop, pc,
                   engine, semaphore, commands, history>>

\* JobScheduler::new reads the table back; nothing is submitted.
Restart ==
    /\ ~up
    /\ marking
    /\ \A j \in Jobs : listed[j] = NoSnapshot
    /\ up' = TRUE
    /\ marking' = FALSE
    /\ mem' = db
    /\ unserved' = {j \in Jobs : db[j].state = "Queued"}
    /\ UNCHANGED <<concurrency, listed, shared, db, leases, auth, token, stop, pc,
                   engine, semaphore, commands, files>>

--------------------------------------------------------------------------------
(* What an instance that runs beside this one does to its jobs.             *)

\* It saves a job: one it has created or read back and works on, or one of this
\* instance's that its start has listed as active and marks as interrupted.
AnotherSaves(j) ==
    /\ \E row \in OtherRows : db' = [db EXCEPT ![j] = row]
    /\ shared' = shared \cup {j}
    /\ UNCHANGED <<up, concurrency, marking, listed, memory, leases, token, stop, pc,
                   engine, semaphore, commands, history>>

\* Its task for the job takes a lease on another version of an engine, which replaces
\* the one in the table, or gives all the job's leases back: the table does not say
\* whose they are.
AnotherLeases(j) ==
    /\ OtherRows # {}
    /\ \E lost \in SUBSET LeasesOf(j) : leases' = leases \ lost
    /\ shared' = shared \cup {j}
    /\ UNCHANGED <<up, concurrency, marking, listed, memory, db, token, stop, pc,
                   engine, semaphore, commands, history>>

\* It moves a file of its own to the destination the job's file came to since that
\* name was found free.
AnotherPlaces(j) ==
    /\ OtherRows # {}
    /\ j \in placed
    /\ placed' = placed \ {j}
    /\ replaced' = replaced \cup {j}
    /\ UNCHANGED <<outside, memory, db, leases, token, stop, pc, engine, semaphore,
                   commands, unseen, unserved>>

--------------------------------------------------------------------------------

Command(j) ==
    \/ CreateJob(j) \/ Submit(j) \/ StartJob(j)
    \/ CompleteJobSelection(j) \/ SelectFormat(j) \/ AuthorizeJob(j)
    \/ PauseJob(j) \/ ResumeJob(j) \/ ResumeChecked(j) \/ RetryJob(j) \/ CancelJob(j)

\* The steps the runtime takes for the task of j on its own.
Task(j) ==
    \/ TaskStart(j) \/ TaskResolve(j) \/ TaskProbed(j) \/ TaskProceed(j)
    \/ TaskGranted(j) \/ TaskPrepare(j) \/ TaskLaunch(j) \/ TaskTransferred(j)
    \/ TaskBackoff(j) \/ TaskPlace(j) \/ TaskRename(j) \/ TaskComplete(j)
    \/ TaskError(j) \/ TaskSettle(j) \/ TaskUnmap(j)

\* The steps of an instance that runs beside this one.
Another(j) == AnotherSaves(j) \/ AnotherLeases(j) \/ AnotherPlaces(j)

Next ==
    \/ \E j \in Jobs :
          Command(j) \/ Task(j) \/ TaskProgress(j) \/ MarkInterrupted(j) \/ Another(j)
    \/ Crash
    \/ ListActive
    \/ Restart

Spec == Init /\ [][Next]_vars

\* The runtime polls every task that can go on, an engine's process ends by
\* itself or by its timeout, and a command that has begun is carried to its end.
Fairness ==
    \A j \in Jobs :
        /\ WF_vars(Task(j))
        /\ WF_vars(Submit(j) \/ ResumeChecked(j))

FairSpec == Spec /\ Fairness

================================================================================
