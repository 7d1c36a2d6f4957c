# Verification of Free Media Downloader

TLA+ models, TLC runs and TLAPS proofs for the Rust core of Free Media Downloader
(`src/`), a Tauri desktop program that downloads media with external engines
(yt-dlp, aria2, a curl worker, ...) and updates both the engines and itself.

## 1. The system

| Component | Code | State it keeps | Operations |
|---|---|---|---|
| Job state machine | `fmd-core/src/job.rs` | – | which state of a job may follow which |
| Job scheduler | `fmd-core/src/scheduler.rs` | jobs in memory behind one lock; a semaphore of 1 to 8 permits (2 today) | create, transition, set_plan, complete_selection, update_progress, record_engine_version, fail, read back at start |
| Job executor | `fmd-core/src/executor.rs` | map from job to cancellation token; map from job to credentials; one Tokio task per job | submit, run (probe, download), pause, resume, retry, cancel, set_transfer_auth |
| Job store | `fmd-core/src/storage.rs` | SQLite: jobs, engine_leases, pack high-water marks, update receipts and journals, SFTP host keys | save, mark_active_jobs_interrupted, leases, commits, trust |
| Engine adapters | `fmd-core/src/adapter.rs`, `error.rs` | a running engine | probe, download, classification of failures |
| Process supervisor | `fmd-core/src/process.rs` | one child process and two readers of its output | run to exit, timeout, cancellation, output limits |
| Engine packs | `fmd-core/src/pack.rs`, `PackService` in `src-tauri/src/lib.rs` | version directories, pointer files, staging | install, activate, recover, collect garbage |
| Core updater | `fmd-updater`, `fmd-launcher`, `CoreUpdateService` in `src-tauri/src/lib.rs` | receipts, journals in the database and on disk, the payload directory | prepare, download, apply, swap, roll back, reconcile |
| Curl worker | `fmd-curl-worker` | a partial file, a host-key decision | one transfer, events to the parent |
| Source routing | `fmd-core/src/routing.rs` | – | the engines for a source |
| Window | `src/App.svelte` | what it was last told, the host key of each job among it | the buttons a state offers, the form that authorizes an SFTP job |
| Packaging and publishing tools | `fmd-packager`, `scripts` | an output file, a payload, an archive | extract-tar-gz-entry, extract-zip-entry, package; sign and publish metadata |
| Manifests, Metalink reader | `engine.rs`, `metalink.rs` | – | validate, verify_payload; parse |

How they interact.  The window calls commands of the shell
(`src-tauri/src/lib.rs`), nearly all of them synchronous functions that Tauri runs
one after the other on its main thread; `create_job` and the pack and update
commands are async and run on the runtime.  Commands call the scheduler and the
executor.  `submit` starts one Tokio task for a job.  The task calls adapters,
which run engines under the process supervisor, and calls the scheduler to record
what happens; it competes with the other tasks for the semaphore, and with the
commands for the job's state, its token and its credentials.  The scheduler writes
every snapshot to SQLite after it has changed it in memory.  When the program
starts, the store's active jobs are listed, each is saved as interrupted, and the table is
read back.

Nothing keeps the user from starting the program a second time on the same profile
(`src-tauri/src/lib.rs:1570-1584` has no single-instance guard).  Two instances share the
database, the staging directories and the downloads; each has jobs, tasks, permits,
tokens and credentials in a memory of its own and never reads the table of jobs again.

What is hard here, and what makes each part correct:

* *Scheduler and executor.*  Commands and tasks interleave at every await and
  every release of a lock; engines answer after a pause or a cancel; a permit must
  come back on a dozen paths; the process may end anywhere.  Correct means: one
  task per job, no permit lost, no active job without a task, ends final, leases
  held while an engine runs, credentials gone when the job is over, a completed
  job has its file, every task ends; and where a second instance breaks one of these,
  it is known which and how.
* *Engine packs.*  Two stores (pointer file and database) change one after the
  other; installs run side by side.  Correct means: an active pack is never older
  than the high-water mark, and a start after any crash brings the two together.
* *Core updater.*  Two processes, a payload swap and a health check, with crashes
  of either.  Correct means: the payload at rest is the old or the new one whole,
  an unhealthy candidate is rolled back, and the recorded state tells which.
* *Process supervisor.*  Exit, timeout, cancellation and end of output race, and an
  engine may start helpers, ignore an interrupt and flood its output.  Correct means:
  no engine outlives `run`, `run` returns, what is taken for a success is whole, the
  credentials given to an engine are wiped.
* *Curl worker.*  A partial file outlives the worker that wrote it and is resumed by
  another, from a server whose file may have changed.  Correct means: what is delivered
  has every chunk in its place, nothing received is thrown away, and a download that
  was interrupted can be completed; a failure that another engine cannot mend ends the
  chain of engines.
* *Host keys.*  A user decides on a key that the server, another instance or a later
  probe may change.  Correct means: the key trusted is the key the user saw, a revoked
  one is never trusted again unless confirmed anew, and credentials go only to a server
  whose key is trusted.
* *Packaging.*  An archive is written by one program and judged by another, with code of
  its own; both readers of upstream archives judge the same things in another order.
  Correct means: an engine in a pack is the only file of its name in its archive, what
  the packager lets pass can be installed, and what is installed is what was packaged.

## 2. Modules

| Module | What it is |
|---|---|
| `JobStates` | `JobState`, `can_transition_to`, `is_terminal` |
| `JobLifecycle` | abstract specification: how the recorded state of a job changes, and that only a job admitted to one of the slots of an instance becomes active; jobs that another instance has worked on (`foreign`) change as they like |
| `JobExecutor` | scheduler, executor, jobs and leases tables, window commands, the task of a job, the end and the start of the process; what an instance that runs beside this one does to its jobs |
| `JobExecutorProps` | its type invariant, safety, action and liveness properties, and the refinement of `JobLifecycle` |
| `MCJobExecutor` | definitions for TLC |
| `JobExecutorSafety` | proofs: types, what a step leaves alone, the inductive invariant, the four properties it contains, ends, files of completed jobs |
| `JobExecutorLifecycle` | proofs: credentials; and, for a store that does not fail, queued jobs and the refinement of `JobLifecycle` |
| `CoreUpdate` | the update of the program: update commands, the helper `fmd-updater`, the candidate, journals, table, payload |
| `PayloadTrial` | abstract specification: what a start of the program runs changes only by a trial, and how a trial may end |
| `CoreUpdateProps`, `MCCoreUpdate` | its properties, fairness, the refinement of `PayloadTrial`, and instances |
| `CoreUpdateProofs` | proofs: types, what is installed at rest, losses, downgrades, blocked starts, a user who waits, the refinement of `PayloadTrial` |
| `PackInstall` | installs of engine packs by several instances, staging, version directories, pointers, pack tables, the start |
| `PackInstallProps`, `MCPackInstall` | its properties and instances |
| `PackInstallProofs` | proofs: types, the high-water mark, the pointers, version directories, wholeness, dependencies |
| `ProcessSupervisor` | one run of an engine: `run`, its readers and its writer, the engine and its helpers, the adapter's reading of the outcome |
| `ProcessSupervisorProps` | its properties and fairness |
| `ProcessSupervisorProofs` | proofs: types, output, success, the processes left |
| `CurlTransfer` | the download of a direct file: worker, partial file, resumption, chain of engines |
| `CurlTransferProps`, `MCCurlTransfer` | its properties, fairness and instance |
| `CurlTransferProofs` | proofs: types, the partial file, what is delivered |
| `SftpTrust` | the authorization of SFTP jobs: probe, table of trusted keys, form, commands, transfer |
| `SftpTrustProps`, `MCSftpTrust` | its properties, fairness and instance |
| `SftpTrustProofs` | proofs: types, the table of keys, credentials, what a user has confirmed |
| `PackArchive` | the way of a pack from an upstream archive to its version directory: extraction, assembly, packaging, download, installation |
| `PackArchiveProps`, `MCPackArchive` | its properties and instance |
| `PackArchiveProofs` | proofs: types, what is fetched, what is installed, what the installer refuses |

`JobExecutor`, `CoreUpdate` and `PackInstall` share the database and the window but no
row and no file, so that they are three models and not one: a job reads an active pack
through its pointer file, which `PackInstall` treats as its result, and a running job
is not consulted by an install or an update.  `ProcessSupervisor` and `CurlTransfer`
look into one action of `JobExecutor`: the engine that `TaskTransferred` gets an answer
from, and the staging directory that stays between two `TaskLaunch`es of a job.
`SftpTrust` follows one more thing through the executor's commands, the host key, which
`JobExecutor` knows only as "the plan asks for credentials".  `PackArchive` looks into
`ExtractAndVerify` of `PackInstall`: there an archive is good or bad, here it is written
by the packager.

### State and actions of `JobExecutor`

| Variable | Code |
|---|---|
| `up` | whether the process runs |
| `concurrency` | the permits its semaphore was made with: 1 to 8, today 2 (`src-tauri/src/lib.rs:1035`) |
| `marking`, `listed` | a start: whether `mark_active_jobs_interrupted` has listed the active rows, and those it has not saved yet |
| `mem`, `db` | `JobScheduler::jobs`; the `jobs` table.  A snapshot is a job's state and whether its resolved plan asks for credentials; titles, sizes and progress tell no property apart |
| `leases` | rows of `engine_leases`, by job and position of the engine on its route |
| `auth` | keys of `JobExecutor::transfer_auth` |
| `token` | the entry of the job in `cancellations`: `none`, the token its `task` holds, or an `orphan` nobody holds (`submit` replaced the token, executor.rs:52-59) |
| `stop` | whether the token the task holds is cancelled |
| `pc`, `attempt`, `tries` | where the task stands, the engine of the route, transient failures so far |
| `permits`, `waiting` | the Tokio semaphore, which is fair: first come, first served |
| `resuming`, `submitting` | a command that has read state and not yet acted on it |
| `shared` | history: jobs another instance has worked on |
| `placed`, `replaced`, `unseen` | history: jobs whose file is at its destination; whose file another job's has replaced; per job about to be moved, whose files came to their destinations since its own was found free |
| `unserved` | history: jobs whose latest `submit` started no task, or that were read back as queued at start |

A command is one action, with two exceptions: `resume` reads the state and the map
before it acts (`ResumeJob`, `ResumeChecked`), and every command that submits does
so after its change of state (`Submit`).  `pause` changes the state and then cancels
the token; nothing a task does in between depends on their order, so they are one
action.  The steps of a task are cut where it awaits or where another thread could
see the difference:

    start -> resolve -> probe -> proceed -> wait -> prepare -> launch -> transfer
          -> (backoff ->) place -> rename -> complete -> settle -> unmap -> idle

with `error` for an `Err` that `run` returns, which the closure of `submit` turns
into a failure.  Adapters are external to the model: they return a plan, success
(only if they have seen the token not cancelled, adapter.rs:440), or a failure that
is retried, passed to the next engine, or final.

`Crash` drops everything in memory at any point.  A start is `ListActive`, a
`MarkInterrupted` per row and `Restart`: the rows are read once and saved one at a time
as they were read, whatever they are by then (storage.rs:238-253), and the program may end
between two of them.  `Restart` reads the table back and submits nothing.

`unique_destination` looks for a free name and the file is moved there later
(executor.rs:381-394), so that `TaskPlace` and `TaskRename` are two actions, and `MoveFile`
may put a file over one that came to its destination in between.  Any file that did is a
candidate: names are not modelled.  A download that may overwrite (`spec.overwrite`) is left
out, because the window always asks for a free name (`App.svelte:162`).

*Several instances.*  The variables of the process are those of one instance.  The others
are actions of their own, enabled at any moment, also while this instance is down or starts:
`AnotherSaves` puts any row of the constant `OtherRows` in the table, `AnotherLeases` takes
leases of a job away (leases are rows by job identifier and engine, not by instance,
storage.rs:374-406), `AnotherPlaces` replaces a delivered file.  This covers a second
start, which lists a row this instance then changes and saves it as interrupted, and a
second instance that read a job back and cancels, retries or finishes it.  With `OtherRows`
empty the program is started once at a time; the theorems hold for any `OtherRows`.  What a
job that another instance has worked on (`shared`) may still do to this instance is part of
the model: the properties about one row, its leases or its file except such jobs, and those
about tasks, permits and queues do not.

Assumptions made explicit: sync commands of one instance do not run side by side (Tauri's
main thread); SQLite writes are atomic; an SQLite write fails only where `StoreMayFail`
says so.  `PostProcessing` may be asked for (the executor handles it) although
today's only adapter never does (adapter.rs:460).

### State and actions of `CoreUpdate`

Three kinds of process meet only in files.  *Program instances* own the table
`update_journals`; *helpers* (`fmd-updater`), one per transaction, own the journal
file `transaction.json` and the payload; the *candidate* is an instance a helper has
started and waits to see healthy.

| Variable | Code |
|---|---|
| `db`, `target`, `from` | the row of a transaction: its state, the release it installs, the release that asked |
| `journal` | the state in its `transaction.json` |
| `acked` | transactions with a `health.ack` |
| `app` | per instance: where it stands, the release it runs, the transaction it is the candidate of, and its reconciliation: journals still to read (`todo`), the one read and not yet recorded (`seen`), polls left |
| `helper` | per transaction: where `apply` stands, whether parent and child still run |
| `lock` | the holder of `update.lock` |
| `installed`, `backup`, `unpacked` | what a start of the program runs (`None`: nothing is there), the payload kept aside, the directories under `app/` |
| `faults` | renames that have failed so far, bounded by `RenameFaults` |

An instance starts with `CoreUpdateService::reconcile` (`ListJournals`, then
`ReadJournal` and `RecordJournal` per transaction: other processes write between the
two), whose refusal ends it; a candidate then writes its acknowledgement
(`AcknowledgeUiReady`) and reconciles again for as long as it polls.  The commands
`PrepareUpdate`, `DownloadUpdate`, `SpawnHelper`, `RecordApplying` and `AppExits`
follow in the window's order.  A helper goes

    CheckParent -> TakeLock -> AnnounceWait -> ParentGone -> StageCandidate
      -> SwitchPointer, or MoveAside -> MoveIn -> AnnounceSwap -> LaunchCandidate
      -> AnnounceLaunch -> SeeHealth -> Commit
                        or HealthTimeout -> Rollback -> MoveBack
                              -> AnnounceRollback -> LaunchPrevious

with one action per effect another process can see; every other outcome of a step is
a disjunct of it.  `InstallKind` chooses between the Windows pointer file and the
swap by renames of the other platforms.

Choices.  Versions and security sequences have one order, as the feed publishes them.
The order in which `reconcile` visits transactions is left open, since `updated_at`
has a resolution of a second.  A start of the program by the user while something
runs, and an update while a helper works, are switched by `Hasty`.  Left out: the
validation of the request's fields and signatures, `RelaunchMode::None` (no caller),
the launcher that only follows the pointer, database errors during a reconciliation
(the start fails as it does for a refused record, and can be repeated).

### State and actions of `PackInstall`

Program instances share the engines directory and the database, and nothing keeps
them apart (there is no single-instance guard and no lock file for packs).

| Variable | Code |
|---|---|
| `pc`, `release` | where an instance stands, and the release it installs |
| `staging` | its directory under `engines/staging` |
| `seen`, `deleting`, `pointers` | a start: directories listed by `recover_staging`, the one it is deleting, pointer files still to be committed |
| `versions` | the version directories: the release they hold, and whether its files are whole, some lost, or others added |
| `active` | pointer files |
| `highWater`, `row`, `consent` | tables `pack_security_high_water`, `pack_active`, `pack_consents` |
| `raced`, `swept`, `late` | history, for the properties only |

An install goes

    InstallPack -> CreateStaging -> ExtractAndVerify -> Finalize or KeepExisting
      -> SelfTest -> SelfTestPassed -> VerifyPayload -> WritePointer -> Commit
      -> SavePackConsent

and may fail at each step (`InstallFails`), the code's own checks and the network,
disk and database alike; its instance may end at each (`Crash`).  A start deletes what
it finds in staging file by file, follows a directory that is renamed meanwhile (on
Unix `remove_dir_all` works on open directories), fails on an entry that vanished, and
then commits every pointer file.  An instance runs one install at a time because the
window disables every install button meanwhile (`App.svelte:604`).  Left out:
`garbage_collect_unleased`, `activate_existing` and `record_pack_activation`, which
only tests call; the history table, which nothing reads; fetching and verifying TUF
metadata, which is a library's; archives left under `updates/pack-staging`.

### State and actions of `ProcessSupervisor`

| Variable | Code |
|---|---|
| `run`, `result` | where `ProcessSupervisor::run` stands: `spawn`, `attach`, `select` (the loop), `grace` (`stop_process_tree`), `collect`, `returned`; what it returned |
| `proc`, `holds`, `escaped` | the engine and its helpers; the ends of the engine's pipes each holds; helpers outside the process group or the job object |
| `written`, `pipe`, `reader`, `kept`, `lines` | per stream: lines written, in the pipe, the reader task and its result, lines it has kept; `output_lines` |
| `received` | results that `run` has taken from the channel (`reader_results`) |
| `input` | the request with credentials, from the caller to the task that writes and wipes it |
| `cancelled`, `elapsed`, `timedOut` | the token, the deadline, `timed_out` |
| `interrupted`, `verdict` | history; what the adapter makes of the result |

`run` races four branches in one `select!`, so that `ChildExits`, `TokenCancelled`,
`DeadlineOver` and `ReaderSent` (or `ReadersStopped`) are alternatives whenever more
than one of them is ready.  The first leaves the loop at once, the others by
`Interrupt` and `GraceEnds`.  `Kill` ends whoever is in the group: on Unix a helper can
leave it by a session of its own (`LeaveGroup`), on Windows a helper is outside the job
object if it was started before `ProcessTreeGuard::attach`.  `Return` adds what the
drops at the end of `run` do: `kill_on_drop` for the child, and on Windows the closed
job object for the rest.

Lines stand for the limits on bytes as well, which a shared counter keeps in the same
way.  An interrupt needs no action of its own, since an engine may end at any time.
The end of the program is `JobExecutor`'s `Crash`; on Unix it leaves the engine running.

### State and actions of `CurlTransfer`

| Variable | Code |
|---|---|
| `exists`, `file` | the output in the attempt's staging directory (`attempt_staging`), which is the same for every try of an engine |
| `job`, `tries`, `cause` | what the executor does with the job; its transient failures; why the worker failed last |
| `worker`, `resumeFrom`, `body` | the worker: asked, receiving, done; `resume_from` of its request; chunks still to come |
| `scheme`, `remote`, `healthy` | the source; the version the server has; whether anything still goes wrong |
| `delivered` | the file at its destination |
| `seams`, `shift`, `short` | history: where workers have resumed; where the range began that answered the last request for the whole file; lengths that bodies give the file which end before their version does |

A chunk is a version of the remote file and a place in it, so that a file put together
from two versions, a page of an error and a gap can be told apart.  A server answers
with the file or the range asked for, or, as long as it is not `healthy`, with an error, or
as a success with any part of the file: a 200, or a 206 whose range starts and ends anywhere,
to a request for the whole file as well.  `Accepted` is `HeaderGate`: it compares the start
of a range with what was asked for, but only if the worker resumes (transfer.rs:128-133),
and looks neither at the end of the range nor at the length of the file (151-156).  A
body of unknown length that ends with its connection is such an answer too: libcurl takes
what has come for all of it.
HTTP opens the file for the first chunk that the gate lets pass; SFTP opens it before it
has connected (`Connect`, `NoConnection`).  `Stop` is a pause or the end of the program,
`TimesOut` the supervisor's deadline, `Resume` the commands resume and retry, which
start again at the first engine of the route and find the same staging directory.

Left out: host keys (`SftpTrust`), FTP and `ResolveRedirects`, which the program never asks
the worker for (FTP is routed to aria2, routing.rs:74), the credentials, a second
transfer beside this one (`JobExecutor` shows there is none).

### State and actions of `SftpTrust`

All jobs are of one host and port.

| Variable | Code |
|---|---|
| `epoch` | which of its keys the server has by now (`Rotation`) |
| `calm` | from now on the key stays, nothing fails and the user is right; only for the liveness property |
| `table` | the rows of `trusted_sftp_keys`: `absent`, `trusted`, `revoked` |
| `state`, `unserved` | the job's state; whether it is Probing or Queued without a task, after a restart or a failed save |
| `observed` | the key in the requirement `sftp_host_key` of the job's plan |
| `form` | `trustByJob` of the window (`App.svelte:33`): key and verdict as `sftp_trust_status` told them, once |
| `deciding` | the write that `authorize_sftp_job` has decided on and not made yet |
| `auth` | `transfer_auth`: the key the job's credentials are meant for |
| `output` | the output file in the job's staging directory |
| `raced`, `overtaken` | history, for the properties only |

A job goes `Probe` -> `LoadTrust` -> `AuthorizeRead` -> `AuthorizeWrite` ->
`CompleteJobSelection` -> `Connect` -> `TransferEnds`.  `authorize_sftp_job` is two
actions because it reads the trusted keys and writes later, and another instance of the
program may write in between; commands of one instance run one after the other
(`MainThreadFree`).  What the form shows stays until its instance ends, through retries
that probe anew: it asks for `trust`, `match` or `replace`, and the command compares this
word, not the key, with what the table calls for.  A retry of a job whose first probe
failed finds no plan that asks for credentials and queues the job.  Left out: permits and
engine answers (`JobExecutor`), chunks (`CurlTransfer`), rows of other hosts, wrong
passwords (a `Connect` that fails).

### State and actions of `PackArchive`

| Variable | Code |
|---|---|
| `stage` | how far the build is: `fetching`, `fetched`, `assembled`, `built`, or ended by the extraction or by the packaging |
| `format`, `upstream`, `next`, `output` | the upstream archive as a sequence of entries, each with a name that is the wanted one, another or one that leaves the archive, and a kind; the entry the tar reader is at; whether the output file exists |
| `payload` | the payload directory: a function from paths to what is there |
| `archive` | the entries of the pack's archive |
| `insensitive` | whether the installing machine's file system ignores case |
| `pc`, `at`, `staging`, `version`, `outcome` | the program that installs the archive: where it stands, the entry it is at, its staging directory, the version directory, what the last install came to |
| `swept` | which of the two the start of another instance deletes in |
| `leavings` | temporary files of a self test are in the version directory |
| `stale`, `strays` | staging directories and downloaded archives of earlier installs are left |

`TarEntry` is one step of the loop of `extract_tar_gz_entry`, which writes what it wants
as it meets it; `ZipExtract` is the whole of `extract_zip_entry`, which goes through the
index first.  `AssemblePayload` takes any payload of the instance: the scripts differ in
what they put there.  `Package` is `collect_files`, `describe`, `validate`,
`require_pack_metadata` and the writing; `ExtractEntry` one turn of the installer's loop,
`VerifyStaging` what follows it, `PlaceVersion` the end of `install_staged`, `Placed` and
`TestVersion` what `PackService::install` does after it: the downloaded archive goes, the
engine's self test leaves files in the version directory or does not, and
`activate` verifies the payload again.  `AnotherStarts` and `AnotherDeletes` are the
`recover_staging` of an instance that starts beside the one that installs: what it has found
in staging it goes on to delete after the directory has become the version directory.  The
installer's limits on an archive are those of the code, which the packager does not know:
the number of entries (`MaxFiles`, 20,000), the size of the manifest (`MaxManifest`, 4 MiB,
counted here in the names of the paths it lists), a file's size and its ratio.  A file is
created where the file system puts it: a directory that is there keeps the spelling it was
created with, and takes what is written under any other (`Landing`).  Every step
of an install may fail, and the program may end at each (`Stop`).  Modes are those of
Unix; on Windows the executable flag is the extension and nothing is set.  Contents are
equal if the path is: the archive's hash is compared by the download and each file's by
`verify_payload`.

Of libraries and systems the model takes two things: the zip library lists two entries of one
name as two, which the duplicate check of `extract_zip_entry` needs; and a file system that
ignores case takes two names for one exactly if `collision_key` does (NFC and lower case).

Left out: versions, marks, pointers and commits, and a second install beside this one
(`PackInstall`), `garbage_collect_unleased`, which only tests call, the fields of the manifest that do
not depend on the payload, changes of the payload while it is packaged, and signing.
Archives left under `updates/pack-staging` are in the model (`strays`), but no property is
about them.

## 3. Runs

| Run | Question | Instance |
|---|---|---|
| `job_executor` | one task per job, no permit lost, the file of a completed job, how a queued job comes to be left alone; refinement of `JobLifecycle` | 2 jobs, 1 or 2 permits, 1 engine, no retries, plans with nothing to choose or with formats; one instance at a time; symmetric jobs |
| `job_executor_faults` | the same executor with everything else switched on: is an end ever invented or undone, an active job left without a task, an engine without its lease, a credential behind; does every task end? | 1 job, 1 permit, 2 engines, 1 retry, failing writes, all plans, post-processing or not, the commands the window never sends, a second instance that interrupts, works on and cancels jobs; under fairness |
| `job_cancellation` | is cancellation bounded? (violated) | 1 job |
| `core_update` | is what is installed proven, not lost, not older, can it be started, does it change by trials only, and does the helper's verdict reach the table? | 2 transactions, 3 releases, 3 instances, payload swap, up to 2 failing renames, a user who waits; under fairness |
| `core_update_faults` | in which ways are later starts refused, and does an unproven payload stay? | 1 transaction, 3 instances, pointer swap; every process may die, every launch, write and rename fail, the user is hasty |
| `core_update_launch` | is an unacknowledged candidate ever left installed? (violated) | 1 transaction, a launch may fail |
| `pack_install` | three invariants and three action properties | 3 installs by 2 instances of 4 releases of 2 packs, one release published twice, one pack that needs the other; symmetric instances |
| `pack_install_self_test` | are version directories immutable? (violated) | 1 instance |
| `process_supervisor` | does `run` return, with nothing left behind and nothing made up? | engine and 1 helper, both platforms, a limit of 1 line, 2 lines written |
| `curl_transfer` | what is delivered, and can an interrupted download be completed? | a file of 3, then 2, then 3 chunks; HTTP and SFTP; answers that are short or start elsewhere; 3 retries |
| `sftp_trust` | which key is trusted, where do credentials go, does a job end? | 2 jobs, each in an instance of its own, one of which may end and start again; a server with 2 keys, one, the other and the first again |
| `pack_archive` | what is taken out of an archive, what can be installed, is it what was packaged? | upstream archives of up to 3 entries; 1,080 payloads; file systems with and without case; limits of 5 files and a manifest of 7 names; failing self tests, starts of another instance |

The type invariants of `JobExecutor`, `CoreUpdate`, `PackInstall`, `ProcessSupervisor`,
`CurlTransfer` and `SftpTrust` are proved (section 4) and not checked again by a run.

### Job executor

Bounds.  The jobs of an instance interact through the semaphore and the names of their
files.  Two jobs with one permit queue, and have a permit returned by one and granted to the
other; with two permits they deliver side by side, and one may find a name free that the
other takes.  A second engine exercises fallback and the lease per engine.  One retry goes
through backoff and back to the same engine; the code's limit of three repeats that.
`OtherRows` has the row a second instance's start may save (Interrupted), one its task may
(Downloading) and one its user may (Canceled); each may come at any moment and over
anything, and without the exception for jobs it has worked on each of the four properties
named below is violated.  Nothing else in the model grows:
no counter needs a bound.

What they show.  The properties are in `JobExecutorProps`, each with the lines it is
about.  Some need words here.

* Six properties except the jobs another instance has worked on, and four of them are lost
  with it in ways of their own: `EndIsFinal`, since a start saves what it has listed and a job may have been
  completed in between; `NoPhantomEnd`, since a second instance may cancel a job that it has
  read back as interrupted and that this one still downloads; `LeaseCoversEngine`, since
  that cancellation deletes the leases of the job, whoever took them; `ActiveHasTask`, since
  this instance's own start may read back a row the other has made active after the list.
  `job_executor_faults` has these interleavings.  The other two are
  `SecretsNotRetained`, as the other instance may have saved the end that this one could not,
  and `CompletedHasFile`, as its record of the job need not be about this one's file.  Whatever one instance does to the
  other's jobs, it changes nothing about the other's tasks, permits and queue.
* `CompletedHasFile`: a completed job's file is at its destination, unless another download
  had found the same name free before it was there (`replaced`).  That is a lost file: two
  downloads of one name at the same time, and the second rename wins.
* `SecretsNotRetained` holds with failing writes too.  The one credential kept beyond a job's
  end is that of a job whose end memory knows and the table does not, since a cancellation
  whose save fails returns before it wipes (executor.rs:102-137).
* `QueuedIsServed` is deliberately relative: a queued job without a task exists, and
  the property says which two ways lead there, a submission that met the entry of a
  task about to end (executor.rs:52-59, 73) and a job read back as queued at start
  (scheduler.rs:30).  Any other way is excluded.
* `JobLifecycle` admits `Failed` from every state that has not ended, since
  `JobScheduler::fail` does not consult the table: a job paused while its task waits
  for a permit is recorded as failed, although the table has no such step.

`QueuedIsServed` is checked with writes that succeed: a retry whose save fails returns
before it has submitted the job (see the hazards in `PROJECT.json`).  The same goes for the
refinement: with failing writes a row of the table may skip states.

`job_cancellation` ends in a counterexample, by commands the window offers: a probe
fails and the job is Failed while its task goes on to `proceed` (executor.rs:227);
the user retries, and `submit` finds the old entry and replaces its token; the old
task takes the queued job, gets a permit and starts the engine; the user cancels, the
new token is cancelled, which no task holds, and the engine of a cancelled job runs
to its own end.  `docs/architecture.md:17-19` promises bounded cancellation.

Fairness.  `FairSpec` assumes that the runtime polls every task that can go on (weak
fairness of the task's next step, the end of an engine's process included) and that a
command that has begun is finished.  The semaphore needs no more than that as it is a
queue.  `TaskEnds` is checked over all behaviours, those without a crash included, so
that crashes, which end every task, do not satisfy it for free.  That an engine's
process ends is what `RunReturns` of `ProcessSupervisor` says, with the exception named
there.

### Core update

Bounds.  Two transactions are a commit and an update on top of it whose backup is not
the first release; a third, which had been checked without liveness, showed nothing new
and is too large with it.  Three instances are the one that
asked, the candidate and a second one of the user's; two failing renames are a failure
and the failure of its repair.  A candidate polls 30 times; what matters is whether it
stops before the helper's next entry, for which one or two polls suffice.

What they show.

* With a user who waits and no other fault, the payload at rest is the first release
  or a committed and acknowledged one, or the journal says that the rollback failed
  (`RestingPayloadIsProven`), and it is never lost without a trace by one failing
  rename (`LostPayloadIsRecorded`; two are needed, since nobody asks whether the
  repair of `MoveIn` succeeded).
* Even so a start can be refused for good, in one way: the candidate reconciles before
  its helper has written `launched`, so that the table learns `swapped`, and does not
  look again before `committed`, which `valid_update_transition` does not accept from
  `swapped` (`SkippedLaunch`).  `OnlySkippedLaunchBlocks` says that no other way
  exists, and is proved for a user who waits, any number of instances and updates, and
  failing launches and renames.  It is a lost race of two file writes against the candidate's start of its
  window, after which it looks thirty times in three seconds; once lost it is lost for
  every later start.
* `BlockedStartsAreKnown` is the list of all ways with crashes and impatience.  Each
  of its disjuncts is needed: without any one of them TLC finds a counterexample.
* `VerdictIsLearnt`: unless a start is so blocked, or the payload is lost and nothing can
  be started, what the helper decided reaches the table, across closed windows and
  restarts.
* `UnprovenPayloadsAreKnown` is the same list for the payload: with crashes and failing
  launches a release nobody acknowledged may stay installed after its helper has ended,
  but only if the helper ended between the swap and its verdict (`LeftSwapped`, which
  includes the failing launch below), or the rollback failed and the journal says so.  No
  start of the program takes such a transaction up.
* `core_update_launch` is a counterexample: if the candidate cannot be launched,
  `launch_candidate(...)?` returns after the swap and before the rollback
  (`fmd-updater/src/lib.rs:329`), and a release nobody has acknowledged stays installed
  (`docs/architecture.md:48`).
* `ImplementsTrial`: a start of the program runs what it ran before, or what is on trial.
  A trial begins by replacing a release that can be started, and ends in one of five ways:
  kept, only after its own candidate has acknowledged; reverted to exactly what was there
  before it; given up, with a failed rename and a journal that says so; left, by a helper
  that ended too soon; and outside a trial the program can only be lost, by two failing
  renames or a helper killed between its two renames.  The other properties speak of a
  payload at rest and of the whole history of releases; this one speaks of every step, and
  of *this* trial's predecessor: an older backup that survives a swap is also a proven
  release, and no property at rest objects to its return.
* `NoDowngrade` is checked for a user who waits.  It is not the table that protects such a
  user, which may be behind what is installed; it is that the instance that asks runs what is
  installed, and that an update is above the release that asks for it.  On Windows the pointer
  is compared once more under the lock, so that a second instance's update that commits
  between the comparison and the swap is seen; there the property holds for every user
  (`PointerOnlyAdvances`).  With a payload swap and a hasty user nothing promises it, and the
  run does not cover that: `apply` compares the target with the sequences the table knows as
  committed, and a second instance that has not learnt of the first one's commit replaces the
  newer release with an older one (`src-tauri/src/lib.rs:571`).

`CHECK_DEADLOCK FALSE` in `core_update` and `core_update_launch`: the system may stop.
When a rollback has lost the payload nothing can be started, and the transactions are
used up.

Fairness.  The system runs its processes: weak fairness of a helper's next step, of a
reconciliation, of recording `applying` and of the exit that follows.  The user closes
every instance some day and starts the program again.  No fairness is assumed of the
update commands.

### Engine packs

Bounds.  Only installs are bounded (`Installs`): three are a first version, a newer one
and a repetition or a dependant; crashes and starts are unlimited.  Two instances
suffice for each race, as a deletion and an install, or two installs, meet pairwise.

What they show.  `HighWaterOnlyRises`, `StartTakesUpPointers` and `VersionsImmutable`
hold as stated.  The others name the ways in which they fail, and exclude any more:

* A pointer file below the high-water mark needs two instances at that pack at the
  same time (`OnlyRacesRollBack`).  In that race both pass the comparison, the newer
  commits, the older writes the pointer file and is then refused by
  `commit_pack_activation`, and nobody takes the pointer back; `initialize` commits
  every pointer file, so that every later start of the program fails.
* An active pack is as published, unless something happened to its directory between
  its verification and its use: a start of another instance that was still deleting
  the staging directory it came from, or a self test of a second install of the same
  version (`ActiveIsWhole`).
* A dependency may move back out of the accepted range by a race, or by an activation
  whose commit was lost, after which the high-water mark still admits older releases
  (`DependenciesActive`).

`pack_install_self_test`: an engine's self test has its temporary files and its home in
`.self-test` inside the version directory, which is never removed
(`adapter.rs:354`, `process.rs:132-149`).  What a killed engine leaves there makes
`verify_payload` fail, and as an existing directory with the same manifest is kept,
every later install of that version fails as well (`docs/engine-packs.md:29`).

### Process supervisor

Bounds.  One helper is enough to inherit a pipe, leave the group, outlive the engine and
write beside it; a second one would do the same.  A limit of one line with two written
has one stream at the limit, both together over it, and each of them alone below it.
`CHECK_DEADLOCK FALSE`: a run ends.

What it shows.

* When `run` returns the engine has ended, on every way out (`EnginesEndWithRun`).  One
  way leaves helpers behind: readers which have both ended before the loop sees that the
  engine has.  `recv` then gives `None`, which `run` takes for an error
  ("engine output readers stopped unexpectedly", process.rs:341-343) and returns before
  `force_kill_process_tree`.  It needs no fault: an engine that closes its outputs a moment
  before it exits is reported as failed although it succeeded, since `select!` chooses among
  its branches in any order and the branch of `recv` is ready first.  A reader that sends its
  result is received once; the failure takes a third `recv`, so that the two ends of file
  and the exit have to fall close together.
* `SuccessIsComplete`: what an adapter takes for success was not interrupted and has all
  of its output.  An interrupted engine may well exit with status 0; only the second look
  at the token (adapter.rs:440, `Report`) keeps its partial file from being delivered.
* `RunReturns`: the call returns whatever the engine does, unless a helper left the group
  and keeps an output open: the collection after the kill watches neither token nor
  deadline (process.rs:362).  Such a job holds its permit and cannot be cancelled.
* `InputIsWiped`: also when the engine never reads it, since its end breaks the pipe.  The
  two error paths before the writer is spawned drop the request without wiping it
  (`NotStarted`).

Fairness.  The supervisor, its readers and its writer are polled, and time passes.
Nothing is assumed of the processes or the user.

### Curl transfer

Bounds.  Three versions of the remote file, of which the second is shorter, are what a
resumption can meet: the same file, a longer and a shorter one, and one of the same length
with other content.  Three chunks allow two resumptions within one file.
`CHECK_DEADLOCK FALSE`: the job ends.

What it shows.

* `DeliveredIsSpliced`: a completed file has chunks of the remote file and no error page,
  one after the other from the first to the last, whatever stops a worker and whatever a
  server answers to a range, but for three ways to be wrong, each of which TLC finds.  It may
  have chunks of two versions, and then only where a worker resumed, because the adapter
  gives no validator (adapter.rs:635) although the worker would check one; a worker that
  resumes behind the end of a shorter version takes it for complete.  It may begin
  elsewhere, if the server answered the request for the whole file with another range
  (`shift`, transfer.rs:128-133).  And it may end early, with a body that does (`short`): a
  range is not checked for its end (151-156), the length of the file is not known, and so no
  one sees the difference.
* `PartialOnlyGrows`, which is proved and not run: nothing received is thrown away.
* `ResumptionCompletes`: when trouble is over, an interrupted download gets to its end,
  but for two states of the staging directory it cannot leave (`Unresumable`).  An SFTP
  worker that finds no connection leaves an empty file, whose length 0 makes the next one
  ask for a file that must not exist (adapter.rs:625, transfer.rs:195); and a file that is
  complete, of a worker stopped before its answer was read, is resumed behind its end,
  which HTTP answers with 416.  Neither a retry nor a resume gets out of them, with HTTP
  other than by the next engine.  Each disjunct is needed: without one TLC finds a
  counterexample.

The adapter classifies every failure of a worker by one fixed text (adapter.rs:657), hence
as `ExtractorBroken`, which allows a fallback, so that aria2 tries again what
authorization, TLS or the disk has refused, which `docs/architecture.md:26-27` excludes.
The model has it (`cause`, the job at `aria2`); no run is about it.

Fairness.  The worker, the adapter and the executor go on, aria2 ends some day, and the
user resumes or retries a job that has stopped.  A timeout and a pause end when `healthy`
holds: a transfer that works is faster than 24 hours.  The supervisor's limit on lines of
output comes sooner, after about three and a half hours of a progress line every 250 ms; a
worker that it stops is one more that `TimesOut` stops, and the next attempt resumes.

### Host keys

Bounds.  Two jobs are enough for one to replace the key of the other, and two instances
for a write between the statements of another; jobs of one instance interleave only as
whole commands, which the instance with each job alone covers but for `MainThreadFree`.
A key that comes back after another one (`k1, k2, k1`) is the shortest history in which a
revoked key is observed again.  One instance that restarts shows what a restart loses; the
other goes on meanwhile.

What it shows.

* `OneTrustedKey` and `RevokedStaysRevoked` hold unless a write was decided before another
  instance's write (`raced`, `LostRace`): two instances that both find the table empty
  trust two keys, and `trust_sftp_host_key` clears the mark of a key that the other has
  just revoked (storage.rs:672-675).  `RevokedStaysRevoked` and `CredentialsFollowTable`
  below are proved and not run.
* `TrustFollowsConfirmation`: a key becomes trusted only if this very key was shown, but
  for `StaleFingerprint`.  A user to whom key k2 was shown as a mismatch, and whose job
  failed and was retried, confirms k2 in a form that asks for `replace`, and what is
  replaced is the key of the new probe.
* `CredentialsFollowTable` and `OnlyTrustedServersServe`: credentials are held for, and
  presented to, a trusted key, unless another job has replaced the key since (`overtaken`):
  nothing looks at the table again between the authorization and the transfer.
* `JobsEnd`: once all is well a user who confirms and retries gets the file, but for four
  dead ends, each of which TLC reaches: a form that asks for the wrong word for as long as
  the window lives (`StaleForm`); a job whose first probe failed (`NeverAsked`), which
  every retry queues and the adapter refuses for want of credentials, which no form asks
  for; a job without a task (`unserved`), which a
  pause and a resume would submit, if the user thought of it, so that this exception is wider
  than it need be; and an empty output of a worker that found no
  connection (`EmptyOutput`, as in `CurlTransfer`).

Fairness.  Tasks and commands that have begun go on (weak fairness).  The user loads the
key, confirms, retries and resumes (weak), and the form completes the selection some day
although the user may go on submitting it (strong, since submitting disables completing
for the moment).  Pauses and failures end when `calm` holds; cancelling is always allowed
and is an end.

### Pack archives

Bounds.  Three entries are the wanted one with something wrong before it, after it, or
both.  The payloads combine everything that packager and installer judge with code of
their own: the directory of licenses absent, empty, a file, with an empty directory and
with a file; a metadata file (one stands for the three) absent, a file, an empty directory
and one with a file; the engine absent, executable and not; and one extra that differs in
case from another file or from the directory of another, takes the manifest's place in one
spelling or the other as a file or a directory, is a link, empty, dense or huge, or is one
file more, or one directory deeper, than the limits admit (`MaxFiles`, `MaxManifest`, at the
size where payloads of the instance are on both sides of each).  Installs are not bounded,
nor are starts of another instance.

What it shows.

* `FetchedIsTheOne`: both readers accept the same archives as far as the wanted entry goes,
  and only the tar reader can leave an output behind, if what it
  refuses comes after the entry it wants (main.rs:49-85); the tests of both readers
  (main.rs:369, 426) have the bad entry first or alone.
* `InstalledAsBuilt`: over failing and repeated installs and the program's end at every
  step, a version directory has the files that were packaged, and is never a part of them,
  with two exceptions that the code has: the start of another instance was still deleting the
  staging directory when it was renamed (pack.rs:664-687), or a self test left temporary files
  in the directory (adapter.rs:354).  With such files no install ever succeeds again
  (`pack_install_self_test` is the counterexample).
* `InstallableAsBuilt`: what the packager lets pass is installable but for seven kinds of
  payload, each of which TLC finds: `LICENSES` that is no directory with a file
  (`require_pack_metadata` asks whether the name exists, and the archive has no entries
  for directories), metadata that is a directory, a path that meets `manifest.json` by its
  case or as a directory, a directory in two spellings, or in one and a file in the other
  (the manifest compares whole paths only, engine.rs:241), sizes and ratios (pack.rs:940-954),
  more entries (pack.rs:917) and a larger manifest (pack.rs:982) than the installer takes: the
  packager knows no limit of its own.  Otherwise it was the start of another
  instance that found the staging directory.  None of today's scripts makes such a payload.

## 4. Proofs

### Job executor

For every finite set of jobs, 1 to 8 permits, any number of engines and retries, any
subset of the plans, failing writes or not, and any rows that another instance may save:

| Theorem | Statement |
|---|---|
| `TypeCorrect` | `Spec => []TypeOK` |
| `OneTaskPerJob` | `Spec => []EntryIffTask` |
| `NoPermitLost` | `Spec => []PermitsConserved` |
| `NoStrayActiveJob` | `Spec => []ActiveHasTask` |
| `EnginesLeased` | `Spec => []LeaseCoversEngine` |
| `NoEndInvented` | `Spec => []NoPhantomEnd` |
| `EndsAreFinal` | `Spec => EndIsFinal` |
| `CompletedJobsHaveFiles` | `Spec => []CompletedHasFile` |
| `SecretsAreWiped` | `Spec => []SecretsNotRetained` |
| `QueuedJobsAreServed` | `~StoreMayFail` gives `Spec => []QueuedIsServed` |
| `LifecycleImplemented` | `~StoreMayFail` gives `Spec => ImplementsLifecycle` |

The inductive invariant `IInv` (`JobExecutorSafety`) is the conjunction of the first
five, with the bound on `permits` left out of the types, and of what a start has listed
(`Marks`: it holds rows only while the process is down, and for a job no other instance has
worked on they are those of the table and all its active ones, so that none is read back as
active).  They hold each other up: that an attempt stays on the route while the engine is used follows from the lease
on it; that a task may be spawned for a job without disturbing a permit or a lease
follows from the entry; that the permits stay within the semaphore follows from
their count, for which the holders' finiteness is needed.  Each invariant has one
lemma on the commands, one on the steps of a task (one case per action) and one that
combines them, over the frame lemmas `CommandElsewhere` and `TaskElsewhere` which say
that a step for one job does not touch another.

The steps of another instance are one more case in each: what they touch, a row, its leases
or its file, is of a job they put in `shared`, or of one whose file they put in `replaced`.
That the exceptions are no wider than that is what the proof adds to the run: whatever rows
the other instance saves, the jobs it leaves alone are as if it were not there.

`EndsAreFinal` rests on `NoPhantomEnd`: what the table records as
ended, memory records as ended, and the operators of the scheduler never leave such
a state (`RowFollows`).  That needs `DownIsIdle`, or a task could outlive its process, and
that what a start has listed of a job no other instance has worked on is still what the
table has, or the row it saves could undo an end.
`CompletedJobsHaveFiles` follows a file from the rename to both records (`FileAt`): a task
that is about to record the completion has moved it, and what is recorded as completed in
memory has a task past that point or none; a file that is no longer there was replaced.

For the credentials, the last step that can wipe them is the one before
the task's entry goes (`SecretAt`), and nothing survives the process (`DownForgets`).  The two
other theorems of `JobExecutorLifecycle` are false with failing writes, and say so by
their assumption.  For the queued jobs, `ServedAt` adds to the property the two last positions of a task, and
`OneCommand` that commands do not overlap.  The refinement needs that memory and table
agree while the process runs (`Synced`) and that a job somebody works on exists (`Known`);
then each command and each step of a task maps to a step of `JobLifecycle` or to a stutter
(`CommandMaps`, `TaskMaps`), and the slots of `JobLifecycle` are bounded by
`PermitsConserved`.

### Core update

For any finite sets of instances and transactions, any releases, both kinds of
installation, any faults and users of either kind, unless the theorem assumes otherwise:

| Theorem | Statement |
|---|---|
| `UpdateTypeCorrect` | `Spec => []TypeOK` |
| `UnprovenIsLeft` | `Spec => []UnprovenPayloadsAreKnown` |
| `RestingIsProven` | if no helper dies and no launch fails, `Spec => []RestingPayloadIsProven` |
| `LossIsRecorded` | if no helper dies, `Spec => []LostPayloadIsRecorded` |
| `BlockedStartsAreListed` | `Spec => []BlockedStartsAreKnown` |
| `PointerOnlyAdvances` | if `InstallKind = "pointer"`, `Spec => NoDowngrade` |
| `PatientOnlyAdvances` | if `~Hasty`, `Spec => NoDowngrade` |
| `OnlyTheRaceBlocks` | if `~Hasty` and nothing but launches and renames fails, `Spec => []OnlySkippedLaunchBlocks` |
| `TrialImplemented` | `Spec => ImplementsTrial` |

The properties speak of a system at rest; the invariant `IInv` says how it gets there.
Whoever works on the payload holds the lock (`LockHeld`), so that the other helpers are
before or after their swap and find what they left (`OthersKeep`).  The journal of a helper
tells where it stands (`Told`); between its two renames, and from the swap to the verdict,
it knows a way back to a release that is proven already (`Way`), where *proven* is what the
property allows at rest (`Proven`): the first release, an acknowledged and committed one,
one whose helper was left between the swap and its verdict, or any after a failed rollback.
Proven releases stay proven (`ProvenStays`), since nobody touches a transaction that has a
journal and no helper.  That needs `Drivers` and `Untouched`: an instance starts a helper
only for a transaction that it alone sees to and that has neither; the types need
`Known`, or a transaction could be without a release.  An instance's step is one lemma
(`InstanceIsCalm`, `CalmKeeps`), a helper's has one case per action.

For the blocked starts a second invariant, `Follows`, relates three copies of a state that
are written at different times: what the table has of a journal, what an instance has read
of it and not yet recorded, and the journal itself, which is always the same or further on
(`Reached`, the order in which a helper writes).  From `swapped` on, the only state further
on that `valid_update_transition` refuses is `committed`, and only from `swapped`; that is
the skipped launch.

For a user who waits, a third invariant, `Patient`, says what "waits" gives: one instance
and one helper at a time, and an instance beside a helper is the one that asked for it or
the candidate it watches (`OneAtATime`); hence what runs is what is installed, and an update
is made for it up to the moment the payload is touched (`RunsInstalled`).  With it
`NoDowngrade` holds of payload swaps too, whatever fails.  None of this is inductive
without the other invariants: that the parent has gone when the payload is touched comes
from where the helper stands, and that the release it replaces is the one that asked, from
the parent having been the only instance.  A fourth, `Recorded`, excludes the other three
ways a start is blocked when nothing dies and the table can be written: the wait for exit
is recorded only when nobody waits any more, and then it stays the journal's last word.

The refinement of `PayloadTrial` needs no assumption, not even a patient user.  Its mapping
reads the release a start runs off whichever helper has the payload in hand: between the
two renames it is the backup, in a repair the release on trial.  `LockHeld` makes that helper unique
and gives one lemma (`View`) for what the mapping shows by where this helper stands; every
step of an instance, and of a helper away from the payload, then shows nothing
(`NothingMoves`), and the renames, the verdict, the repair and the ends of a helper map
one by one (`SwapMaps`, `CommitMaps`, `RepairMaps`, `EndMaps`).  That a new trial has not
been heard of already is an invariant of its own (`Acknowledgers`): whoever acknowledges
was started by a helper that has gone too far to try again.

### Engine packs

For any sets of instances, packs, releases and installs, with any dependencies:

| Theorem | Statement |
|---|---|
| `PackTypeCorrect` | `Spec => []TypeOK` |
| `MarkOnlyRises` | `Spec => HighWaterOnlyRises` |
| `RollBackNeedsRace` | `Spec => []OnlyRacesRollBack` |
| `StartCommitsPointers` | `Spec => StartTakesUpPointers` |
| `VersionsAreImmutable` | `Spec => VersionsImmutable` |
| `ActivePacksAreWhole` | `Spec => []ActiveIsWhole` |
| `ActivePacksHaveDependencies` | `Spec => []DependenciesActive` |

The argument has two halves.  The first is about the mark and the pointer.
The row of a pack and its high-water mark agree (`RowIsMark`), because each writer of
the table writes both in one transaction.  `OnlyRacesRollBack` alone is not inductive:
an install reads the mark in one step and writes the pointer in a later one.  Its
strengthening `IInv` adds what holds between the two at a pack that no two instances
have been at together (`Alone`: two that are there have raced): an install that passed
the comparison is not below the mark (`InstallsAhead`), who is about to commit a release
has its own pointer in the file (`CommitsSelected`), and a pointer beyond the mark is one
that the start in progress still holds (`HoldsUnknown`).

The second is about directories.  A damaged version directory is one that a
sweep or a self test has touched (`DamageIsSwept`); an install that is past its
verification holds a directory that carries its own release (`HoldsRelease`,
`VerifiedIsWhole`); hence a pointer is only ever turned to a whole one.  For the
dependencies, every release that is selected, or about to be, has its dependency met,
or something the property excuses happened to it (`SelectedDepends`): an activation of
the dependency may move its pointer forward only.  This last step needs an assumption
on the releases, `RangesAssumption`: an accepted range has no upper end.  The published
packs ask for `>=` a version (`packs/recipes/video-core.json:5`).  The code reads any
range, and with an upper end a later install of the dependency would leave it:
`activate` looks at the dependencies of the pack it activates and not at its
dependants.

### Process supervisor

For any finite set of helpers, both platforms, any limit and any amount of output:

| Theorem | Statement |
|---|---|
| `RunTypeCorrect` | `Spec => []TypeOK` |
| `OutputNeverExceeds` | `Spec => []OutputIsBounded` |
| `SuccessesAreComplete` | `Spec => []SuccessIsComplete` |
| `NoEngineOutlivesRun` | `Spec => []EnginesEndWithRun` |

The limit is inductive with `Bounded`: what both readers keep together is counted by the
counter.  A success is traced back in three steps: the adapter's verdict to the run's
result and the token (`VerdictSeen`), the result to the engine's status and the collected
readers (`SuccessSeen`), and an interrupt to one of the three reasons that would have
changed the result (`Reasons`); no line is lost on the way (`Counted`).  For the
processes, `TreeInv` follows the group through `run`: before it is attached on Windows
every helper is outside the job (`StartedOutside`), after the kill nothing of the group is
left and only an escaped helper can start another (`GroupGone`), and a stream whose reader
has come to its end is held by nobody (`Closed`), which says what kind of helper the error
of the readers can leave on Unix.

### Curl transfer

For any source, any number of versions of the file and any lengths, and any number of tries:

| Theorem | Statement |
|---|---|
| `TransferTypeCorrect` | `Spec => []TypeOK` |
| `PartialGrows` | `Spec => PartialOnlyGrows` |
| `DeliveredSpliced` | `Spec => []DeliveredIsSpliced` |

A worker that has not opened the output yet asked for what follows it, and where it asked is
a seam (`Works`).  `Spliced` says of the partial file that it has chunks of the file only
(`Chunks`), begins with the first or where the answer to the first request did (`Begun`),
and goes on with the next one but at seams (`Joined`), and of what a worker is receiving that
it is a stretch of one version that continues the file there (`Continues`); a file that is
done ends with the last chunk of a version, where a worker resumed behind one, or with a body
that ended early (`Ended`).  Where an answer starts and ends enters the proof only through the
two histories: which answers are possible is otherwise left to the gate.

### Host keys

For any sets of jobs and keys, and any sequence of keys of the server:

| Theorem | Statement |
|---|---|
| `TrustTypeCorrect` | `Spec => []TypeOK` |
| `OneKeyTrusted` | `Spec => []OneTrustedKey` |
| `CredentialsForTrusted` | `Spec => []CredentialsFollowTable` |
| `OnlyTrustedServe` | `Spec => OnlyTrustedServersServe` |
| `TrustIsConfirmed` | `Spec => TrustFollowsConfirmation` |
| `RevokedKeysStay` | `Spec => RevokedStaysRevoked` |

The first four need little more than the types, which rest on a job that awaits its
selection having a key in its plan (`Observed`) and staying as `authorize_sftp_job` read it
(`Decides`); `CredentialsFollowTable` is inductive by its history `overtaken`.  The last two
are about a decision that was taken on a form: what is about to be written is what the form
asked for (`DecisionAsked`), and as long as no key is trusted, no job has credentials, so
that none has failed on the way and been probed anew, and the form still shows the key of
the plan (`TableFilled`, `FormFresh`).

### Pack archives

For any set of upstream archives of any length, any payloads that are trees over any list of
paths, any mapping of names to what a file system without case makes of them, and any limits of
the installer (`UpstreamsAssumption`, `LimitsAssumption`, `ListingAssumption`,
`PayloadsAssumption`: the list has every path
once, as `collect_files` meets and sorts it, and nothing lies below what is no directory):

| Theorem | Statement |
|---|---|
| `ArchiveTypeCorrect` | `Spec => []TypeOK` |
| `OneEngineFetched` | `Spec => []FetchedIsTheOne` |
| `VersionsAreAsBuilt` | `Spec => []InstalledAsBuilt` |
| `AcceptedIsInstallable` | `Spec => []InstallableAsBuilt` |

The invariant has a part for each program.  `FetchState`: of the entries the tar reader has
passed none is one it refuses, and the output is there once it has met the wanted one.
`BuildState`: an archive that is built is that of a payload the packager has accepted.
`StagingState`: the staging directory holds what has been extracted so far, each file at its
own path unless two directories fall together, and once verified it is as the payload was; all
of this as long as the start of no other instance has found it.

Two lemmas carry the rest.  `EntriesOfPayload` says that the archive starts with the
manifest and has every file once; it rests on `PlacesAreCounted`, that every number up to
that of the files is the number of the files up to one of them.  Such facts are inductions
over numbers, which no rule with a predicate for a parameter can give here; `LeastNumber`
gets them from the finite initial segments of the numbers, well-founded by inclusion, and the
proofs take a least counterexample.  `EntryLandsAtPath` says that without two spellings of a
directory the file system puts every file where the archive says.  `EntryIsTaken` and
`CompleteIsVerified` then go through each reason an installer has to refuse, and trace it to
one of the seven kinds of payload.

The attempt to prove `InstallableAsBuilt` showed that the list of kinds had been too
short: the step for an entry whose directory exists in another spelling did not go through,
and TLC found the payload once the model created files where such a file system does.

### What is not proved

All liveness (`TaskEnds`, `VerdictIsLearnt`, `RunReturns`, `InputIsWiped`,
`ResumptionCompletes`, `JobsEnd`), which under fairness is outside the prover's reach, stays
model-checked.  Every invariant, action property and refinement that a passing run checks is
stated by a theorem.  `NoDowngrade` is proved for pointers and for a user who waits, and not
promised by the code for a payload and a hasty user (section 3).

## 5. Plan

Done: the job executor with the refinement of `JobLifecycle`, the core update, engine packs,
the process supervisor, the curl transfer, host keys and pack archives, each with the
proofs of its safety properties; `PayloadTrial` and its refinement.  Left, in this order:

1. `Router` and the validation of update requests as operators checked against reference
   definitions.
2. An abstract specification of pack activation (one selected release per pack that only
   rises, unless two instances race) and its refinement by `PackInstall`.

Not modelled, and why: the window's presentation, the engines' command lines and
output parsing, the Metalink reader and the signing of metadata keep no
state that a step of another component could disturb; the TUF client is a library.
