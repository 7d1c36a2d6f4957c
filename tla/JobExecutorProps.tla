--------------------------- MODULE JobExecutorProps ----------------------------
(***************************************************************************)
(* What is checked, and partly proved, of the job scheduler and executor.  *)
(***************************************************************************)
EXTENDS JobExecutor

\* Every variable has its type.
TypeOK ==
    /\ up \in BOOLEAN
    /\ concurrency \in Concurrencies
    /\ marking \in BOOLEAN
    /\ listed \in [Jobs -> Snapshot]
    /\ mem \in [Jobs -> Snapshot]
    /\ db \in [Jobs -> Snapshot]
    /\ leases \subseteq Jobs \X (1..NEngines)
    /\ auth \subseteq Jobs
    /\ token \in [Jobs -> {"none", "task", "orphan"}]
    /\ stop \in [Jobs -> BOOLEAN]
    /\ pc \in [Jobs -> PC]
    /\ attempt \in [Jobs -> 1..NEngines + 1]
    /\ tries \in [Jobs -> 0..MaxTries]
    /\ permits \in 0..concurrency
    /\ waiting \in Seq(Jobs)
    /\ resuming \subseteq Jobs
    /\ submitting \subseteq Jobs
    /\ shared \subseteq Jobs
    /\ placed \subseteq Jobs
    /\ replaced \subseteq Jobs
    /\ unseen \in [Jobs -> SUBSET Jobs]
    /\ unserved \subseteq Jobs

\* A job has an entry in the cancellation map exactly as long as it has a task.
\* The map is what keeps two tasks from working on one job (executor.rs:51-59),
\* and what lets resume refuse a job that is still stopping (172-176).
EntryIffTask == \A j \in Jobs : token[j] = "none" <=> pc[j] = "idle"

Holders == {j \in Jobs : pc[j] \in HoldsPermit}

\* No permit is lost or made: whichever way download() returns, with a failure,
\* an error or success, and whatever the user did meanwhile, the permit it took
\* is back, and no more jobs hold one than the scheduler was made for
\* (executor.rs:305-311).
PermitsConserved == permits + Cardinality(Holders) = concurrency

\* A job shown as active is being worked on, or its error is about to be recorded:
\* no command and no failure leaves an active state behind without a task, so
\* only the end of the process does, and that is what mark_active_jobs_interrupted
\* repairs (storage.rs:238-253).  A row that another instance has written since the
\* start listed the active ones may be read back as active: such jobs are excepted.
ActiveHasTask ==
    \A j \in Jobs \ shared :
        mem[j].state \in Active => pc[j] \in HoldsPermit \cup {"error"}

\* While a task uses an engine, the lease on that engine's pack is in the table,
\* however the job was cancelled, paused or retried meanwhile
\* (executor.rs:263-270, 323-330, 65-72).  The leases name the job and not the
\* instance: another one that works on the job replaces them and gives them back.
LeaseCoversEngine ==
    \A j \in Jobs \ shared : pc[j] \in UsesEngine => <<j, attempt[j]>> \in leases

\* Credentials are not kept for a job that has ended and that no task works on any
\* more, unless its end could not be saved: the cancellation that failed leaves them
\* (executor.rs:65-72, 102-137).  Jobs another instance has worked on are excepted,
\* as it may have saved the end that this one could not.
SecretsNotRetained ==
    \A j \in Jobs \ shared :
        j \in auth /\ mem[j].state \in Terminal /\ pc[j] = "idle" => mem[j] # db[j]

\* A job recorded as completed has its file at the destination, and the file of
\* its latest download: also after a crash at any point between the move and the
\* record, and after retries of earlier downloads.  The one way to lose it is another
\* download that had found the same name free before this file was there and moves
\* its own over it (executor.rs:381-407).  Jobs another instance has worked on are
\* excepted.
CompletedHasFile ==
    \A j \in Jobs \ shared :
        "Completed" \in {mem[j].state, db[j].state} => j \in placed \cup replaced

\* A queued job that nothing works on got there in one of two ways: submit found
\* the entry of a task about to end, or the process was restarted.
QueuedIsServed ==
    \A j \in Jobs :
        up /\ mem[j].state = "Queued" /\ pc[j] = "idle" => j \in submitting \cup unserved

\* Completed and Canceled are final in the table, over every crash and restart of
\* this instance, every late answer of an engine and every command (job.rs:60-95).
\* Only another instance undoes an end: by what it saves of the job, or because its
\* start has listed the row as active before the end was recorded
\* (storage.rs:238-253).
EndIsFinal ==
    [][\A j \in Jobs \ shared' :
          db[j].state \in {"Completed", "Canceled"} => db'[j].state = db[j].state]_vars

\* Whatever writes fail, the table never tells of an end that memory does not
\* know: a restart cannot lose a job that is still going on (scheduler.rs:79-97,
\* 223-236).  Jobs another instance has worked on are excepted.
NoPhantomEnd ==
    \A j \in Jobs \ shared :
        up /\ db[j].state \in {"Completed", "Canceled"} => mem[j].state = db[j].state

\* The executor implements the life cycle: the state is the one in the table, and
\* a slot is a permit.
Lifecycle ==
    INSTANCE JobLifecycle WITH
        state <- [j \in Jobs |-> db[j].state],
        admitted <- Holders,
        slots <- concurrency,
        foreign <- shared
ImplementsLifecycle == Lifecycle!Spec

\* Every task ends: whatever the probe, the engines and the user do, it reaches
\* the end of its closure and its entry goes, so that the job can be resumed.
TaskEnds == \A j \in Jobs : pc[j] # "idle" ~> pc[j] = "idle"

\* A canceled job's engine has been told to stop: "Each external engine runs from
\* ... bounded cancellation" (docs/architecture.md:17-19).
CancellationIsBounded ==
    \A j \in Jobs : mem[j].state = "Canceled" /\ pc[j] = "transfer" => stop[j]

================================================================================
