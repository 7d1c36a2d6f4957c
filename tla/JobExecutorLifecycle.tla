------------------------- MODULE JobExecutorLifecycle --------------------------
(***************************************************************************)
(* More of what the job executor guarantees.  The credentials of a job     *)
(* that has ended are wiped, whether or not the store fails.  With a store *)
(* that does not fail, a queued job is served, and what is recorded of a   *)
(* job follows JobLifecycle.                                               *)
(***************************************************************************)
EXTENDS JobExecutorSafety

--------------------------------------------------------------------------------
(* The credentials of jobs that have ended.                                 *)

\* The last chance to wipe them is the step before the entry goes: from then on the
\* job must have none, unless a cancellation could not be saved.  While the process
\* is down nobody has any.
SecretAt(j) ==
    j \in auth /\ mem[j].state \in Terminal /\ pc[j] \in {"idle", "unmap"} => mem[j] # db[j]
DownForgets == ~up => auth = {}

\* A command ends a job only together with its credentials, or without saving the end.
LEMMA CommandSecret ==
    ASSUME Typed, NEW j \in Jobs, Command(j), token[j] = "none" <=> pc[j] = "idle",
           db[j].state = "Canceled" => mem[j].state = "Canceled", SecretAt(j)
    PROVE  SecretAt(j)'
<1> USE DEF SecretAt, outside, memory, commands, engine, semaphore, files, history
<1>e. pc'[j] = pc[j] \/ pc'[j] = "start"
    BY CommandEntry
<1>w. \A s, saved : Store(j, WithState(j, s), saved) => mem'[j].state = s
    <2>1. \A s : WithState(j, s).state = s
        BY DEF Tables, Typed, Snapshot, WithState
    <2>2. QED
        BY <2>1, StoreAt
<1>t. \A s, saved : Transition(j, s, saved) => mem'[j].state = s
    BY TransitionAt
<1>i. {"Probing", "Queued", "Paused", "AwaitingSelection"} \cap Terminal = {}
    BY DEF Terminal
<1>1. CASE CreateJob(j)
    BY <1>1, <1>i, <1>w DEF CreateJob
<1>2. CASE Submit(j) \/ StartJob(j) \/ ResumeJob(j)
    BY <1>2, <1>e DEF Submit, StartJob, ResumeJob
<1>3. CASE CompleteSelection(j)
    BY <1>3, <1>i, <1>w DEF CompleteSelection
<1>4. CASE AuthorizeJob(j)
    BY <1>4, <1>i DEF AuthorizeJob
<1>5. CASE PauseJob(j)
    BY <1>5, <1>i, <1>t DEF PauseJob
<1>6. CASE ResumeChecked(j)
    <2>1. UNCHANGED <<mem, db>> \/ mem'[j].state = "Queued"
        BY <1>6, <1>t DEF ResumeChecked
    <2>2. QED
        BY <1>6, <1>e, <1>i, <2>1 DEF ResumeChecked
<1>7. CASE RetryJob(j)
    <2>1. PICK s \in {"Probing", "Queued"} : \E saved : Transition(j, s, saved)
        BY <1>7 DEF RetryJob
    <2>2. QED
        BY <2>1, <1>i, <1>t
<1>8. CASE CancelJob(j)
    <2>1. PICK saved : Transition(j, "Canceled", saved) /\ (saved => j \notin auth')
        BY <1>8 DEF CancelJob
    <2>2. CASE saved
        BY <2>1, <2>2
    <2>3. CASE ~saved
        <3>1. mem[j].state # "Canceled"
            BY <2>1, TransitionFollows DEF Ends
        <3>2. mem'[j].state = "Canceled"
            BY <1>t, <2>1
        <3>3. db' = db
            BY <2>1, <2>3 DEF Transition, Store
        <3>4. QED
            BY <3>1, <3>2, <3>3
    <2>4. QED
        BY <2>2, <2>3
<1>9. QED
    BY <1>1, <1>2, <1>3, <1>4, <1>5, <1>6, <1>7, <1>8
       DEF Command, CompleteJobSelection, SelectFormat

\* A task wipes them before it takes its entry away.
LEMMA TaskSecret ==
    ASSUME Typed, NEW j \in Jobs, Task(j), SecretAt(j)
    PROVE  SecretAt(j)'
<1> USE DEF SecretAt, outside, memory, commands, engine, semaphore, files, history
<1>g. \A label : Goto(j, label) => pc'[j] = label
    BY DEF Goto, Tables, Typed
<1>p. \A done : ProbeEnds(j, done) => pc'[j] \in {"proceed", "error"}
    BY <1>g DEF ProbeEnds
<1>d. \A done : DownloadEnds(j, done) => pc'[j] \in {"settle", "error"}
    BY <1>g DEF DownloadEnds
<1>1. CASE TaskSettle(j)
    BY <1>1 DEF TaskSettle
<1>2. CASE TaskUnmap(j)
    BY <1>2 DEF TaskUnmap
<1>3. CASE ~(TaskSettle(j) \/ TaskUnmap(j))
    <2>1. pc'[j] \notin {"idle", "unmap"}
        BY <1>3, <1>d, <1>g, <1>p DEF Task, TaskStart, TaskResolve, TaskProbed, TaskProceed,
            TaskGranted, TaskPrepare, TaskLaunch, TaskTransferred, TaskBackoff, TaskPlace,
            TaskRename, TaskComplete, TaskError, NextEngine
    <2>2. QED
        BY <2>1
<1>4. QED
    BY <1>1, <1>2, <1>3

\* A step for one job gives no credentials to another.
LEMMA AuthElsewhere ==
    ASSUME NEW j \in Jobs, Command(j) \/ Task(j)
    PROVE  \A k \in Jobs \ {j} : k \in auth' => k \in auth
BY DEF Command, CreateJob, Submit, StartJob, CompleteJobSelection, SelectFormat,
    CompleteSelection, AuthorizeJob, PauseJob, ResumeJob, ResumeChecked, RetryJob,
    CancelJob, Task, TaskStart, TaskResolve, TaskProbed, TaskProceed, TaskGranted,
    TaskPrepare, TaskLaunch, TaskTransferred, TaskBackoff, TaskPlace, TaskRename,
    TaskComplete, TaskError, TaskSettle, TaskUnmap, memory

\* Every step keeps it so.
LEMMA SecretStep ==
    ASSUME IInv, NoPhantomEnd, DownForgets, \A j \in Jobs \ shared : SecretAt(j), [Next]_vars
    PROVE  DownForgets' /\ \A j \in Jobs \ shared' : SecretAt(j)'
<1>0. Typed /\ DownIsIdle
    BY DEF IInv
<1>1. ASSUME NEW j \in Jobs, Command(j) \/ Task(j)
      PROVE  DownForgets' /\ \A k \in Jobs \ shared' : SecretAt(k)'
    <2>1. up /\ up' /\ Elsewhere(j) /\ RowFollows(j) /\ shared' = shared
        BY <1>0, <1>1, WorkIsUp, CommandElsewhere, TaskElsewhere, WorkFollows, WorkInside
    <2>2. token[j] = "none" <=> pc[j] = "idle"
        BY DEF IInv, EntryIffTask
    <2>3. ASSUME j \notin shared
          PROVE  SecretAt(j)'
        <3>1. db[j].state = "Canceled" => mem[j].state = "Canceled"
            BY <2>1, <2>3 DEF NoPhantomEnd
        <3>2. SecretAt(j)
            BY <2>3
        <3>3. QED
            BY <1>0, <1>1, <2>2, <3>1, <3>2, CommandSecret, TaskSecret
    <2>4. ASSUME NEW k \in Jobs \ shared, k # j
          PROVE  SecretAt(k)'
        BY <1>1, <2>1, <2>4, AuthElsewhere DEF Elsewhere, RowFollows, SecretAt
    <2>5. QED
        BY <2>1, <2>3, <2>4 DEF DownForgets
<1>2. ASSUME NEW j \in Jobs, TaskProgress(j)
      PROVE  DownForgets' /\ \A k \in Jobs \ shared' : SecretAt(k)'
    <2>1. UNCHANGED <<up, mem, auth, pc, shared>>
        BY <1>2 DEF TaskProgress, outside, memory
    <2>2. pc[j] \notin {"idle", "unmap"}
        BY <1>2 DEF TaskProgress
    <2>3. \A k \in Jobs \ {j} : db'[k] = db[k]
        BY <1>0, <1>2, WorkFollows DEF RowFollows
    <2>4. QED
        BY <2>1, <2>2, <2>3 DEF DownForgets, SecretAt
<1>3. ASSUME NEW j \in Jobs, MarkInterrupted(j)
      PROVE  DownForgets' /\ \A k \in Jobs \ shared' : SecretAt(k)'
    <2>1. ~up
        BY <1>3 DEF IInv, Marks, MarkInterrupted
    <2>2. auth' = {}
        BY <1>0, <1>3, <2>1, MarkAt DEF DownForgets
    <2>3. QED
        BY <2>2 DEF DownForgets, SecretAt
<1>4. ASSUME NEW j \in Jobs, Another(j)
      PROVE  DownForgets' /\ \A k \in Jobs \ shared' : SecretAt(k)'
    BY <1>0, <1>4, AnotherOutside DEF DownForgets, SecretAt
<1>5. CASE Crash
    BY <1>5 DEF Crash, DownForgets, SecretAt
<1>6. CASE Restart
    BY <1>6 DEF Restart, DownForgets, SecretAt
<1>7. CASE ListActive
    BY <1>7, ListAt DEF DownForgets, SecretAt
<1>8. CASE UNCHANGED vars
    BY <1>8 DEF vars, outside, DownForgets, SecretAt
<1>9. QED
    BY <1>1, <1>2, <1>3, <1>4, <1>5, <1>6, <1>7, <1>8 DEF Next

\* Whichever way a job ends, while its task runs or without one, and whatever writes
\* fail: its credentials are gone once nothing works on it, unless its end is not in
\* the table.  Jobs another instance has worked on are excepted.
THEOREM SecretsAreWiped == Spec => []SecretsNotRetained
<1> DEFINE Wiped == \A j \in Jobs \ shared : SecretAt(j)
<1>1. Init => NoPhantomEnd /\ DownForgets /\ Wiped
    BY DEF Init, NoPhantomEnd, NoSnapshot, Absent, DownForgets, SecretAt
<1>2. IInv /\ NoPhantomEnd /\ DownForgets /\ Wiped /\ [Next]_vars
          => (NoPhantomEnd /\ DownForgets /\ Wiped)'
    BY EndStep, SecretStep
<1>3. Wiped => SecretsNotRetained
    BY DEF SecretAt, SecretsNotRetained
<1>4. QED
    BY <1>1, <1>2, <1>3, Inductive, PTL DEF Spec

--------------------------------------------------------------------------------
(* Queued jobs, with a store that does not fail.                            *)

\* A job that is queued while its task is about to end, or has none, is on its way to
\* submit or was left by it.
ServedAt(j) ==
    up /\ mem[j].state = "Queued" /\ pc[j] \in {"idle", "settle", "unmap"}
        => j \in submitting \cup unserved

\* One command at a time is between its two steps.
OneCommand ==
    /\ resuming = {} \/ submitting = {}
    /\ \A j, k \in submitting : j = k

\* A command that queues a job has it submitted, and no command withdraws a job that
\* another one has left.
LEMMA CommandServed ==
    ASSUME ~StoreMayFail, Typed, NEW j \in Jobs, Command(j),
           token[j] = "none" <=> pc[j] = "idle", OneCommand, \A k \in Jobs : ServedAt(k)
    PROVE  OneCommand' /\ \A k \in Jobs : ServedAt(k)'
<1> USE DEF outside, memory, commands, engine, semaphore, files, history
<1>s. SaveResults = {TRUE}
    BY DEF SaveResults
<1>h. Elsewhere(j)
    BY CommandElsewhere
<1>w. \A s, saved : Store(j, WithState(j, s), saved) => mem'[j].state = s
    <2>1. \A s : WithState(j, s).state = s
        BY DEF Tables, Typed, Snapshot, WithState
    <2>2. QED
        BY <2>1, StoreAt
<1>t. \A s, saved : Transition(j, s, saved) => mem'[j].state = s
    BY TransitionAt
<1>1. ASSUME submitting' = {j}, submitting = {}, resuming' = {}, UNCHANGED unserved
      PROVE  OneCommand' /\ \A k \in Jobs : ServedAt(k)'
    <2>1. ServedAt(j)' /\ OneCommand'
        BY <1>1 DEF ServedAt, OneCommand
    <2>2. up' = up
        BY DEF Command, CreateJob, Submit, StartJob, CompleteJobSelection, SelectFormat,
            CompleteSelection, AuthorizeJob, PauseJob, ResumeJob, ResumeChecked, RetryJob,
            CancelJob
    <2>3. ASSUME NEW k \in Jobs \ {j}
          PROVE  ServedAt(k)'
        BY <1>1, <1>h, <2>2 DEF Elsewhere, ServedAt
    <2>4. QED
        BY <2>1, <2>3
<1>2. ASSUME submitting' = submitting, UNCHANGED <<unserved, pc, up>>, OneCommand',
             mem'[j].state = "Queued" => mem[j].state = "Queued"
      PROVE  OneCommand' /\ \A k \in Jobs : ServedAt(k)'
    BY <1>2, <1>h DEF Elsewhere, ServedAt
<1>3. CASE CreateJob(j)
    BY <1>1, <1>3 DEF CreateJob, MainThreadFree
<1>4. CASE Submit(j)
    <2>1. OneCommand' /\ mem' = mem /\ up' = up
        BY <1>4 DEF Submit, OneCommand
    <2>2. submitting = {j}
        BY <1>4 DEF Submit, OneCommand
    <2>3. ServedAt(j)'
        BY <1>4 DEF Submit, ServedAt, Typed
    <2>4. ASSUME NEW k \in Jobs \ {j}
          PROVE  ServedAt(k)'
        <3>1. k \in unserved => k \in unserved'
            BY <1>4 DEF Submit
        <3>2. QED
            BY <1>h, <2>1, <2>2, <3>1 DEF Elsewhere, ServedAt
    <2>5. QED
        BY <2>1, <2>3, <2>4
<1>5. CASE StartJob(j)
    BY <1>1, <1>5 DEF StartJob, MainThreadFree
<1>6. CASE CompleteSelection(j)
    BY <1>1, <1>6, <1>s DEF CompleteSelection, MainThreadFree
<1>7. CASE AuthorizeJob(j)
    BY <1>2, <1>7 DEF AuthorizeJob, OneCommand
<1>8. CASE PauseJob(j)
    BY <1>2, <1>8, <1>t DEF PauseJob, OneCommand
<1>9. CASE ResumeJob(j)
    BY <1>2, <1>9 DEF ResumeJob, OneCommand, MainThreadFree
<1>10. CASE ResumeChecked(j)
    <2>1. submitting = {} /\ resuming' = {}
        BY <1>10 DEF ResumeChecked, OneCommand
    <2>2. CASE UNCHANGED <<mem, submitting>>
        BY <1>2, <1>10, <2>1, <2>2 DEF ResumeChecked, OneCommand
    <2>3. CASE ~UNCHANGED <<mem, submitting>>
        BY <1>1, <1>10, <1>s, <2>1, <2>3 DEF ResumeChecked
    <2>4. QED
        BY <2>2, <2>3
<1>11. CASE RetryJob(j)
    BY <1>1, <1>11, <1>s DEF RetryJob, MainThreadFree
<1>12. CASE CancelJob(j)
    BY <1>2, <1>12, <1>t DEF CancelJob, OneCommand
<1>13. QED
    BY <1>3, <1>4, <1>5, <1>6, <1>7, <1>8, <1>9, <1>10, <1>11, <1>12
       DEF Command, CompleteJobSelection, SelectFormat

\* No task comes to its end with its job queued.
LEMMA TaskServed ==
    ASSUME Typed, NEW j \in Jobs, Task(j), ServedAt(j)
    PROVE  ServedAt(j)'
<1> USE DEF outside, memory, commands, engine, semaphore, files, history
<1> DEFINE Last == {"idle", "settle", "unmap"}
<1>u. UNCHANGED <<submitting, unserved, up>>
    BY DEF Task, TaskStart, TaskResolve, TaskProbed, TaskProceed, TaskGranted,
        TaskPrepare, TaskLaunch, TaskTransferred, TaskBackoff, TaskPlace, TaskRename,
        TaskComplete, TaskError, TaskSettle, TaskUnmap
<1>g. \A label : Goto(j, label) => pc'[j] = label
    BY DEF Goto, Tables, Typed
<1>p. \A done : ProbeEnds(j, done) => pc'[j] \notin Last
    BY <1>g DEF ProbeEnds
<1>d. \A done : DownloadEnds(j, done) => pc'[j] \notin Last \/ done
    BY <1>g DEF DownloadEnds
<1>f. \A done : Fail(j, done) => mem'[j].state # "Queued"
    BY FailAt DEF Terminal
<1>e. \A canceled, done : FailEngine(j, canceled, done) => mem'[j].state # "Queued"
    BY FailEngineAt DEF Terminal
<1>c. \A done : Reach(j, "Completed", done) /\ DownloadEnds(j, done) =>
          pc'[j] \notin Last \/ mem'[j].state = "Completed"
    BY <1>d, ReachAt
<1>1. pc'[j] \notin Last \/ mem'[j].state # "Queued" \/ (mem' = mem /\ pc[j] \in Last)
    <2>1. CASE TaskStart(j)
        BY <2>1, <1>g, <1>p DEF TaskStart
    <2>2. CASE TaskResolve(j)
        BY <2>2, <1>g, <1>p DEF TaskResolve, NextEngine
    <2>3. CASE TaskProbed(j)
        BY <2>3, <1>g, <1>p DEF TaskProbed, NextEngine
    <2>4. CASE TaskProceed(j)
        BY <2>4, <1>g DEF TaskProceed
    <2>5. CASE TaskGranted(j)
        BY <2>5, <1>g DEF TaskGranted
    <2>6. CASE TaskPrepare(j)
        BY <2>6, <1>d, <1>e, <1>g DEF TaskPrepare, NextEngine
    <2>7. CASE TaskLaunch(j)
        BY <2>7, <1>d, <1>g DEF TaskLaunch
    <2>8. CASE TaskTransferred(j)
        BY <2>8, <1>d, <1>e, <1>g DEF TaskTransferred, NextEngine
    <2>9. CASE TaskBackoff(j)
        BY <2>9, <1>g DEF TaskBackoff
    <2>10. CASE TaskPlace(j)
        BY <2>10, <1>d, <1>g DEF TaskPlace
    <2>11. CASE TaskRename(j)
        BY <2>11, <1>d, <1>g DEF TaskRename
    <2>12. CASE TaskComplete(j)
        BY <2>12, <1>c DEF TaskComplete
    <2>13. CASE TaskError(j)
        BY <2>13, <1>f DEF TaskError
    <2>14. CASE TaskSettle(j)
        BY <2>14 DEF TaskSettle
    <2>15. CASE TaskUnmap(j)
        BY <2>15 DEF TaskUnmap
    <2>16. QED
        BY <2>1, <2>2, <2>3, <2>4, <2>5, <2>6, <2>7, <2>8, <2>9, <2>10, <2>11, <2>12,
           <2>13, <2>14, <2>15 DEF Task
<1>2. QED
    BY <1>u, <1>1 DEF ServedAt

\* Every step keeps it so.
LEMMA ServedStep ==
    ASSUME ~StoreMayFail, IInv, OneCommand, \A j \in Jobs : ServedAt(j), [Next]_vars
    PROVE  OneCommand' /\ \A j \in Jobs : ServedAt(j)'
<1>0. Typed
    BY DEF IInv
<1>1. ASSUME NEW j \in Jobs, Command(j)
      PROVE  OneCommand' /\ \A k \in Jobs : ServedAt(k)'
    BY <1>0, <1>1, CommandServed DEF IInv, EntryIffTask
<1>2. ASSUME NEW j \in Jobs, Task(j)
      PROVE  OneCommand' /\ \A k \in Jobs : ServedAt(k)'
    <2>1. Elsewhere(j) /\ ServedAt(j)'
        BY <1>0, <1>2, TaskElsewhere, TaskServed
    <2>2. UNCHANGED <<submitting, resuming, unserved, up>>
        BY <1>2 DEF Task, TaskStart, TaskResolve, TaskProbed, TaskProceed, TaskGranted,
            TaskPrepare, TaskLaunch, TaskTransferred, TaskBackoff, TaskPlace, TaskRename,
            TaskComplete, TaskError, TaskSettle, TaskUnmap, outside, commands, history
    <2>3. ASSUME NEW k \in Jobs \ {j}
          PROVE  ServedAt(k)'
        BY <2>1, <2>2 DEF Elsewhere, ServedAt
    <2>4. QED
        BY <2>1, <2>2, <2>3 DEF OneCommand
<1>3. CASE \E j \in Jobs : TaskProgress(j) \/ MarkInterrupted(j) \/ Another(j)
    <2>1. UNCHANGED <<up, mem, pc, submitting, resuming, unserved>>
        BY <1>0, <1>3, MarkAt, AnotherOutside
           DEF TaskProgress, outside, memory, commands, history
    <2>2. QED
        BY <2>1 DEF OneCommand, ServedAt
<1>4. CASE Crash
    BY <1>4 DEF Crash, OneCommand, ServedAt
<1>5. CASE Restart
    BY <1>5 DEF Restart, OneCommand, ServedAt, commands
<1>6. CASE ListActive
    BY <1>6, ListAt DEF OneCommand, ServedAt
<1>7. CASE UNCHANGED vars
    BY <1>7 DEF vars, outside, OneCommand, ServedAt
<1>8. QED
    BY <1>1, <1>2, <1>3, <1>4, <1>5, <1>6, <1>7 DEF Next

\* With a store that does not fail, a queued job that nothing works on is one that
\* submit has left, for the task whose entry it met, or that a start read back.
THEOREM QueuedJobsAreServed ==
    ASSUME ~StoreMayFail
    PROVE  Spec => []QueuedIsServed
<1> DEFINE Served == \A j \in Jobs : ServedAt(j)
<1>1. Init => OneCommand /\ Served
    BY DEF Init, OneCommand, ServedAt, NoSnapshot, Absent
<1>2. IInv /\ OneCommand /\ Served /\ [Next]_vars => (OneCommand /\ Served)'
    BY ServedStep
<1>3. Served => QueuedIsServed
    BY DEF ServedAt, QueuedIsServed
<1>4. QED
    BY <1>1, <1>2, <1>3, Inductive, PTL DEF Spec

--------------------------------------------------------------------------------
(* The refinement of JobLifecycle, with a store that does not fail.         *)

\* Memory and table agree as long as the process runs and nobody else writes the row, ...
Synced == up => \A j \in Jobs \ shared : mem[j] = db[j]

\* ... nobody works on a job that was not created, and no command is left behind by
\* the end of the process.
KnownAt(j) == pc[j] # "idle" \/ j \in submitting \cup resuming => mem[j].state # Absent
Known == \A j \in Jobs \ shared : KnownAt(j)
DownIsBlank == ~up => submitting = {} /\ resuming = {}

\* A step that JobLifecycle calls Steer.
Steerable == JobState \ (Active \cup {"Completed", "Interrupted"})
Steered(j) ==
    /\ mem[j].state # Absent
    /\ mem'[j].state \in Steerable
    /\ \/ CanTransition(mem[j].state, mem'[j].state)
       \/ mem'[j].state = "Failed" /\ mem[j].state \notin Terminal

Same(j) == mem'[j].state = mem[j].state

\* A step for j that keeps memory and table together.
LEMMA StepSynced ==
    ASSUME ~StoreMayFail, Typed, NEW j \in Jobs, mem[j] = db[j],
           Command(j) \/ Task(j) \/ TaskProgress(j)
    PROVE  mem'[j] = db'[j]
<1> USE DEF outside, memory, commands, engine, semaphore, files, history
<1>s. SaveResults = {TRUE}
    BY DEF SaveResults
<1>w. \A s, saved : Store(j, s, saved) /\ saved \in SaveResults => mem'[j] = db'[j]
    BY <1>s DEF Store, Tables, Typed
<1>b. Resave(j) /\ UNCHANGED mem => mem'[j] = db'[j]
    BY DEF Resave, Tables, Typed
<1>t. \A s, saved : Transition(j, s, saved) => mem'[j] = db'[j]
    BY <1>w DEF Transition
<1>r. \A s, done : Reach(j, s, done) => mem'[j] = db'[j]
    BY <1>t DEF Reach
<1>f. \A done : Fail(j, done) => mem'[j] = db'[j]
    BY <1>w DEF Fail
<1>e. \A canceled, done : FailEngine(j, canceled, done) => mem'[j] = db'[j]
    BY <1>f DEF FailEngine
<1>p. \A plan, done : SetPlan(j, plan, done) => mem'[j] = db'[j]
    BY <1>b, <1>w DEF SetPlan
<1>1. CASE Command(j)
    <2>1. CASE CreateJob(j)
        BY <2>1, <1>w, <1>s DEF CreateJob
    <2>2. CASE CompleteSelection(j)
        BY <2>2, <1>w DEF CompleteSelection
    <2>3. CASE PauseJob(j)
        BY <2>3, <1>t DEF PauseJob
    <2>4. CASE ResumeChecked(j)
        BY <2>4, <1>t DEF ResumeChecked
    <2>5. CASE RetryJob(j)
        BY <2>5, <1>t DEF RetryJob
    <2>6. CASE CancelJob(j)
        BY <2>6, <1>t DEF CancelJob
    <2>7. CASE Submit(j) \/ StartJob(j) \/ AuthorizeJob(j) \/ ResumeJob(j)
        BY <2>7 DEF Submit, StartJob, AuthorizeJob, ResumeJob
    <2>8. QED
        BY <1>1, <2>1, <2>2, <2>3, <2>4, <2>5, <2>6, <2>7
           DEF Command, CompleteJobSelection, SelectFormat
<1>2. CASE Task(j)
    <2>1. CASE TaskStart(j)
        BY <2>1, <1>r, <1>f DEF TaskStart
    <2>2. CASE TaskResolve(j)
        BY <2>2, <1>e DEF TaskResolve
    <2>3. CASE TaskProbed(j)
        BY <2>3, <1>e, <1>p DEF TaskProbed
    <2>4. CASE TaskGranted(j)
        BY <2>4, <1>r DEF TaskGranted
    <2>5. CASE TaskPrepare(j)
        BY <2>5, <1>b, <1>e DEF TaskPrepare
    <2>6. CASE TaskLaunch(j)
        <3>1. \E done \in BOOLEAN : Reach(j, "Downloading", done)
            BY <2>6 DEF TaskLaunch
        <3>2. QED
            BY <3>1, <1>r
    <2>7. CASE TaskTransferred(j)
        BY <2>7, <1>e DEF TaskTransferred
    <2>8. CASE TaskPlace(j)
        <3>1. UNCHANGED <<mem, db>> \/ \E done \in BOOLEAN : Reach(j, "PostProcessing", done)
            BY <2>8 DEF TaskPlace
        <3>2. QED
            BY <3>1, <1>r
    <2>9. CASE TaskRename(j)
        BY <2>9, <1>b DEF TaskRename
    <2>10. CASE TaskComplete(j)
        BY <2>10, <1>r DEF TaskComplete
    <2>11. CASE TaskError(j)
        BY <2>11, <1>f DEF TaskError
    <2>12. CASE TaskProceed(j) \/ TaskBackoff(j) \/ TaskSettle(j) \/ TaskUnmap(j)
        BY <2>12 DEF TaskProceed, TaskBackoff, TaskSettle, TaskUnmap
    <2>13. QED
        BY <1>2, <2>1, <2>2, <2>3, <2>4, <2>5, <2>6, <2>7, <2>8, <2>9, <2>10, <2>11,
           <2>12 DEF Task
<1>3. CASE TaskProgress(j)
    BY <1>3, <1>b DEF TaskProgress
<1>4. QED
    BY <1>1, <1>2, <1>3

\* What a command does to the recorded state: it creates the job, or it steers it.
LEMMA CommandMoves ==
    ASSUME Typed, NEW j \in Jobs, KnownAt(j), Command(j)
    PROVE  \/ Same(j)
           \/ mem[j].state = Absent /\ mem'[j].state = "Probing"
           \/ Steered(j)
<1> USE DEF outside, memory, commands, engine, semaphore, files, history, Same
<1>a. {"Probing", "Queued", "Paused", "Canceled"} \subseteq Steerable
    BY DEF Steerable, Active, JobState
<1>w. \A s, saved : Store(j, WithState(j, s), saved) => mem'[j].state = s
    <2>1. \A s : WithState(j, s).state = s
        BY DEF Tables, Typed, Snapshot, WithState
    <2>2. QED
        BY <2>1, StoreAt
<1>t. \A s \in Steerable : \A saved :
          Transition(j, s, saved) /\ mem[j].state # Absent => Steered(j)
    BY TransitionAt DEF Steered, Transition
<1>1. CASE CreateJob(j)
    BY <1>1, <1>w DEF CreateJob, Exists
<1>2. CASE Submit(j) \/ StartJob(j) \/ AuthorizeJob(j) \/ ResumeJob(j)
    BY <1>2 DEF Submit, StartJob, AuthorizeJob, ResumeJob
<1>3. CASE CompleteSelection(j)
    <2>1. mem[j].state = "AwaitingSelection" /\ mem'[j].state = "Queued"
        BY <1>3, <1>w DEF CompleteSelection
    <2>2. CanTransition("AwaitingSelection", "Queued")
        BY DEF CanTransition, Successors, JobState
    <2>3. QED
        BY <1>a, <2>1, <2>2 DEF Steered, Absent
<1>4. CASE PauseJob(j)
    BY <1>4, <1>a, <1>t DEF PauseJob, Absent
<1>5. CASE ResumeChecked(j)
    BY <1>5, <1>a, <1>t DEF ResumeChecked, KnownAt
<1>6. CASE RetryJob(j)
    <2>1. PICK s \in {"Probing", "Queued"} : \E saved : Transition(j, s, saved)
        BY <1>6 DEF RetryJob
    <2>2. mem[j].state # Absent
        BY <1>6 DEF RetryJob, Absent
    <2>3. QED
        BY <1>a, <1>t, <2>1, <2>2
<1>7. CASE CancelJob(j)
    BY <1>7, <1>a, <1>t DEF CancelJob, Exists
<1>8. QED
    BY <1>1, <1>2, <1>3, <1>4, <1>5, <1>6, <1>7
       DEF Command, CompleteJobSelection, SelectFormat

\* What a step of a task does to it, together with the permit.
LEMMA TaskMoves ==
    ASSUME ~StoreMayFail, Typed, NEW j \in Jobs, Task(j), ActiveAt(j),
           mem[j].state # Absent
    PROVE  \/ /\ PermitTaken(j) /\ permits > 0
              /\ mem[j].state = "Queued" /\ mem'[j].state = "Preparing"
           \/ (PermitKept(j) \/ PermitReturned(j)) /\ (Same(j) \/ Steered(j))
           \/ /\ PermitKept(j) /\ pc[j] \in HoldsPermit
              /\ CanTransition(mem[j].state, mem'[j].state)
              /\ mem'[j].state \in {"Downloading", "PostProcessing"}
           \/ /\ PermitReturned(j)
              /\ CanTransition(mem[j].state, mem'[j].state)
              /\ mem'[j].state = "Completed"
<1> USE DEF outside, memory, commands, engine, semaphore, files, history, Same
<1> DEFINE Moved == Same(j) \/ Steered(j)
           Kept == PermitKept(j) \/ PermitReturned(j)
<1>h. /\ {"prepare", "launch", "transfer", "backoff", "place", "rename", "complete"}
             \subseteq HoldsPermit
      /\ {"idle", "start", "resolve", "probe", "proceed", "wait", "error", "settle",
          "unmap"} \cap HoldsPermit = {}
    BY DEF HoldsPermit
<1>a. {"Queued", "AwaitingSelection", "Failed"} \subseteq Steerable
    BY DEF Steerable, Active, JobState
<1>g. \A label : Goto(j, label) => pc'[j] = label
    BY DEF Goto, Tables, Typed
<1>o. \A s, done : Transition(j, s, done) => done = TRUE
    BY DEF Transition, SaveResults
<1>r. \A s, done : Reach(j, s, done) =>
          \/ Same(j)
          \/ done = TRUE /\ mem'[j].state = s /\ CanTransition(mem[j].state, s)
    BY <1>o, TransitionAt DEF Reach, Transition
<1>t. \A s : Reach(j, s, TRUE) => mem'[j].state = s
    BY ReachAt
<1>f. \A done : Fail(j, done) => Moved
    <2>1. WithState(j, "Failed").state = "Failed"
        BY DEF Tables, Typed, Snapshot, WithState
    <2>2. QED
        BY <1>a, <2>1, StoreAt DEF Fail, Steered
<1>e. \A canceled, done : FailEngine(j, canceled, done) => Moved
    BY <1>f DEF FailEngine
<1>s. \A plan \in Plans : \A done : SetPlan(j, plan, done) => Moved
    <2>1. \A plan \in Plans : plan.state \in {"Queued", "AwaitingSelection"}
        BY PlansAssumption DEF AnyPlan
    <2>2. CanTransition("Probing", "Queued") /\ CanTransition("Probing", "AwaitingSelection")
        BY DEF CanTransition, Successors, JobState
    <2>3. QED
        BY <1>a, <2>1, <2>2, StoreAt DEF SetPlan, Steered
<1>p. PermitKept(j) \/ PermitTaken(j) \/ PermitReturned(j)
    BY TaskPermit
<1>k. ~TaskGranted(j) => Kept
    <2>1. pc[j] # "wait" /\ pc[j] \notin HoldsPermit => pc'[j] \notin HoldsPermit
        BY <1>g, <1>h DEF Task, TaskStart, TaskResolve, TaskProbed, TaskProceed, TaskGranted,
            TaskPrepare, TaskLaunch, TaskTransferred, TaskBackoff, TaskPlace, TaskRename,
            TaskComplete, TaskError, TaskSettle, TaskUnmap, NextEngine, ProbeEnds
    <2>2. pc[j] = "wait" => TaskGranted(j)
        BY DEF Task, TaskStart, TaskResolve, TaskProbed, TaskProceed,
            TaskPrepare, TaskLaunch, TaskTransferred, TaskBackoff, TaskPlace, TaskRename,
            TaskComplete, TaskError, TaskSettle, TaskUnmap
    <2>3. QED
        BY <1>p, <2>1, <2>2 DEF PermitTaken
<1>1. CASE TaskStart(j)
    <2>1. Kept
        BY <1>1, <1>k DEF TaskStart, TaskGranted
    <2>2. \A done : Reach(j, "Queued", done) => Moved
        BY <1>a, <1>r DEF Steered
    <2>3. Moved
        BY <1>1, <1>f, <2>2 DEF TaskStart
    <2>4. QED
        BY <2>1, <2>3
<1>2. CASE TaskResolve(j)
    BY <1>2, <1>e, <1>k DEF TaskResolve, TaskGranted
<1>3. CASE TaskProbed(j)
    BY <1>3, <1>e, <1>s, <1>k DEF TaskProbed, TaskGranted
<1>4. CASE TaskProceed(j) \/ TaskBackoff(j) \/ TaskRename(j) \/ TaskSettle(j) \/ TaskUnmap(j)
    BY <1>4, <1>k DEF TaskProceed, TaskBackoff, TaskRename, TaskSettle, TaskUnmap, TaskGranted
<1>5. CASE TaskGranted(j)
    <2>1. PICK done \in BOOLEAN :
              /\ Reach(j, "Preparing", done)
              /\ permits' = IF done THEN permits - 1 ELSE permits
              /\ Goto(j, IF done THEN "prepare" ELSE "error")
        BY <1>5 DEF TaskGranted
    <2>2. pc[j] = "wait" /\ permits > 0 /\ permits \in Nat
        BY <1>5 DEF TaskGranted, Typed
    <2>3. mem[j].state \notin Active
        BY <1>h, <2>2 DEF ActiveAt
    <2>4. CASE done
        <3>1. mem'[j].state = "Preparing"
            BY <1>t, <2>1, <2>4
        <3>2. CanTransition(mem[j].state, "Preparing")
            BY <1>r, <2>1, <2>3, <3>1 DEF Active
        <3>3. mem[j].state = "Queued"
            <4>1. mem[j].state \in JobState
                BY DEF Tables, Typed, Snapshot
            <4>2. QED
                BY <3>2, <4>1 DEF CanTransition, Successors, JobState
        <3>4. PermitTaken(j)
            BY <1>g, <1>h, <2>1, <2>2, <2>4 DEF PermitTaken
        <3>5. QED
            BY <2>2, <3>1, <3>3, <3>4
    <2>5. CASE ~done
        <3>1. Same(j)
            BY <1>r, <2>1, <2>5
        <3>2. PermitKept(j)
            BY <1>g, <1>h, <2>1, <2>2, <2>5 DEF PermitKept
        <3>3. QED
            BY <3>1, <3>2
    <2>6. QED
        BY <2>4, <2>5
<1>6. CASE TaskPrepare(j)
    BY <1>6, <1>e, <1>k DEF TaskPrepare, TaskGranted
<1>7. CASE TaskLaunch(j)
    <2>1. Kept /\ pc[j] \in HoldsPermit
        BY <1>7, <1>h, <1>k DEF TaskLaunch, TaskGranted
    <2>2. PICK done \in BOOLEAN : Reach(j, "Downloading", done)
                                  /\ (done => Goto(j, "transfer") /\ UNCHANGED permits)
        BY <1>7 DEF TaskLaunch
    <2>3. done => PermitKept(j)
        BY <1>g, <1>h, <2>1, <2>2 DEF PermitKept
    <2>4. QED
        BY <1>r, <2>1, <2>2, <2>3
<1>8. CASE TaskTransferred(j)
    BY <1>8, <1>e, <1>k DEF TaskTransferred, TaskGranted
<1>9. CASE TaskPlace(j)
    <2>1. Kept /\ pc[j] \in HoldsPermit
        BY <1>9, <1>h, <1>k DEF TaskPlace, TaskGranted
    <2>2. \/ Same(j)
          \/ \E done \in BOOLEAN : Reach(j, "PostProcessing", done)
                                   /\ (done => Goto(j, "rename") /\ UNCHANGED permits)
        BY <1>9 DEF TaskPlace
    <2>3. CASE Same(j)
        BY <2>1, <2>3
    <2>4. CASE ~Same(j)
        <3>1. PICK done \in BOOLEAN : Reach(j, "PostProcessing", done)
                                      /\ (done => Goto(j, "rename") /\ UNCHANGED permits)
            BY <2>2, <2>4
        <3>2. done => PermitKept(j)
            BY <1>g, <1>h, <2>1, <3>1 DEF PermitKept
        <3>3. QED
            BY <1>r, <2>1, <2>4, <3>1, <3>2
    <2>5. QED
        BY <2>3, <2>4
<1>10. CASE TaskComplete(j)
    <2>1. PICK done \in BOOLEAN : Reach(j, "Completed", done) /\ DownloadEnds(j, done)
        BY <1>10 DEF TaskComplete
    <2>2. PermitReturned(j)
        <3>1. pc[j] \in HoldsPermit
            BY <1>10, <1>h DEF TaskComplete
        <3>2. pc'[j] \notin HoldsPermit
            BY <1>g, <1>h, <2>1 DEF DownloadEnds
        <3>3. QED
            BY <2>1, <3>1, <3>2 DEF DownloadEnds, PermitReturned
    <2>3. QED
        BY <1>r, <2>1, <2>2
<1>11. CASE TaskError(j)
    BY <1>11, <1>f, <1>k DEF TaskError, TaskGranted
<1>12. QED
    BY <1>1, <1>2, <1>3, <1>4, <1>5, <1>6, <1>7, <1>8, <1>9, <1>10, <1>11 DEF Task

\* A task that runs has its place in the code, ...
LEMMA TaskRuns ==
    ASSUME NEW j \in Jobs, Task(j) \/ TaskProgress(j)
    PROVE  pc[j] # "idle"
BY DEF Task, TaskStart, TaskResolve, TaskProbed, TaskProceed, TaskGranted, TaskPrepare,
    TaskLaunch, TaskTransferred, TaskProgress, TaskBackoff, TaskPlace, TaskRename,
    TaskComplete, TaskError, TaskSettle, TaskUnmap

\* ... and is no command.
LEMMA TaskCommands ==
    ASSUME NEW j \in Jobs, Task(j)
    PROVE  UNCHANGED <<submitting, resuming>>
BY DEF Task, TaskStart, TaskResolve, TaskProbed, TaskProceed, TaskGranted, TaskPrepare,
    TaskLaunch, TaskTransferred, TaskBackoff, TaskPlace, TaskRename, TaskComplete,
    TaskError, TaskSettle, TaskUnmap, commands

\* A command is between its steps only for its own job, ...
LEMMA CommandsElsewhere ==
    ASSUME NEW j \in Jobs, Command(j), NEW k \in Jobs \ {j}, k \in submitting' \cup resuming'
    PROVE  k \in submitting \cup resuming
BY DEF Command, CreateJob, Submit, StartJob, CompleteJobSelection, SelectFormat,
    CompleteSelection, AuthorizeJob, PauseJob, ResumeJob, ResumeChecked, RetryJob,
    CancelJob, commands

\* ... and only submit starts a task.
LEMMA Submits ==
    ASSUME NEW j \in Jobs, Command(j)
    PROVE  pc'[j] = pc[j] \/ j \in submitting
<1>1. CASE Submit(j)
    BY <1>1 DEF Submit
<1>2. CASE ~Submit(j)
    BY <1>2 DEF Command, CreateJob, StartJob, CompleteJobSelection, SelectFormat,
        CompleteSelection, AuthorizeJob, PauseJob, ResumeJob, ResumeChecked, RetryJob,
        CancelJob
<1>3. QED
    BY <1>1, <1>2

\* A command goes on only with a job it has created or found.
LEMMA CommandKnown ==
    ASSUME Typed, NEW j \in Jobs, Command(j), KnownAt(j),
           mem[j].state # Absent => mem'[j].state # Absent,
           j \in submitting' \cup resuming'
    PROVE  mem'[j].state # Absent
<1>1. CASE CreateJob(j)
    <2>1. WithState(j, "Probing").state = "Probing"
        BY DEF WithState, Tables, Typed, Snapshot
    <2>2. mem'[j].state = "Probing"
        BY <1>1, <2>1, StoreAt DEF CreateJob
    <2>3. QED
        BY <2>2 DEF Absent
<1>2. CASE StartJob(j)
    BY <1>2 DEF StartJob, Exists
<1>3. CASE CompleteSelection(j)
    BY <1>3 DEF CompleteSelection, Absent
<1>4. CASE ResumeJob(j)
    BY <1>4 DEF ResumeJob, Absent
<1>5. CASE RetryJob(j)
    BY <1>5 DEF RetryJob, Absent
<1>6. CASE Submit(j) \/ ResumeChecked(j)
    BY <1>6 DEF Submit, ResumeChecked, KnownAt
<1>7. CASE AuthorizeJob(j) \/ PauseJob(j) \/ CancelJob(j)
    BY <1>7 DEF AuthorizeJob, PauseJob, CancelJob, commands, KnownAt
<1>8. QED
    BY <1>1, <1>2, <1>3, <1>4, <1>5, <1>6, <1>7
       DEF Command, CompleteJobSelection, SelectFormat

\* Jobs that are worked on have been created: every step keeps it so.
LEMMA KnownStep ==
    ASSUME ~StoreMayFail, IInv, DownIsBlank, Known, [Next]_vars
    PROVE  Known' /\ DownIsBlank'
<1>0. Typed /\ DownIsIdle
    BY DEF IInv
<1>a. Absent \notin Steerable \cup {"Probing", "Preparing", "Downloading", "PostProcessing",
                                    "Completed"}
    BY DEF Absent, Steerable, JobState
<1>1. ASSUME NEW j \in Jobs, Command(j)
      PROVE  Known' /\ DownIsBlank'
    <2>1. up' /\ Elsewhere(j) /\ shared' = shared
        BY <1>0, <1>1, WorkIsUp, WorkInside, CommandElsewhere
    <2>2. ASSUME KnownAt(j)
          PROVE  KnownAt(j)'
        <3>1. mem[j].state # Absent => mem'[j].state # Absent
            BY <1>0, <1>a, <1>1, <2>2, CommandMoves DEF Same, Steered
        <3>2. j \in submitting' \cup resuming' => mem'[j].state # Absent
            BY <1>0, <1>1, <2>2, <3>1, CommandKnown
        <3>3. pc'[j] # "idle" => mem'[j].state # Absent
            <4>1. pc'[j] = pc[j] \/ j \in submitting
                BY <1>1, Submits
            <4>2. QED
                BY <2>2, <3>1, <4>1 DEF KnownAt
        <3>4. QED
            BY <3>2, <3>3 DEF KnownAt
    <2>3. ASSUME NEW k \in Jobs \ shared, k # j
          PROVE  KnownAt(k)'
        <3>1. k \in submitting' \cup resuming' => k \in submitting \cup resuming
            BY <1>1, <2>3, CommandsElsewhere
        <3>2. KnownAt(k)
            BY <2>3 DEF Known
        <3>3. QED
            BY <2>1, <2>3, <3>1, <3>2 DEF Elsewhere, KnownAt
    <2>4. QED
        BY <2>1, <2>2, <2>3 DEF Known, DownIsBlank
<1>2. ASSUME NEW j \in Jobs, Task(j)
      PROVE  Known' /\ DownIsBlank'
    <2>1. up' /\ Elsewhere(j) /\ UNCHANGED <<submitting, resuming, shared>>
        BY <1>0, <1>2, WorkIsUp, WorkInside, TaskElsewhere, TaskCommands
    <2>2. ASSUME j \notin shared
          PROVE  mem'[j].state # Absent
        <3>1. mem[j].state # Absent
            BY <1>2, <2>2, TaskRuns DEF Known, KnownAt
        <3>2. ActiveAt(j)
            BY <2>2 DEF IInv, ActiveHasTask, ActiveAt
        <3>3. QED
            BY <1>0, <1>a, <1>2, <3>1, <3>2, TaskMoves DEF Same, Steered
    <2>3. QED
        BY <2>1, <2>2 DEF Elsewhere, Known, KnownAt, DownIsBlank
<1>3. ASSUME NEW j \in Jobs, TaskProgress(j) \/ MarkInterrupted(j) \/ Another(j)
      PROVE  Known' /\ DownIsBlank'
    <2>1. UNCHANGED <<up, mem, pc, submitting, resuming>> /\ shared \subseteq shared'
        BY <1>0, <1>3, MarkAt, AnotherOutside DEF TaskProgress, outside, memory, commands
    <2>2. QED
        BY <2>1 DEF Known, KnownAt, DownIsBlank
<1>4. CASE Crash
    BY <1>4 DEF Crash, Known, KnownAt, DownIsBlank
<1>5. CASE Restart
    BY <1>0, <1>5 DEF Restart, Known, KnownAt, DownIsIdle, DownIsBlank, commands
<1>6. CASE ListActive
    BY <1>6, ListAt DEF Known, KnownAt, DownIsBlank
<1>7. CASE UNCHANGED vars
    BY <1>7 DEF vars, outside, Known, KnownAt, DownIsBlank
<1>8. QED
    BY <1>1, <1>2, <1>3, <1>4, <1>5, <1>6, <1>7 DEF Next

\* Every step keeps memory and table together while the process runs.
LEMMA SyncedStep ==
    ASSUME ~StoreMayFail, IInv, Synced, [Next]_vars
    PROVE  Synced'
<1>0. Typed /\ DownIsIdle /\ Marks
    BY DEF IInv
<1>1. ASSUME NEW j \in Jobs, Command(j) \/ Task(j) \/ TaskProgress(j)
      PROVE  Synced'
    <2>1. up /\ RowFollows(j) /\ shared' = shared
        BY <1>0, <1>1, WorkIsUp, WorkInside, WorkFollows
    <2>2. j \notin shared => mem'[j] = db'[j]
        BY <1>0, <1>1, <2>1, StepSynced DEF Synced
    <2>3. QED
        BY <2>1, <2>2 DEF RowFollows, Synced
<1>2. ASSUME NEW j \in Jobs, MarkInterrupted(j)
      PROVE  Synced'
    BY <1>0, <1>2, MarkAt DEF MarkInterrupted, Marks, Synced
<1>3. ASSUME NEW j \in Jobs, Another(j)
      PROVE  Synced'
    BY <1>0, <1>3, AnotherOutside DEF Synced
<1>4. CASE Crash \/ Restart
    BY <1>4 DEF Crash, Restart, Synced
<1>5. CASE ListActive
    BY <1>5, ListAt DEF Synced
<1>6. CASE UNCHANGED vars
    BY <1>6 DEF vars, outside, Synced
<1>7. QED
    BY <1>1, <1>2, <1>3, <1>4, <1>5, <1>6 DEF Next

\* What the permit of j says of the slots.
LEMMA SlotsMove ==
    ASSUME NEW j \in Jobs, Elsewhere(j)
    PROVE  /\ PermitKept(j) => Holders' = Holders
           /\ PermitTaken(j) => Holders' = Holders \cup {j} /\ j \notin Holders
           /\ PermitReturned(j) => Holders' = Holders \ {j} /\ j \in Holders
BY DEF Holders, Elsewhere, PermitKept, PermitTaken, PermitReturned

\* A permit is taken only if there is one.
LEMMA PermitGranted ==
    ASSUME Typed, NEW j \in Jobs, Task(j), PermitTaken(j)
    PROVE  permits > 0
<1>1. permits \in Nat
    BY DEF Typed
<1>2. CASE TaskGranted(j)
    BY <1>2 DEF TaskGranted
<1>3. CASE ~TaskGranted(j)
    <2>g. \A label : Goto(j, label) => pc'[j] = label
        BY DEF Goto, Tables, Typed
    <2>h. /\ {"prepare", "launch", "transfer", "backoff", "place", "rename", "complete"}
                  \subseteq HoldsPermit
          /\ {"idle", "start", "resolve", "probe", "proceed", "wait", "error", "settle",
              "unmap"} \cap HoldsPermit = {}
        BY DEF HoldsPermit
    <2>1. pc[j] \notin HoldsPermit => pc'[j] \notin HoldsPermit
        BY <1>3, <2>g, <2>h DEF Task, TaskStart, TaskResolve, TaskProbed, TaskProceed,
            TaskPrepare, TaskLaunch, TaskTransferred, TaskBackoff, TaskPlace, TaskRename,
            TaskComplete, TaskError, TaskSettle, TaskUnmap, NextEngine, ProbeEnds
    <2>2. QED
        BY <2>1 DEF PermitTaken
<1>4. QED
    BY <1>2, <1>3

\* Then a slot is free.
LEMMA SlotFree ==
    ASSUME IInv, permits > 0
    PROVE  Lifecycle!Cardinality(Holders) < concurrency
<1>1. Cardinality(Holders) < concurrency
    <2>1. permits \in Nat /\ permits + Cardinality(Holders) = concurrency
        BY DEF IInv, PermitsConserved, Typed
    <2>2. QED
        BY <2>1, HoldersFinite
<1>2. Lifecycle!Cardinality(Holders) = Cardinality(Holders)
    BY DEF Lifecycle!Cardinality, Cardinality
<1>3. QED
    BY <1>1, <1>2

\* The recorded state as JobLifecycle sees it.
Recorded == [k \in Jobs |-> db[k].state]

\* A step that changes the row of j alone changes its recorded state.
LEMMA RecordedMoves ==
    ASSUME NEW j \in Jobs, \A k \in Jobs \ {j} : db'[k] = db[k]
    PROVE  /\ Recorded' = [Recorded EXCEPT ![j] = db'[j].state]
           /\ Recorded[j] = db[j].state
           /\ db'[j].state = db[j].state => Recorded' = Recorded
BY DEF Recorded

\* Both modules read the same table of transitions.
LEMMA SameStates ==
    /\ Lifecycle!JobState = JobState /\ Lifecycle!Absent = Absent
    /\ Lifecycle!Active = Active /\ Lifecycle!Terminal = Terminal
    /\ \A s, t : Lifecycle!CanTransition(s, t) <=> CanTransition(s, t)
BY DEF Lifecycle!JobState, JobState, Lifecycle!Absent, Absent, Lifecycle!Active, Active,
    Lifecycle!Terminal, Terminal, Lifecycle!CanTransition, CanTransition,
    Lifecycle!Successors, Successors

\* A command is a creation, a steering, or nothing that is recorded.
LEMMA CommandMaps ==
    ASSUME ~StoreMayFail, Typed, EntryIffTask, NEW j \in Jobs, KnownAt(j),
           mem[j] = db[j], mem'[j] = db'[j], Command(j)
    PROVE  \/ Lifecycle!Create(j) \/ Lifecycle!Steer(j)
           \/ UNCHANGED <<Recorded, Holders>>
<1>1. Elsewhere(j) /\ RowFollows(j)
    BY CommandElsewhere, WorkFollows
<1>2. Holders' = Holders
    <2>1. PermitKept(j)
        BY CommandEntry DEF EntryIffTask, PermitKept, HoldsPermit
    <2>2. QED
        BY <1>1, <2>1, SlotsMove
<1>3. /\ Recorded' = [Recorded EXCEPT ![j] = mem'[j].state]
      /\ Recorded[j] = mem[j].state
      /\ Same(j) => Recorded' = Recorded
    BY <1>1, RecordedMoves DEF RowFollows, Same
<1>4. CASE Same(j)
    BY <1>2, <1>3, <1>4
<1>5. CASE mem[j].state = Absent /\ mem'[j].state = "Probing"
    BY <1>2, <1>3, <1>5, SameStates DEF Lifecycle!Create, Lifecycle!Becomes, Recorded
<1>6. CASE Steered(j)
    BY <1>2, <1>3, <1>6, SameStates
       DEF Lifecycle!Steer, Lifecycle!Becomes, Recorded, Steered, Steerable
<1>7. QED
    BY <1>4, <1>5, <1>6, CommandMoves

\* A step of a task is an admission, an advance, a steering, a withdrawal, or nothing
\* that is recorded.
LEMMA TaskMaps ==
    ASSUME ~StoreMayFail, IInv, NEW j \in Jobs, KnownAt(j), ActiveAt(j),
           mem[j] = db[j], mem'[j] = db'[j], Task(j)
    PROVE  \/ Lifecycle!Admit(j) \/ Lifecycle!Advance(j) \/ Lifecycle!Steer(j)
           \/ Lifecycle!Withdraw(j) \/ UNCHANGED <<Recorded, Holders>>
<1>0. Typed /\ Elsewhere(j) /\ RowFollows(j)
    BY TaskElsewhere, WorkFollows DEF IInv
<1>1. mem[j].state # Absent
    BY TaskRuns DEF KnownAt
<1>2. /\ PermitKept(j) => Holders' = Holders
      /\ PermitTaken(j) => Holders' = Holders \cup {j} /\ j \notin Holders
      /\ PermitReturned(j) => Holders' = Holders \ {j} /\ j \in Holders
    BY <1>0, SlotsMove
<1>3. /\ Recorded' = [Recorded EXCEPT ![j] = mem'[j].state]
      /\ Recorded[j] = mem[j].state
      /\ Same(j) => Recorded' = Recorded
    BY <1>0, RecordedMoves DEF RowFollows, Same
<1>4. CASE PermitTaken(j) /\ permits > 0
           /\ mem[j].state = "Queued" /\ mem'[j].state = "Preparing"
    <2>1. Lifecycle!Admit(j)
        BY <1>2, <1>3, <1>4, SlotFree DEF Lifecycle!Admit, Lifecycle!Becomes, Recorded
    <2>2. QED
        BY <2>1
<1>5. CASE (PermitKept(j) \/ PermitReturned(j)) /\ Same(j)
    BY <1>2, <1>3, <1>5 DEF Lifecycle!Withdraw, Recorded
<1>6. CASE (PermitKept(j) \/ PermitReturned(j)) /\ Steered(j)
    BY <1>2, <1>3, <1>6, SameStates
       DEF Lifecycle!Steer, Lifecycle!Becomes, Recorded, Steered, Steerable
<1>7. CASE /\ PermitKept(j) /\ pc[j] \in HoldsPermit
           /\ CanTransition(mem[j].state, mem'[j].state)
           /\ mem'[j].state \in {"Downloading", "PostProcessing"}
    <2>1. mem'[j].state \in Active /\ mem'[j].state # "Completed"
        BY <1>7 DEF Active
    <2>2. j \in Holders
        BY <1>7 DEF Holders
    <2>3. QED
        BY <1>2, <1>3, <1>7, <2>1, <2>2, SameStates
           DEF Lifecycle!Advance, Lifecycle!Becomes, Recorded
<1>8. CASE /\ PermitReturned(j)
           /\ CanTransition(mem[j].state, mem'[j].state)
           /\ mem'[j].state = "Completed"
    BY <1>2, <1>3, <1>8, SameStates DEF Lifecycle!Advance, Lifecycle!Becomes, Recorded
<1>9. QED
    BY <1>0, <1>1, <1>4, <1>5, <1>6, <1>7, <1>8, TaskMoves

\* What this instance does with a job another one has worked on needs a slot as ever.
LEMMA StrayMaps ==
    ASSUME IInv, Typed', NEW j \in Jobs, j \in shared, Command(j) \/ Task(j) \/ TaskProgress(j)
    PROVE  Lifecycle!Stray(j)
<1>0. Typed /\ EntryIffTask
    BY DEF IInv
<1>1. RowFollows(j) /\ UNCHANGED <<concurrency, shared>>
    BY <1>0, WorkFollows, WorkInside
<1>2. /\ Recorded' = [Recorded EXCEPT ![j] = db'[j].state]
      /\ db'[j].state \in JobState \cup {Absent}
    <2>1. db'[j] \in Snapshot
        BY DEF Tables, Typed
    <2>2. QED
        BY <1>1, <2>1, RecordedMoves DEF RowFollows, Snapshot
<1>3. \/ Holders' \in {Holders, Holders \ {j}}
      \/ Lifecycle!Cardinality(Holders) < concurrency /\ Holders' = Holders \cup {j}
    <2>1. CASE Command(j)
        <3>1. PermitKept(j)
            BY <1>0, <2>1, CommandEntry DEF EntryIffTask, PermitKept, HoldsPermit
        <3>2. QED
            BY <1>0, <2>1, <3>1, CommandElsewhere, SlotsMove
    <2>2. CASE Task(j)
        <3>1. PermitKept(j) \/ PermitTaken(j) \/ PermitReturned(j)
            BY <1>0, <2>2, TaskPermit
        <3>2. PermitTaken(j) => Lifecycle!Cardinality(Holders) < concurrency
            BY <1>0, <2>2, PermitGranted, SlotFree
        <3>3. QED
            BY <1>0, <2>2, <3>1, <3>2, TaskElsewhere, SlotsMove
    <2>3. CASE TaskProgress(j)
        BY <2>3 DEF TaskProgress, Holders
    <2>4. QED
        BY <2>1, <2>2, <2>3
<1>4. QED
    BY <1>1, <1>2, <1>3, SameStates DEF Lifecycle!Stray, Lifecycle!Becomes, Recorded

\* What another instance does is a takeover, or nothing the life cycle knows of.
LEMMA AnotherMaps ==
    ASSUME Typed, NEW j \in Jobs, Another(j)
    PROVE  Lifecycle!TakeOver(j) \/ UNCHANGED <<Recorded, Holders, concurrency, shared>>
<1>1. Holders' = Holders /\ concurrency' = concurrency
    BY AnotherOutside DEF Holders
<1>2. CASE AnotherSaves(j)
    <2>1. PICK row \in OtherRows : db' = [db EXCEPT ![j] = row]
        BY <1>2 DEF AnotherSaves
    <2>2. row.state \in JobState
        BY OthersAssumption
    <2>3. Recorded' = [Recorded EXCEPT ![j] = row.state]
        BY <2>1 DEF Recorded, Tables, Typed
    <2>4. shared' = shared \cup {j}
        BY <1>2 DEF AnotherSaves
    <2>5. QED
        BY <1>1, <2>2, <2>3, <2>4, SameStates
           DEF Lifecycle!TakeOver, Lifecycle!Becomes, Recorded
<1>3. CASE AnotherLeases(j)
    <2>1. db' = db /\ shared' = shared \cup {j}
        BY <1>3 DEF AnotherLeases
    <2>2. Recorded' = [Recorded EXCEPT ![j] = Recorded[j]]
        BY <2>1 DEF Recorded
    <2>3. QED
        BY <1>1, <2>1, <2>2 DEF Lifecycle!TakeOver, Lifecycle!Becomes, Recorded
<1>4. CASE AnotherPlaces(j)
    BY <1>1, <1>4 DEF AnotherPlaces, outside, Recorded
<1>5. QED
    BY <1>2, <1>3, <1>4 DEF Another

\* A start interrupts the active jobs it has listed, while nobody holds a slot.
LEMMA MarkMaps ==
    ASSUME IInv, NEW j \in Jobs, MarkInterrupted(j)
    PROVE  Lifecycle!Step(j) \/ Lifecycle!Stray(j)
<1>0. Typed /\ DownIsIdle /\ Marks
    BY DEF IInv
<1>1. listed[j] # NoSnapshot /\ ~up
    BY <1>0 DEF MarkInterrupted, Marks
<1>2. Holders = {} /\ Holders' = Holders /\ UNCHANGED <<concurrency, shared>>
    BY <1>0, <1>1, MarkAt DEF DownIsIdle, Holders, HoldsPermit
<1>3. Recorded' = [Recorded EXCEPT ![j] = "Interrupted"]
    BY <1>0, MarkAt, RecordedMoves
<1>4. CASE j \in shared
    <2>1. "Interrupted" \in JobState
        BY DEF JobState
    <2>2. QED
        BY <1>2, <1>3, <1>4, <2>1, SameStates DEF Lifecycle!Stray, Lifecycle!Becomes, Recorded
<1>5. CASE j \notin shared
    <2>1. Recorded[j] \in Active
        BY <1>0, <1>1, <1>5 DEF Marks, Recorded
    <2>2. Lifecycle!Interrupt(j)
        BY <1>2, <1>3, <2>1, SameStates DEF Lifecycle!Interrupt, Lifecycle!Becomes, Recorded
    <2>3. QED
        BY <1>2, <1>5, <2>2 DEF Lifecycle!Step
<1>6. QED
    BY <1>4, <1>5

\* Every step is one of JobLifecycle or changes nothing it knows of.
LEMMA StepMaps ==
    ASSUME ~StoreMayFail, IInv, IInv', Known, Synced, Synced', [Next]_vars
    PROVE  Lifecycle!Next \/ UNCHANGED <<Recorded, Holders, concurrency, shared>>
<1> DEFINE Maps == Lifecycle!Next \/ UNCHANGED <<Recorded, Holders, concurrency, shared>>
<1>0. Typed /\ Typed' /\ EntryIffTask /\ DownIsIdle
    BY DEF IInv
<1>1. ASSUME NEW j \in Jobs, Command(j) \/ Task(j) \/ TaskProgress(j)
      PROVE  Maps
    <2>1. up /\ up' /\ UNCHANGED <<concurrency, shared>>
        BY <1>0, <1>1, WorkIsUp, WorkInside
    <2>2. CASE j \in shared
        BY <1>0, <1>1, <2>2, StrayMaps DEF Lifecycle!Next
    <2>3. CASE j \notin shared
        <3>1. KnownAt(j) /\ ActiveAt(j) /\ mem[j] = db[j] /\ mem'[j] = db'[j]
            BY <2>1, <2>3 DEF Known, Synced, IInv, ActiveHasTask, ActiveAt
        <3>2. CASE TaskProgress(j)
            <4>1. RowFollows(j) /\ UNCHANGED <<mem, pc>>
                BY <1>0, <3>2, WorkFollows DEF TaskProgress, memory
            <4>2. UNCHANGED <<Recorded, Holders>>
                BY <3>1, <4>1 DEF RowFollows, Recorded, Holders
            <4>3. QED
                BY <2>1, <4>2
        <3>3. CASE Command(j)
            BY <1>0, <2>1, <2>3, <3>1, <3>3, CommandMaps DEF Lifecycle!Next, Lifecycle!Step
        <3>4. CASE Task(j)
            BY <2>1, <2>3, <3>1, <3>4, TaskMaps DEF Lifecycle!Next, Lifecycle!Step
        <3>5. QED
            BY <1>1, <3>2, <3>3, <3>4
    <2>4. QED
        BY <2>2, <2>3
<1>2. ASSUME NEW j \in Jobs, MarkInterrupted(j) \/ Another(j)
      PROVE  Maps
    BY <1>0, <1>2, MarkMaps, AnotherMaps DEF Lifecycle!Next
<1>3. CASE Crash
    <2>1. Holders' = {} /\ Recorded' = Recorded /\ UNCHANGED <<concurrency, shared>>
        BY <1>3 DEF Crash, Holders, HoldsPermit, Recorded
    <2>2. QED
        BY <2>1 DEF Lifecycle!Next, Lifecycle!Halt, Recorded
<1>4. CASE Restart
    BY <1>4 DEF Restart, Recorded, Holders
<1>5. CASE ListActive
    BY <1>5, ListAt DEF Recorded, Holders
<1>6. CASE UNCHANGED vars
    BY <1>6 DEF vars, outside, Recorded, Holders
<1>7. QED
    BY <1>1, <1>2, <1>3, <1>4, <1>5, <1>6 DEF Next

\* With a store that does not fail the executor implements the life cycle: what is
\* recorded of a job changes only as JobLifecycle says, over every interleaving, crash
\* and restart, and whatever other instances do to it.
THEOREM LifecycleImplemented ==
    ASSUME ~StoreMayFail
    PROVE  Spec => ImplementsLifecycle
<1> DEFINE Inv == DownIsBlank /\ Known /\ Synced
<1>1. Init => Inv /\ Lifecycle!Init
    <2> SUFFICES ASSUME Init PROVE Inv /\ Lifecycle!Init
        OBVIOUS
    <2>1. Inv
        BY DEF Init, DownIsBlank, Known, KnownAt, Synced
    <2>2. Holders = {} /\ shared = {}
        BY DEF Init, Holders, HoldsPermit
    <2>3. Recorded = [k \in Jobs |-> Absent]
        BY DEF Init, Recorded, NoSnapshot
    <2>4. concurrency \in 1..8
        BY ConcurrencyAssumption DEF Init
    <2>5. QED
        BY <2>1, <2>2, <2>3, <2>4, SameStates DEF Lifecycle!Init, Recorded
<1>2. IInv /\ Inv /\ [Next]_vars => Inv'
    BY KnownStep, SyncedStep
<1>3. IInv /\ IInv' /\ Inv /\ Inv' /\ [Next]_vars
          => [Lifecycle!Next]_<<[j \in Jobs |-> db[j].state], Holders, concurrency, shared>>
    BY StepMaps DEF Recorded
<1>4. Spec => [](IInv /\ Inv)
    BY <1>1, <1>2, Inductive, PTL DEF Spec
<1>5. Spec => Lifecycle!Init
              /\ [][Lifecycle!Next]_<<[j \in Jobs |-> db[j].state], Holders, concurrency, shared>>
    BY <1>1, <1>3, <1>4, PTL DEF Spec
<1>6. QED
    BY <1>5, PTL DEF ImplementsLifecycle, Lifecycle!Spec

================================================================================
