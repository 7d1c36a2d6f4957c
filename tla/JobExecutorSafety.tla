--------------------------- MODULE JobExecutorSafety ---------------------------
(***************************************************************************)
(* The safety properties of the job executor for any finite set of jobs,   *)
(* any number of permits, engines and retries, whether or not the store    *)
(* may fail, and whatever other instances save.  First types, what a step  *)
(* leaves alone, the entries and the permits; then the rest of the         *)
(* inductive invariant and what follows from it; last, from invariants of  *)
(* their own, that ends are final and that completed jobs have files.      *)
(***************************************************************************)
EXTENDS JobExecutorProps, FiniteSetTheorems, SequenceTheorems, TLAPS

\* The snapshots in memory and in the database.
Tables == mem \in [Jobs -> Snapshot] /\ db \in [Jobs -> Snapshot]

\* TypeOK but for the bound on permits, which follows from PermitsConserved.
Typed ==
    /\ up \in BOOLEAN
    /\ concurrency \in Concurrencies
    /\ marking \in BOOLEAN
    /\ listed \in [Jobs -> Snapshot]
    /\ Tables
    /\ leases \subseteq Jobs \X (1..NEngines)
    /\ auth \subseteq Jobs
    /\ token \in [Jobs -> {"none", "task", "orphan"}]
    /\ stop \in [Jobs -> BOOLEAN]
    /\ pc \in [Jobs -> PC]
    /\ attempt \in [Jobs -> 1..NEngines + 1]
    /\ tries \in [Jobs -> 0..MaxTries]
    /\ permits \in Nat
    /\ waiting \in Seq(Jobs)
    /\ resuming \subseteq Jobs
    /\ submitting \subseteq Jobs
    /\ shared \subseteq Jobs
    /\ placed \subseteq Jobs
    /\ replaced \subseteq Jobs
    /\ unseen \in [Jobs -> SUBSET Jobs]
    /\ unserved \subseteq Jobs

--------------------------------------------------------------------------------
(* What the operators of the scheduler preserve.                            *)

\* A snapshot with another state is a snapshot.
LEMMA WithStateTyped ==
    ASSUME Typed, NEW j \in Jobs, NEW s \in JobState
    PROVE  WithState(j, s) \in Snapshot
<1>1. mem[j] \in Snapshot
    BY DEF Tables, Typed
<1>2. PICK t \in JobState \cup {Absent}, n \in BOOLEAN :
          mem[j] = [state |-> t, needsAuth |-> n]
    BY <1>1 DEF Snapshot
<1>3. WithState(j, s) = [state |-> s, needsAuth |-> n]
    BY <1>2 DEF WithState
<1>4. QED
    BY <1>3 DEF Snapshot

\* Storing a snapshot keeps the tables' types.
LEMMA StoreTyped ==
    ASSUME Typed, NEW j \in Jobs, NEW s \in Snapshot, NEW saved, Store(j, s, saved)
    PROVE  Tables'
BY DEF Tables, Typed, Store

\* So does a transition of the scheduler, ...
LEMMA TransitionTyped ==
    ASSUME Typed, NEW j \in Jobs, NEW s \in JobState, NEW saved, Transition(j, s, saved)
    PROVE  Tables'
BY WithStateTyped, StoreTyped DEF Transition

\* ... one of the executor, ...
LEMMA ReachTyped ==
    ASSUME Typed, NEW j \in Jobs, NEW s \in JobState, NEW done, Reach(j, s, done)
    PROVE  Tables'
BY TransitionTyped DEF Reach, Tables, Typed

\* ... a failure, ...
LEMMA FailTyped ==
    ASSUME Typed, NEW j \in Jobs, NEW done, Fail(j, done)
    PROVE  Tables'
<1>1. "Failed" \in JobState
    BY DEF JobState
<1>2. QED
    BY <1>1, WithStateTyped, StoreTyped DEF Fail, Tables, Typed

\* ... an engine's failure ...
LEMMA FailEngineTyped ==
    ASSUME Typed, NEW j \in Jobs, NEW canceled, NEW done, FailEngine(j, canceled, done)
    PROVE  Tables'
BY FailTyped DEF FailEngine, Tables, Typed

\* ... and the plan of a probe.
LEMMA SetPlanTyped ==
    ASSUME Typed, NEW j \in Jobs, NEW plan \in Plans, NEW done, SetPlan(j, plan, done)
    PROVE  Tables'
<1>1. plan \in AnyPlan
    BY PlansAssumption
<1>2. plan \in Snapshot
    <2>1. {"Queued", "AwaitingSelection"} \subseteq JobState
        BY DEF JobState
    <2>2. \A s \in JobState, n \in BOOLEAN : [state |-> s, needsAuth |-> n] \in Snapshot
        BY DEF Snapshot
    <2>3. QED
        BY <1>1, <2>1, <2>2, Zenon DEF AnyPlan
<1>3. QED
    BY <1>2, StoreTyped DEF SetPlan, Resave, Tables, Typed

\* A task moves to a label.
LEMMA GotoTyped ==
    ASSUME Typed, NEW j \in Jobs, NEW label \in PC, Goto(j, label)
    PROVE  pc' \in [Jobs -> PC]
BY DEF Tables, Typed, Goto

--------------------------------------------------------------------------------
(* Types.                                                                   *)

\* The first state has the types.
LEMMA TypedInit == Init => Typed
<1> SUFFICES ASSUME Init PROVE Typed
    OBVIOUS
<1>1. NoSnapshot \in Snapshot /\ "idle" \in PC
    BY DEF NoSnapshot, Snapshot, Absent, PC
<1>2. <<>> \in Seq(Jobs)
    OBVIOUS
<1>3. concurrency \in 1..8
    BY ConcurrencyAssumption DEF Init
<1>4. mem \in [Jobs -> Snapshot] /\ db \in [Jobs -> Snapshot] /\ listed \in [Jobs -> Snapshot]
    BY <1>1 DEF Init
<1>5. unseen \in [Jobs -> SUBSET Jobs]
    BY DEF Init
<1>6. leases \subseteq Jobs \X (1..NEngines) /\ auth \subseteq Jobs
    BY DEF Init
<1>7. /\ stop \in [Jobs -> BOOLEAN] /\ token \in [Jobs -> {"none", "task", "orphan"}]
      /\ pc \in [Jobs -> PC]
    BY <1>1 DEF Init
<1>8. attempt \in [Jobs -> 1..NEngines + 1] /\ tries \in [Jobs -> 0..MaxTries]
    BY EnginesAssumption DEF Init
<1>9. permits \in Nat /\ waiting \in Seq(Jobs)
    BY <1>2, <1>3 DEF Init
<1>10. /\ resuming \subseteq Jobs /\ submitting \subseteq Jobs /\ shared \subseteq Jobs
       /\ placed \subseteq Jobs /\ replaced \subseteq Jobs /\ unserved \subseteq Jobs
    BY DEF Init
<1>11. /\ up \in BOOLEAN /\ marking \in BOOLEAN /\ concurrency \in Concurrencies
    BY DEF Init
<1>12. QED
    BY <1>4, <1>5, <1>6, <1>7, <1>8, <1>9, <1>10, <1>11 DEF Tables, Typed

\* Every command of the window keeps the types.
LEMMA TypedCommand ==
    ASSUME Typed, NEW j \in Jobs, Command(j)
    PROVE  Typed'
<1> USE DEF Tables, Typed, outside, memory, commands, engine, semaphore, files, history
<1>0. {"Probing", "Queued", "Paused", "Canceled"} \subseteq JobState
    BY DEF JobState
<1>1. CASE CreateJob(j)
    BY <1>0, <1>1, WithStateTyped, StoreTyped DEF CreateJob
<1>2. CASE Submit(j)
    BY <1>2 DEF Submit, PC
<1>3. CASE StartJob(j)
    BY <1>3 DEF StartJob
<1>4. CASE CompleteSelection(j)
    BY <1>0, <1>4, WithStateTyped, StoreTyped DEF CompleteSelection
<1>5. CASE AuthorizeJob(j)
    BY <1>5 DEF AuthorizeJob
<1>6. CASE PauseJob(j)
    <2>1. stop' \in [Jobs -> BOOLEAN]
        BY <1>6 DEF PauseJob
    <2>2. QED
        BY <1>0, <1>6, <2>1, TransitionTyped DEF PauseJob
<1>7. CASE ResumeJob(j)
    BY <1>7 DEF ResumeJob
<1>8. CASE ResumeChecked(j)
    BY <1>0, <1>8, TransitionTyped DEF ResumeChecked
<1>9. CASE RetryJob(j)
    BY <1>0, <1>9, TransitionTyped DEF RetryJob
<1>10. CASE CancelJob(j)
    <2>1. stop' \in [Jobs -> BOOLEAN]
        BY <1>10 DEF CancelJob
    <2>2. QED
        BY <1>0, <1>10, <2>1, TransitionTyped DEF CancelJob
<1>11. QED
    BY <1>1, <1>2, <1>3, <1>4, <1>5, <1>6, <1>7, <1>8, <1>9, <1>10
       DEF Command, CompleteJobSelection, SelectFormat


\* A task does not run past the route while it uses an engine.
OnRoute == \A j \in Jobs : pc[j] \in UsesEngine => attempt[j] <= NEngines

\* Every step of a task keeps the types.
LEMMA TypedTask ==
    ASSUME Typed, OnRoute, NEW j \in Jobs, Task(j)
    PROVE  Typed'
<1> USE DEF Tables, Typed, outside, memory, commands, engine, semaphore, files, history
<1> DEFINE Control == pc \in [Jobs -> PC] /\ permits \in Nat
                      /\ attempt \in [Jobs -> 1..NEngines + 1]
                      /\ tries \in [Jobs -> 0..MaxTries]
<1>0. /\ {"Queued", "Preparing", "Downloading", "PostProcessing", "Completed"}
             \subseteq JobState
      /\ {"resolve", "probe", "proceed", "wait", "prepare", "launch", "transfer",
          "backoff", "place", "rename", "complete", "error", "settle", "unmap", "idle"}
             \subseteq PC
    BY DEF JobState, PC, HoldsPermit
<1>g. \A label \in PC : Goto(j, label) => pc' \in [Jobs -> PC]
    BY GotoTyped
<1>d. \A done : DownloadEnds(j, done) => pc' \in [Jobs -> PC] /\ permits' \in Nat
    BY <1>0, <1>g DEF DownloadEnds
<1>p. \A done : ProbeEnds(j, done) => pc' \in [Jobs -> PC]
    BY <1>0, <1>g DEF ProbeEnds
<1>n. \A label \in PC : NextEngine(j, label) /\ attempt[j] <= NEngines =>
          pc' \in [Jobs -> PC] /\ attempt' \in [Jobs -> 1..NEngines + 1]
    <2>1. attempt[j] <= NEngines => attempt[j] + 1 \in 1..NEngines + 1
        BY EnginesAssumption
    <2>2. QED
        BY <1>g, <2>1 DEF NextEngine
<1>a. /\ [attempt EXCEPT ![j] = 1] \in [Jobs -> 1..NEngines + 1]
      /\ [tries EXCEPT ![j] = 0] \in [Jobs -> 0..MaxTries]
      /\ tries[j] < MaxTries => [tries EXCEPT ![j] = @ + 1] \in [Jobs -> 0..MaxTries]
      /\ attempt[j] <= NEngines => <<j, attempt[j]>> \in Jobs \X (1..NEngines)
    BY EnginesAssumption
<1>u. pc[j] \in UsesEngine => attempt[j] <= NEngines
    BY DEF OnRoute
<1>c. {"probe", "transfer"} \subseteq UsesEngine
    BY DEF UsesEngine
<1>r. \A s \in JobState : \A done : Reach(j, s, done) => Tables'
    BY ReachTyped
<1>f. \A done : Fail(j, done) => Tables'
    BY FailTyped
<1>e. \A canceled, done : FailEngine(j, canceled, done) => Tables'
    BY FailEngineTyped
<1>s. \A plan \in Plans : \A done : SetPlan(j, plan, done) => Tables'
    BY SetPlanTyped
<1>1. CASE TaskStart(j)
    <2>1. Tables'
        BY <1>0, <1>1, <1>r, <1>f DEF TaskStart
    <2>2. Control'
        BY <1>1, <1>0, <1>a, <1>g, <1>p DEF TaskStart
    <2>3. QED
        BY <1>1, <2>1, <2>2 DEF TaskStart
<1>2. CASE TaskResolve(j)
    <2>1. Tables'
        BY <1>2, <1>e DEF TaskResolve
    <2>2. Control'
        BY <1>2, <1>0, <1>g, <1>n, <1>p DEF TaskResolve
    <2>3. QED
        BY <1>2, <1>a, <2>1, <2>2 DEF TaskResolve
<1>3. CASE TaskProbed(j)
    <2>1. Tables'
        BY <1>3, <1>e, <1>s DEF TaskProbed, NextEngine
    <2>2. Control'
        BY <1>3, <1>0, <1>c, <1>g, <1>n, <1>p, <1>u DEF TaskProbed
    <2>3. QED
        BY <1>3, <2>1, <2>2 DEF TaskProbed
<1>4. CASE TaskProceed(j)
    <2>1. Tables'
        BY <1>4 DEF TaskProceed
    <2>2. Control'
        BY <1>4, <1>0, <1>g DEF TaskProceed
    <2>3. Append(waiting, j) \in Seq(Jobs)
        BY AppendProperties
    <2>4. QED
        BY <1>4, <2>1, <2>2, <2>3 DEF TaskProceed
<1>5. CASE TaskGranted(j)
    <2>1. Tables'
        BY <1>5, <1>0, <1>r DEF TaskGranted
    <2>2. Control'
        BY <1>5, <1>0, <1>a, <1>g DEF TaskGranted
    <2>3. QED
        BY <1>5, <2>1, <2>2 DEF TaskGranted
<1>6. CASE TaskPrepare(j)
    <2>1. Tables'
        BY <1>6, <1>e DEF TaskPrepare, Resave
    <2>2. Control'
        BY <1>6, <1>0, <1>d, <1>g, <1>n DEF TaskPrepare
    <2>3. QED
        BY <1>6, <1>a, <2>1, <2>2 DEF TaskPrepare
<1>7. CASE TaskLaunch(j)
    <2>1. Tables'
        BY <1>7, <1>0, <1>r DEF TaskLaunch
    <2>2. Control'
        BY <1>7, <1>0, <1>a, <1>d, <1>g DEF TaskLaunch
    <2>3. QED
        BY <1>7, <2>1, <2>2 DEF TaskLaunch
<1>8. CASE TaskTransferred(j)
    <2>1. Tables'
        BY <1>8, <1>e DEF TaskTransferred
    <2>2. Control'
        BY <1>8, <1>0, <1>a, <1>c, <1>d, <1>g, <1>n, <1>u DEF TaskTransferred
    <2>3. QED
        BY <1>8, <2>1, <2>2 DEF TaskTransferred
<1>9. CASE TaskBackoff(j)
    <2>1. Tables'
        BY <1>9 DEF TaskBackoff
    <2>2. Control'
        BY <1>9, <1>0, <1>g DEF TaskBackoff
    <2>3. QED
        BY <1>9, <2>1, <2>2 DEF TaskBackoff
<1>10. CASE TaskPlace(j)
    <2>1. Tables'
        BY <1>10, <1>0, <1>r DEF TaskPlace
    <2>2. Control'
        BY <1>10, <1>0, <1>g, <1>d DEF TaskPlace
    <2>3. QED
        BY <1>10, <2>1, <2>2 DEF TaskPlace
<1>11. CASE TaskRename(j)
    <2>1. Tables'
        BY <1>11 DEF TaskRename, Resave
    <2>2. Control'
        BY <1>11, <1>0, <1>g, <1>d DEF TaskRename
    <2>3. /\ placed' \subseteq Jobs /\ replaced' \subseteq Jobs
          /\ unseen' \in [Jobs -> SUBSET Jobs]
        <3>1. CASE MoveFile(j)
            BY <3>1 DEF MoveFile
        <3>2. CASE ~MoveFile(j)
            BY <1>11, <3>2 DEF TaskRename
        <3>3. QED
            BY <3>1, <3>2
    <2>4. QED
        BY <1>11, <2>1, <2>2, <2>3 DEF TaskRename
<1>12. CASE TaskComplete(j)
    <2>1. Tables'
        BY <1>12, <1>0, <1>r DEF TaskComplete
    <2>2. Control'
        BY <1>12, <1>0, <1>d DEF TaskComplete
    <2>3. QED
        BY <1>12, <2>1, <2>2 DEF TaskComplete
<1>13. CASE TaskError(j)
    <2>1. Tables'
        BY <1>13, <1>f DEF TaskError
    <2>2. Control'
        BY <1>13, <1>0, <1>g DEF TaskError
    <2>3. QED
        BY <1>13, <2>1, <2>2 DEF TaskError
<1>14. CASE TaskSettle(j)
    <2>1. Tables'
        BY <1>14 DEF TaskSettle
    <2>2. Control'
        BY <1>14, <1>0, <1>g DEF TaskSettle
    <2>3. QED
        BY <1>14, <2>1, <2>2 DEF TaskSettle
<1>15. CASE TaskUnmap(j)
    <2>1. Tables'
        BY <1>15 DEF TaskUnmap
    <2>2. Control'
        BY <1>15, <1>0, <1>a, <1>g DEF TaskUnmap
    <2>3. QED
        BY <1>15, <2>1, <2>2 DEF TaskUnmap
<1>16. QED
    BY <1>1, <1>2, <1>3, <1>4, <1>5, <1>6, <1>7, <1>8, <1>9, <1>10, <1>11, <1>12,
       <1>13, <1>14, <1>15 DEF Task

\* Every step keeps the types.
LEMMA TypedStep ==
    ASSUME Typed, OnRoute, [Next]_vars
    PROVE  Typed'
<1> USE DEF Tables, Typed, outside, memory, commands, engine, semaphore, files, history
<1>1. CASE \E j \in Jobs : Command(j)
    BY <1>1, TypedCommand
<1>2. CASE \E j \in Jobs : Task(j)
    BY <1>2, TypedTask
<1>3. CASE \E j \in Jobs : TaskProgress(j)
    BY <1>3 DEF TaskProgress, Resave
<1>4. ASSUME NEW j \in Jobs, MarkInterrupted(j)
      PROVE  Typed'
    <2>1. listed[j] \in Snapshot /\ NoSnapshot \in Snapshot
        BY DEF NoSnapshot, Snapshot, Absent
    <2>2. [listed[j] EXCEPT !.state = "Interrupted"] \in Snapshot
        BY <2>1 DEF Snapshot, JobState
    <2>3. db' \in [Jobs -> Snapshot] /\ listed' \in [Jobs -> Snapshot]
        BY <1>4, <2>1, <2>2 DEF MarkInterrupted
    <2>4. QED
        BY <1>4, <2>3 DEF MarkInterrupted
<1>5. CASE Crash
    <2>1. NoSnapshot \in Snapshot /\ "idle" \in PC
        BY DEF NoSnapshot, Snapshot, Absent, PC
    <2>2. /\ mem' \in [Jobs -> Snapshot] /\ pc' \in [Jobs -> PC]
          /\ token' \in [Jobs -> {"none", "task", "orphan"}]
          /\ stop' \in [Jobs -> BOOLEAN]
        BY <1>5, <2>1 DEF Crash
    <2>3. /\ attempt' \in [Jobs -> 1..NEngines + 1] /\ tries' \in [Jobs -> 0..MaxTries]
          /\ permits' \in Nat /\ waiting' \in Seq(Jobs)
        BY <1>5, ConcurrencyAssumption, EnginesAssumption DEF Crash
    <2>4. unseen' \in [Jobs -> SUBSET Jobs] /\ UNCHANGED <<listed, db, leases>>
        BY <1>5 DEF Crash
    <2>5. QED
        BY <1>5, <2>2, <2>3, <2>4 DEF Crash
<1>6. CASE Restart
    BY <1>6 DEF Restart
<1>7. CASE ListActive
    <2>1. NoSnapshot \in Snapshot
        BY DEF NoSnapshot, Snapshot, Absent
    <2>2. listed' \in [Jobs -> Snapshot]
        BY <1>7, <2>1 DEF ListActive
    <2>3. QED
        BY <1>7, <2>2 DEF ListActive
<1>8. ASSUME NEW j \in Jobs, Another(j)
      PROVE  Typed'
    <2>1. CASE AnotherSaves(j)
        <3>1. OtherRows \subseteq Snapshot
            BY OthersAssumption DEF Snapshot
        <3>2. QED
            BY <2>1, <3>1 DEF AnotherSaves
    <2>2. CASE AnotherLeases(j)
        BY <2>2 DEF AnotherLeases
    <2>3. CASE AnotherPlaces(j)
        BY <2>3 DEF AnotherPlaces
    <2>4. QED
        BY <1>8, <2>1, <2>2, <2>3 DEF Another
<1>9. CASE UNCHANGED vars
    BY <1>9 DEF vars
<1>10. QED
    BY <1>1, <1>2, <1>3, <1>4, <1>5, <1>6, <1>7, <1>8, <1>9 DEF Next

--------------------------------------------------------------------------------
(* Frames: what a step for one job does to it, and not to the others.        *)

\* The rows of every job but j stay as they are.
RowsElsewhere(j) == \A k \in Jobs \ {j} : mem'[k] = mem[k]

\* What a step for j does not touch of the other jobs.
Elsewhere(j) ==
    \A k \in Jobs \ {j} :
        /\ mem'[k] = mem[k]
        /\ pc'[k] = pc[k]
        /\ token'[k] = token[k]
        /\ attempt'[k] = attempt[k]
        /\ \A e : <<k, e>> \in leases => <<k, e>> \in leases'

--------------------------------------------------------------------------------
(* What the operators of the scheduler do to the row of the job they are     *)
(* given, and that they leave the other rows alone.                          *)

\* A stored snapshot is the job's row, and no other row changes.
LEMMA StoreAt ==
    ASSUME Typed, NEW j \in Jobs, NEW s, NEW saved, Store(j, s, saved)
    PROVE  mem'[j] = s /\ RowsElsewhere(j)
BY DEF Tables, Typed, Store, RowsElsewhere

\* A transition ends in the state asked for.
LEMMA TransitionAt ==
    ASSUME Typed, NEW j \in Jobs, NEW s, NEW saved, Transition(j, s, saved)
    PROVE  mem'[j].state = s /\ RowsElsewhere(j)
<1>1. mem[j] \in Snapshot
    BY DEF Tables, Typed
<1>2. WithState(j, s).state = s
    BY <1>1 DEF WithState, Snapshot
<1>3. QED
    BY <1>2, StoreAt DEF Transition

\* The executor's transition ends in the state asked for or stays where it was,
\* and it reports success only in the first case.
LEMMA ReachAt ==
    ASSUME Typed, NEW j \in Jobs, NEW s, NEW done, Reach(j, s, done)
    PROVE  /\ mem'[j].state \in {s, mem[j].state}
           /\ done => mem'[j].state = s
           /\ RowsElsewhere(j)
BY TransitionAt DEF Reach, RowsElsewhere

\* After a failure the job has ended.
LEMMA FailAt ==
    ASSUME Typed, NEW j \in Jobs, NEW done, Fail(j, done)
    PROVE  mem'[j].state \in Terminal /\ RowsElsewhere(j)
<1>1. CASE mem[j].state \in Terminal
    BY <1>1 DEF Fail, RowsElsewhere
<1>2. CASE mem[j].state \notin Terminal
    <2>1. mem[j] \in Snapshot
        BY DEF Tables, Typed
    <2>2. WithState(j, "Failed").state = "Failed"
        BY <2>1 DEF WithState, Snapshot
    <2>3. QED
        BY <1>2, <2>2, StoreAt DEF Fail, Terminal
<1>3. QED
    BY <1>1, <1>2

\* After an engine's failure the job has ended or is paused.
LEMMA FailEngineAt ==
    ASSUME Typed, NEW j \in Jobs, NEW canceled, NEW done, FailEngine(j, canceled, done)
    PROVE  mem'[j].state \in Terminal \cup {"Paused"} /\ RowsElsewhere(j)
BY FailAt DEF FailEngine, RowsElsewhere, Terminal

\* A probe's plan makes no job active.
LEMMA SetPlanAt ==
    ASSUME Typed, NEW j \in Jobs, NEW plan \in Plans, NEW done, SetPlan(j, plan, done)
    PROVE  /\ mem'[j].state \in {mem[j].state, "Queued", "AwaitingSelection"}
           /\ RowsElsewhere(j)
<1>1. plan.state \in {"Queued", "AwaitingSelection"}
    BY PlansAssumption DEF AnyPlan
<1>2. QED
    BY <1>1, StoreAt DEF SetPlan, RowsElsewhere

--------------------------------------------------------------------------------
(* A step for one job leaves the others alone.                              *)

\* No command for a job touches another job.
LEMMA CommandElsewhere ==
    ASSUME Typed, NEW j \in Jobs, Command(j)
    PROVE  Elsewhere(j)
<1> USE DEF Elsewhere, RowsElsewhere, outside, memory, commands, engine, semaphore, files, history
<1>1. CASE CreateJob(j)
    BY <1>1, StoreAt DEF CreateJob
<1>2. CASE Submit(j)
    BY <1>2 DEF Submit, Tables, Typed
<1>3. CASE StartJob(j)
    BY <1>3 DEF StartJob
<1>4. CASE CompleteSelection(j)
    BY <1>4, StoreAt DEF CompleteSelection
<1>5. CASE AuthorizeJob(j)
    BY <1>5 DEF AuthorizeJob
<1>6. CASE PauseJob(j)
    BY <1>6, TransitionAt DEF PauseJob
<1>7. CASE ResumeJob(j)
    BY <1>7 DEF ResumeJob
<1>8. CASE ResumeChecked(j)
    BY <1>8, TransitionAt DEF ResumeChecked
<1>9. CASE RetryJob(j)
    BY <1>9, TransitionAt DEF RetryJob
<1>10. CASE CancelJob(j)
    BY <1>10, TransitionAt DEF CancelJob
<1>11. QED
    BY <1>1, <1>2, <1>3, <1>4, <1>5, <1>6, <1>7, <1>8, <1>9, <1>10
       DEF Command, CompleteJobSelection, SelectFormat

\* No step of a job's task touches another job.
LEMMA TaskElsewhere ==
    ASSUME Typed, NEW j \in Jobs, Task(j)
    PROVE  Elsewhere(j)
<1> USE DEF outside, memory, commands, engine, semaphore, files, history
<1> DEFINE PcElsewhere == \A k \in Jobs \ {j} : pc'[k] = pc[k]
<1>r. \A s, done : Reach(j, s, done) => RowsElsewhere(j)
    BY ReachAt
<1>f. \A done : Fail(j, done) => RowsElsewhere(j)
    BY FailAt
<1>e. \A canceled, done : FailEngine(j, canceled, done) => RowsElsewhere(j)
    BY FailEngineAt
<1>s. \A plan \in Plans : \A done : SetPlan(j, plan, done) => RowsElsewhere(j)
    BY SetPlanAt
<1>g. \A label : Goto(j, label) => PcElsewhere
    BY DEF Goto, Tables, Typed
<1>p. \A done : ProbeEnds(j, done) => PcElsewhere
    BY <1>g DEF ProbeEnds
<1>d. \A done : DownloadEnds(j, done) => PcElsewhere
    BY <1>g DEF DownloadEnds
<1>1. CASE TaskStart(j)
    <2>1. RowsElsewhere(j)
        BY <1>1, <1>r, <1>f DEF TaskStart, RowsElsewhere
    <2>2. PcElsewhere
        BY <1>1, <1>g, <1>p DEF TaskStart
    <2>3. QED
        BY <1>1, <2>1, <2>2 DEF TaskStart, Elsewhere, RowsElsewhere, Tables, Typed
<1>2. CASE TaskResolve(j)
    <2>1. RowsElsewhere(j)
        BY <1>2, <1>e DEF TaskResolve, RowsElsewhere
    <2>2. PcElsewhere
        BY <1>2, <1>g, <1>p DEF TaskResolve, NextEngine
    <2>3. QED
        BY <1>2, <2>1, <2>2 DEF TaskResolve, NextEngine, Elsewhere, RowsElsewhere, Tables, Typed
<1>3. CASE TaskProbed(j)
    <2>1. RowsElsewhere(j)
        BY <1>3, <1>e, <1>s DEF TaskProbed, RowsElsewhere
    <2>2. PcElsewhere
        BY <1>3, <1>g, <1>p DEF TaskProbed, NextEngine
    <2>3. QED
        BY <1>3, <2>1, <2>2 DEF TaskProbed, NextEngine, Elsewhere, RowsElsewhere, Tables, Typed
<1>4. CASE TaskProceed(j)
    <2>1. RowsElsewhere(j)
        BY <1>4 DEF TaskProceed, RowsElsewhere
    <2>2. PcElsewhere
        BY <1>4, <1>g DEF TaskProceed
    <2>3. QED
        BY <1>4, <2>1, <2>2 DEF TaskProceed, Elsewhere, RowsElsewhere, Tables, Typed
<1>5. CASE TaskGranted(j)
    <2>1. RowsElsewhere(j)
        BY <1>5, <1>r DEF TaskGranted, RowsElsewhere
    <2>2. PcElsewhere
        BY <1>5, <1>g DEF TaskGranted
    <2>3. QED
        BY <1>5, <2>1, <2>2 DEF TaskGranted, Elsewhere, RowsElsewhere, Tables, Typed
<1>6. CASE TaskPrepare(j)
    <2>1. RowsElsewhere(j)
        BY <1>6, <1>e DEF TaskPrepare, RowsElsewhere
    <2>2. PcElsewhere
        BY <1>6, <1>d, <1>g DEF TaskPrepare, NextEngine
    <2>3. QED
        BY <1>6, <2>1, <2>2 DEF TaskPrepare, NextEngine, Elsewhere, RowsElsewhere, Tables, Typed
<1>7. CASE TaskLaunch(j)
    <2>1. RowsElsewhere(j)
        BY <1>7, <1>r DEF TaskLaunch, RowsElsewhere
    <2>2. PcElsewhere
        BY <1>7, <1>g, <1>d DEF TaskLaunch
    <2>3. QED
        BY <1>7, <2>1, <2>2 DEF TaskLaunch, Elsewhere, RowsElsewhere, Tables, Typed
<1>8. CASE TaskTransferred(j)
    <2>1. RowsElsewhere(j)
        BY <1>8, <1>e DEF TaskTransferred, RowsElsewhere
    <2>2. PcElsewhere
        BY <1>8, <1>g, <1>d DEF TaskTransferred, NextEngine
    <2>3. QED
        BY <1>8, <2>1, <2>2 DEF TaskTransferred, NextEngine, Elsewhere, RowsElsewhere, Tables, Typed
<1>9. CASE TaskBackoff(j)
    <2>1. RowsElsewhere(j)
        BY <1>9 DEF TaskBackoff, RowsElsewhere
    <2>2. PcElsewhere
        BY <1>9, <1>g DEF TaskBackoff
    <2>3. QED
        BY <1>9, <2>1, <2>2 DEF TaskBackoff, Elsewhere, RowsElsewhere, Tables, Typed
<1>10. CASE TaskPlace(j)
    <2>1. RowsElsewhere(j)
        BY <1>10, <1>r DEF TaskPlace, RowsElsewhere
    <2>2. PcElsewhere
        BY <1>10, <1>g, <1>d DEF TaskPlace
    <2>3. QED
        BY <1>10, <2>1, <2>2 DEF TaskPlace, Elsewhere, RowsElsewhere, Tables, Typed
<1>11. CASE TaskRename(j)
    <2>1. RowsElsewhere(j)
        BY <1>11 DEF TaskRename, RowsElsewhere
    <2>2. PcElsewhere
        BY <1>11, <1>g, <1>d DEF TaskRename
    <2>3. QED
        BY <1>11, <2>1, <2>2 DEF TaskRename, Elsewhere, RowsElsewhere, Tables, Typed
<1>12. CASE TaskComplete(j)
    <2>1. RowsElsewhere(j)
        BY <1>12, <1>r DEF TaskComplete, RowsElsewhere
    <2>2. PcElsewhere
        BY <1>12, <1>d DEF TaskComplete
    <2>3. QED
        BY <1>12, <2>1, <2>2 DEF TaskComplete, Elsewhere, RowsElsewhere, Tables, Typed
<1>13. CASE TaskError(j)
    <2>1. RowsElsewhere(j)
        BY <1>13, <1>f DEF TaskError, RowsElsewhere
    <2>2. PcElsewhere
        BY <1>13, <1>g DEF TaskError
    <2>3. QED
        BY <1>13, <2>1, <2>2 DEF TaskError, Elsewhere, RowsElsewhere, Tables, Typed
<1>14. CASE TaskSettle(j)
    <2>1. RowsElsewhere(j)
        BY <1>14 DEF TaskSettle, RowsElsewhere
    <2>2. PcElsewhere
        BY <1>14, <1>g DEF TaskSettle
    <2>3. QED
        BY <1>14, <2>1, <2>2 DEF TaskSettle, LeasesOf, Elsewhere, RowsElsewhere, Tables, Typed
<1>15. CASE TaskUnmap(j)
    <2>1. RowsElsewhere(j)
        BY <1>15 DEF TaskUnmap, RowsElsewhere
    <2>2. PcElsewhere
        BY <1>15, <1>g DEF TaskUnmap
    <2>3. QED
        BY <1>15, <2>1, <2>2 DEF TaskUnmap, Elsewhere, RowsElsewhere, Tables, Typed
<1>16. QED
    BY <1>1, <1>2, <1>3, <1>4, <1>5, <1>6, <1>7, <1>8, <1>9, <1>10, <1>11, <1>12,
       <1>13, <1>14, <1>15 DEF Task

--------------------------------------------------------------------------------
(* The process and what surrounds it.                                       *)

\* No task runs while the process is down.
DownIsIdle == ~up => \A j \in Jobs : pc[j] = "idle"

\* Nothing works on a job while the process is down: a task has its pc, and a
\* command begins and ends only in a running process.
LEMMA WorkIsUp ==
    ASSUME DownIsIdle, NEW j \in Jobs, Command(j) \/ Task(j) \/ TaskProgress(j)
    PROVE  up /\ up'
<1>1. CASE Command(j)
    <2>1. CASE Submit(j) \/ ResumeChecked(j)
        BY <2>1 DEF Submit, ResumeChecked, outside
    <2>2. CASE ~(Submit(j) \/ ResumeChecked(j))
        <3>1. MainThreadFree
            BY <1>1, <2>2 DEF Command, CreateJob, StartJob, CompleteJobSelection,
                SelectFormat, CompleteSelection, AuthorizeJob, PauseJob, ResumeJob,
                RetryJob, CancelJob
        <3>2. up' = up
            BY <1>1, <2>2 DEF Command, CreateJob, StartJob, CompleteJobSelection,
                SelectFormat, CompleteSelection, AuthorizeJob, PauseJob, ResumeJob,
                RetryJob, CancelJob, outside
        <3>3. QED
            BY <3>1, <3>2 DEF MainThreadFree
    <2>3. QED
        BY <2>1, <2>2
<1>2. CASE Task(j) \/ TaskProgress(j)
    <2>1. pc[j] # "idle" /\ up' = up
        BY <1>2 DEF Task, TaskStart, TaskResolve, TaskProbed, TaskProceed, TaskGranted,
            TaskPrepare, TaskLaunch, TaskProgress, TaskTransferred, TaskBackoff, TaskPlace,
            TaskRename, TaskComplete, TaskError, TaskSettle, TaskUnmap, outside
    <2>2. QED
        BY <2>1 DEF DownIsIdle
<1>3. QED
    BY <1>1, <1>2

\* What the running process does to a job changes nothing of its start.
LEMMA WorkInside ==
    ASSUME NEW j \in Jobs, Command(j) \/ Task(j) \/ TaskProgress(j)
    PROVE  UNCHANGED <<concurrency, marking, listed, shared>>
BY DEF Command, CreateJob, Submit, StartJob, CompleteJobSelection, SelectFormat,
    CompleteSelection, AuthorizeJob, PauseJob, ResumeJob, ResumeChecked, RetryJob,
    CancelJob, Task, TaskStart, TaskResolve, TaskProbed, TaskProceed, TaskGranted,
    TaskPrepare, TaskLaunch, TaskTransferred, TaskProgress, TaskBackoff, TaskPlace,
    TaskRename, TaskComplete, TaskError, TaskSettle, TaskUnmap, outside

\* What another instance does to a job changes nothing in this process, and only the
\* rows and leases of jobs it has worked on.
LEMMA AnotherOutside ==
    ASSUME Typed, NEW j \in Jobs, Another(j)
    PROVE  /\ UNCHANGED <<up, concurrency, marking, listed, mem, auth, token, stop, pc,
                          attempt, permits, resuming, submitting, unserved>>
           /\ shared \subseteq shared'
           /\ placed' \cup replaced' = placed \cup replaced
           /\ \A k \in Jobs \ shared' :
                 /\ db'[k] = db[k]
                 /\ \A e : <<k, e>> \in leases => <<k, e>> \in leases'
<1> USE DEF outside, memory, commands, engine, semaphore, files, history, Tables, Typed
<1>1. CASE AnotherSaves(j)
    BY <1>1 DEF AnotherSaves
<1>2. CASE AnotherLeases(j)
    BY <1>2 DEF AnotherLeases, LeasesOf
<1>3. CASE AnotherPlaces(j)
    BY <1>3 DEF AnotherPlaces
<1>4. QED
    BY <1>1, <1>2, <1>3 DEF Another

\* The start of the process: it holds rows only while it runs, and they are those of
\* active jobs.  As long as nobody else writes a row, the one it holds is the one in
\* the table, and it holds all that are active.
Marks ==
    /\ marking => ~up
    /\ \A j \in Jobs : listed[j] # NoSnapshot => marking /\ listed[j].state \in Active
    /\ \A j \in Jobs \ shared : marking =>
          /\ listed[j] # NoSnapshot => db[j] = listed[j]
          /\ db[j].state \in Active => listed[j] # NoSnapshot

\* Marking a job changes its row alone, ...
LEMMA MarkAt ==
    ASSUME Typed, NEW j \in Jobs, MarkInterrupted(j)
    PROVE  /\ db'[j].state = "Interrupted" /\ listed'[j] = NoSnapshot
           /\ \A k \in Jobs \ {j} : db'[k] = db[k] /\ listed'[k] = listed[k]
           /\ UNCHANGED <<up, concurrency, marking, shared, mem, auth, token, pc, attempt,
                          permits, resuming, submitting, leases, placed, replaced, unserved>>
<1>1. listed[j] \in Snapshot
    BY DEF Typed
<1>2. [listed[j] EXCEPT !.state = "Interrupted"].state = "Interrupted"
    BY <1>1 DEF Snapshot
<1>3. QED
    BY <1>2 DEF MarkInterrupted, outside, memory, commands, engine, semaphore, files,
           history, Tables, Typed

\* ... and listing the active ones changes nothing but the list.
LEMMA ListAt ==
    ASSUME ListActive
    PROVE  UNCHANGED <<up, concurrency, shared, mem, db, auth, token, pc, attempt, permits,
                       resuming, submitting, leases, placed, replaced, unserved>>
BY DEF ListActive, memory, commands, engine, semaphore, files, history

\* Every step keeps the process idle while it is down, and its start in order.
LEMMA DownStep ==
    ASSUME Typed, DownIsIdle, Marks, [Next]_vars
    PROVE  DownIsIdle' /\ Marks'
<1>1. ASSUME NEW j \in Jobs, Command(j) \/ Task(j) \/ TaskProgress(j)
      PROVE  DownIsIdle' /\ Marks'
    BY <1>1, WorkIsUp, WorkInside DEF DownIsIdle, Marks
<1>2. ASSUME NEW j \in Jobs, MarkInterrupted(j)
      PROVE  DownIsIdle' /\ Marks'
    BY <1>2, MarkAt DEF DownIsIdle, Marks, Active
<1>3. ASSUME NEW j \in Jobs, Another(j)
      PROVE  DownIsIdle' /\ Marks'
    BY <1>3, AnotherOutside DEF DownIsIdle, Marks
<1>4. CASE ListActive
    <2>1. ~up /\ marking' /\ up' = up /\ pc' = pc /\ db' = db
        BY <1>4, ListAt DEF ListActive
    <2>2. \A j \in Jobs :
              listed'[j] = IF db[j].state \in Active THEN db[j] ELSE NoSnapshot
        BY <1>4 DEF ListActive
    <2>3. NoSnapshot.state \notin Active
        BY DEF NoSnapshot, Absent, Active
    <2>4. QED
        BY <2>1, <2>2, <2>3 DEF DownIsIdle, Marks
<1>5. CASE Crash
    BY <1>5 DEF Crash, DownIsIdle, Marks
<1>6. CASE Restart
    BY <1>6 DEF Restart, DownIsIdle, Marks
<1>7. CASE UNCHANGED vars
    BY <1>7 DEF vars, outside, DownIsIdle, Marks
<1>8. QED
    BY <1>1, <1>2, <1>3, <1>4, <1>5, <1>6, <1>7 DEF Next

--------------------------------------------------------------------------------
(* The entry in the cancellation map.                                       *)

\* A command spawns a task only together with an entry, and only for a job that
\* had neither.
LEMMA CommandEntry ==
    ASSUME Typed, NEW j \in Jobs, Command(j), token[j] = "none" <=> pc[j] = "idle"
    PROVE  /\ token'[j] = "none" <=> pc'[j] = "idle"
           /\ pc'[j] = pc[j] \/ (pc[j] = "idle" /\ pc'[j] = "start")
           /\ permits' = permits /\ attempt' = attempt /\ leases' = leases
<1> USE DEF outside, memory, commands, engine, semaphore, files, history
<1>1. CASE Submit(j)
    BY <1>1 DEF Submit, Tables, Typed
<1>2. CASE ~Submit(j)
    <2>1. UNCHANGED <<token, pc, permits, attempt, leases>>
        BY <1>2 DEF Command, CreateJob, StartJob, CompleteJobSelection, SelectFormat,
            CompleteSelection, AuthorizeJob, PauseJob, ResumeJob, ResumeChecked,
            RetryJob, CancelJob
    <2>2. QED
        BY <2>1
<1>3. QED
    BY <1>1, <1>2

\* A task has its entry until the last step of its closure takes both away.
LEMMA TaskEntry ==
    ASSUME Typed, NEW j \in Jobs, Task(j), token[j] = "none" <=> pc[j] = "idle"
    PROVE  token'[j] = "none" <=> pc'[j] = "idle"
<1> USE DEF outside, memory, commands, engine, semaphore, files, history
<1>g. \A label : Goto(j, label) => pc'[j] = label
    BY DEF Goto, Tables, Typed
<1>p. \A done : ProbeEnds(j, done) => pc'[j] # "idle"
    BY <1>g DEF ProbeEnds
<1>d. \A done : DownloadEnds(j, done) => pc'[j] # "idle"
    BY <1>g DEF DownloadEnds
<1>1. CASE TaskStart(j)
    BY <1>1, <1>g, <1>p DEF TaskStart
<1>2. CASE TaskResolve(j)
    BY <1>2, <1>g, <1>p DEF TaskResolve, NextEngine
<1>3. CASE TaskProbed(j)
    BY <1>3, <1>g, <1>p DEF TaskProbed, NextEngine
<1>4. CASE TaskProceed(j)
    BY <1>4, <1>g DEF TaskProceed
<1>5. CASE TaskGranted(j)
    BY <1>5, <1>g DEF TaskGranted
<1>6. CASE TaskPrepare(j)
    BY <1>6, <1>d, <1>g DEF TaskPrepare, NextEngine
<1>7. CASE TaskLaunch(j)
    BY <1>7, <1>g, <1>d DEF TaskLaunch
<1>8. CASE TaskTransferred(j)
    BY <1>8, <1>g, <1>d DEF TaskTransferred, NextEngine
<1>9. CASE TaskBackoff(j)
    BY <1>9, <1>g DEF TaskBackoff
<1>10. CASE TaskPlace(j)
    BY <1>10, <1>g, <1>d DEF TaskPlace
<1>11. CASE TaskRename(j)
    BY <1>11, <1>g, <1>d DEF TaskRename
<1>12. CASE TaskComplete(j)
    BY <1>12, <1>d DEF TaskComplete
<1>13. CASE TaskError(j)
    BY <1>13, <1>g DEF TaskError
<1>14. CASE TaskSettle(j)
    BY <1>14, <1>g DEF TaskSettle
<1>15. CASE TaskUnmap(j)
    BY <1>15, <1>g DEF TaskUnmap, Tables, Typed
<1>16. QED
    BY <1>1, <1>2, <1>3, <1>4, <1>5, <1>6, <1>7, <1>8, <1>9, <1>10, <1>11, <1>12,
       <1>13, <1>14, <1>15 DEF Task

\* Every step keeps the entries and the tasks together.
LEMMA EntryStep ==
    ASSUME Typed, EntryIffTask, [Next]_vars
    PROVE  EntryIffTask'
<1>1. ASSUME NEW j \in Jobs, Command(j) \/ Task(j)
      PROVE  EntryIffTask'
    <2>1. Elsewhere(j)
        BY <1>1, CommandElsewhere, TaskElsewhere
    <2>2. token'[j] = "none" <=> pc'[j] = "idle"
        BY <1>1, CommandEntry, TaskEntry DEF EntryIffTask
    <2>3. QED
        BY <2>1, <2>2 DEF Elsewhere, EntryIffTask
<1>2. CASE \E j \in Jobs : TaskProgress(j) \/ MarkInterrupted(j) \/ Another(j)
    BY <1>2, MarkAt, AnotherOutside DEF TaskProgress, EntryIffTask
<1>3. CASE Crash
    BY <1>3 DEF Crash, EntryIffTask
<1>4. CASE Restart \/ ListActive
    BY <1>4, ListAt DEF Restart, EntryIffTask
<1>5. CASE UNCHANGED vars
    BY <1>5 DEF vars, EntryIffTask
<1>6. QED
    BY <1>1, <1>2, <1>3, <1>4, <1>5 DEF Next

--------------------------------------------------------------------------------
(* The permits.                                                             *)

\* A step of the task of j leaves its permit as it is, takes one, or returns it.
PermitKept(j) ==
    permits' = permits /\ (pc'[j] \in HoldsPermit <=> pc[j] \in HoldsPermit)
PermitTaken(j) ==
    permits' = permits - 1 /\ pc[j] \notin HoldsPermit /\ pc'[j] \in HoldsPermit
PermitReturned(j) ==
    permits' = permits + 1 /\ pc[j] \in HoldsPermit /\ pc'[j] \notin HoldsPermit

\* Every step of a task keeps the count of permits in line with where it stands.
LEMMA TaskPermit ==
    ASSUME Typed, NEW j \in Jobs, Task(j)
    PROVE  PermitKept(j) \/ PermitTaken(j) \/ PermitReturned(j)
<1> USE DEF outside, memory, commands, engine, semaphore, files, history,
            PermitKept, PermitTaken, PermitReturned
<1>h. /\ {"prepare", "launch", "transfer", "backoff", "place", "rename", "complete"}
             \subseteq HoldsPermit
      /\ {"idle", "start", "resolve", "probe", "proceed", "wait", "error", "settle",
          "unmap"} \cap HoldsPermit = {}
    BY DEF HoldsPermit
<1>g. \A label : Goto(j, label) => pc'[j] = label
    BY DEF Goto, Tables, Typed
<1>p. \A done : ProbeEnds(j, done) => pc'[j] \in {"proceed", "error"}
    BY <1>g DEF ProbeEnds
<1>d. \A done : DownloadEnds(j, done) =>
          pc'[j] \in {"settle", "error"} /\ permits' = permits + 1
    BY <1>g DEF DownloadEnds
<1>1. CASE TaskStart(j)
    BY <1>1, <1>h, <1>g, <1>p DEF TaskStart
<1>2. CASE TaskResolve(j)
    BY <1>2, <1>h, <1>g, <1>p DEF TaskResolve, NextEngine
<1>3. CASE TaskProbed(j)
    BY <1>3, <1>h, <1>g, <1>p DEF TaskProbed, NextEngine
<1>4. CASE TaskProceed(j)
    BY <1>4, <1>h, <1>g DEF TaskProceed
<1>5. CASE TaskGranted(j)
    BY <1>5, <1>h, <1>g DEF TaskGranted, Tables, Typed
<1>6. CASE TaskPrepare(j)
    BY <1>6, <1>h, <1>d, <1>g DEF TaskPrepare, NextEngine
<1>7. CASE TaskLaunch(j)
    BY <1>7, <1>h, <1>g, <1>d DEF TaskLaunch
<1>8. CASE TaskTransferred(j)
    BY <1>8, <1>h, <1>g, <1>d DEF TaskTransferred, NextEngine
<1>9. CASE TaskBackoff(j)
    BY <1>9, <1>h, <1>g DEF TaskBackoff
<1>10. CASE TaskPlace(j)
    BY <1>10, <1>h, <1>g, <1>d DEF TaskPlace
<1>11. CASE TaskRename(j)
    BY <1>11, <1>h, <1>g, <1>d DEF TaskRename
<1>12. CASE TaskComplete(j)
    BY <1>12, <1>h, <1>d DEF TaskComplete
<1>13. CASE TaskError(j)
    BY <1>13, <1>h, <1>g DEF TaskError
<1>14. CASE TaskSettle(j)
    BY <1>14, <1>h, <1>g DEF TaskSettle
<1>15. CASE TaskUnmap(j)
    BY <1>15, <1>h, <1>g DEF TaskUnmap
<1>16. QED
    BY <1>1, <1>2, <1>3, <1>4, <1>5, <1>6, <1>7, <1>8, <1>9, <1>10, <1>11, <1>12,
       <1>13, <1>14, <1>15 DEF Task

\* The set of permit holders is finite.
LEMMA HoldersFinite == IsFiniteSet(Holders) /\ Cardinality(Holders) \in Nat
<1>1. Holders \subseteq Jobs
    BY DEF Holders
<1>2. QED
    BY <1>1, JobsAssumption, FS_Subset, FS_CardinalityType

\* When one task moves, the count of permits and of holders moves with it.
LEMMA HoldersMove ==
    ASSUME Typed, PermitsConserved, NEW j \in Jobs, Elsewhere(j), concurrency' = concurrency,
           PermitKept(j) \/ PermitTaken(j) \/ PermitReturned(j)
    PROVE  PermitsConserved'
<1>0. permits \in Nat /\ permits + Cardinality(Holders) = concurrency
    BY DEF Tables, Typed, PermitsConserved
<1>1. CASE PermitKept(j)
    <2>1. Holders' = Holders
        BY <1>1 DEF Holders, Elsewhere, PermitKept
    <2>2. QED
        BY <1>0, <1>1, <2>1 DEF PermitsConserved, PermitKept
<1>2. CASE PermitTaken(j)
    <2>1. Holders' = Holders \cup {j} /\ j \notin Holders
        BY <1>2 DEF Holders, Elsewhere, PermitTaken
    <2>2. Cardinality(Holders') = Cardinality(Holders) + 1
        BY <2>1, HoldersFinite, FS_AddElement
    <2>3. QED
        BY <1>0, <1>2, <2>2, HoldersFinite DEF PermitsConserved, PermitTaken
<1>3. CASE PermitReturned(j)
    <2>1. Holders' = Holders \ {j} /\ j \in Holders
        BY <1>3 DEF Holders, Elsewhere, PermitReturned
    <2>2. Cardinality(Holders') = Cardinality(Holders) - 1
        BY <2>1, HoldersFinite, FS_RemoveElement
    <2>3. QED
        BY <1>0, <1>3, <2>2, HoldersFinite DEF PermitsConserved, PermitReturned
<1>4. QED
    BY <1>1, <1>2, <1>3

\* No step loses or makes a permit.
LEMMA PermitStep ==
    ASSUME Typed, EntryIffTask, PermitsConserved, [Next]_vars
    PROVE  PermitsConserved'
<1>1. ASSUME NEW j \in Jobs, Command(j)
      PROVE  PermitsConserved'
    <2>1. PermitKept(j)
        BY <1>1, CommandEntry DEF EntryIffTask, PermitKept, HoldsPermit
    <2>2. QED
        BY <1>1, <2>1, CommandElsewhere, WorkInside, HoldersMove
<1>2. ASSUME NEW j \in Jobs, Task(j)
      PROVE  PermitsConserved'
    BY <1>2, TaskElsewhere, TaskPermit, WorkInside, HoldersMove
<1>3. ASSUME UNCHANGED <<pc, permits, concurrency>>
      PROVE  PermitsConserved'
    BY <1>3 DEF PermitsConserved, Holders
<1>4. CASE \E j \in Jobs : TaskProgress(j) \/ MarkInterrupted(j) \/ Another(j)
    BY <1>3, <1>4, MarkAt, AnotherOutside DEF TaskProgress, outside, semaphore
<1>5. CASE Crash
    <2>1. Holders' = {} /\ permits' = concurrency' /\ concurrency \in 1..8
        BY <1>5, ConcurrencyAssumption DEF Crash, Holders, HoldsPermit, Typed
    <2>2. QED
        BY <1>5, <2>1, FS_EmptySet DEF Crash, PermitsConserved
<1>6. CASE Restart \/ ListActive
    BY <1>3, <1>6, ListAt DEF Restart, semaphore
<1>7. CASE UNCHANGED vars
    BY <1>3, <1>7 DEF vars, outside
<1>8. QED
    BY <1>1, <1>2, <1>4, <1>5, <1>6, <1>7 DEF Next

--------------------------------------------------------------------------------
(* Active jobs.                                                             *)

ActiveAt(j) == mem[j].state \in Active => pc[j] \in HoldsPermit \cup {"error"}

\* No command leaves a job in an active state its task does not work on.
LEMMA CommandActive ==
    ASSUME Typed, NEW j \in Jobs, Command(j), token[j] = "none" <=> pc[j] = "idle",
           ActiveAt(j)
    PROVE  ActiveAt(j)'
<1> USE DEF ActiveAt, outside, memory, commands, engine, semaphore, files, history
<1>i. {"Probing", "Queued", "Paused", "Canceled"} \cap Active = {}
    BY DEF Active
<1>w. \A s, saved : Store(j, WithState(j, s), saved) => mem'[j].state = s
    <2>1. \A s : WithState(j, s).state = s
        BY DEF Tables, Typed, Snapshot, WithState
    <2>2. QED
        BY <2>1, StoreAt
<1>t. \A s, saved : Transition(j, s, saved) => mem'[j].state = s
    BY TransitionAt
<1>1. CASE CreateJob(j)
    BY <1>1, <1>i, <1>w DEF CreateJob
<1>2. CASE Submit(j)
    <2>1. mem' = mem
        BY <1>2 DEF Submit
    <2>2. pc'[j] = pc[j] \/ pc[j] = "idle"
        BY <1>2 DEF Submit
    <2>3. "idle" \notin HoldsPermit \cup {"error"}
        BY DEF HoldsPermit
    <2>4. QED
        BY <2>1, <2>2, <2>3
<1>3. CASE StartJob(j)
    BY <1>3 DEF StartJob
<1>4. CASE CompleteSelection(j)
    BY <1>4, <1>i, <1>w DEF CompleteSelection
<1>5. CASE AuthorizeJob(j)
    BY <1>5 DEF AuthorizeJob
<1>6. CASE PauseJob(j)
    BY <1>6, <1>i, <1>t DEF PauseJob
<1>7. CASE ResumeJob(j)
    BY <1>7 DEF ResumeJob
<1>8. CASE ResumeChecked(j)
    BY <1>8, <1>i, <1>t DEF ResumeChecked
<1>9. CASE RetryJob(j)
    <2>1. PICK s \in {"Probing", "Queued"} : \E saved : Transition(j, s, saved)
        BY <1>9 DEF RetryJob
    <2>2. QED
        BY <2>1, <1>i, <1>t
<1>10. CASE CancelJob(j)
    BY <1>10, <1>i, <1>t DEF CancelJob
<1>11. QED
    BY <1>1, <1>2, <1>3, <1>4, <1>5, <1>6, <1>7, <1>8, <1>9, <1>10
       DEF Command, CompleteJobSelection, SelectFormat

\* A task leaves download() with the job out of the active states, or with an
\* error it is about to record.
LEMMA TaskActive ==
    ASSUME Typed, NEW j \in Jobs, Task(j), ActiveAt(j)
    PROVE  ActiveAt(j)'
<1> USE DEF ActiveAt, outside, memory, commands, engine, semaphore, files, history
<1> DEFINE Inactive == mem[j].state \notin Active
           Works == pc[j] \in HoldsPermit \cup {"error"}
<1>h. {"prepare", "launch", "transfer", "backoff", "place", "rename", "complete"}
          \subseteq HoldsPermit
    BY DEF HoldsPermit
<1>n. {"idle", "start", "resolve", "probe", "proceed", "wait", "settle", "unmap"}
          \cap (HoldsPermit \cup {"error"}) = {}
    BY DEF HoldsPermit
<1>i. (Terminal \cup {"Queued", "Paused", "AwaitingSelection"}) \cap Active = {}
    BY DEF Active, Terminal
<1>g. \A label : Goto(j, label) => pc'[j] = label
    BY DEF Goto, Tables, Typed
<1>d. \A done : DownloadEnds(j, done) => Works' \/ done
    BY <1>g DEF DownloadEnds
<1>r. \A s, done : Reach(j, s, done) =>
          /\ mem'[j].state \in {s, mem[j].state}
          /\ done => mem'[j].state = s
    BY ReachAt
<1>f. \A done : Fail(j, done) => Inactive'
    BY <1>i, FailAt
<1>e. \A canceled, done : FailEngine(j, canceled, done) => Inactive'
    BY <1>i, FailEngineAt
<1>s. \A plan \in Plans : \A done : SetPlan(j, plan, done) =>
          mem'[j].state \in {mem[j].state, "Queued", "AwaitingSelection"}
    BY SetPlanAt
<1>1. CASE TaskStart(j)
    <2>1. Inactive
        BY <1>1, <1>n DEF TaskStart
    <2>2. mem' = mem \/ \E done : Fail(j, done) \/ Reach(j, "Queued", done)
        BY <1>1 DEF TaskStart
    <2>3. QED
        BY <2>1, <2>2, <1>f, <1>i, <1>r
<1>2. CASE TaskResolve(j)
    <2>1. Inactive
        BY <1>2, <1>n DEF TaskResolve
    <2>2. mem' = mem \/ \E canceled, done : FailEngine(j, canceled, done)
        BY <1>2 DEF TaskResolve
    <2>3. QED
        BY <2>1, <2>2, <1>e
<1>3. CASE TaskProbed(j)
    <2>1. Inactive
        BY <1>3, <1>n DEF TaskProbed
    <2>2. \/ mem' = mem
          \/ \E canceled, done : FailEngine(j, canceled, done)
          \/ \E plan \in Plans : \E done : SetPlan(j, plan, done)
        BY <1>3 DEF TaskProbed
    <2>3. QED
        BY <2>1, <2>2, <1>e, <1>i, <1>s
<1>4. CASE TaskProceed(j)
    BY <1>4, <1>n DEF TaskProceed
<1>5. CASE TaskGranted(j)
    BY <1>5, <1>g, <1>h DEF TaskGranted
<1>6. CASE TaskPrepare(j)
    BY <1>6, <1>d, <1>e, <1>g, <1>h DEF TaskPrepare, NextEngine
<1>7. CASE TaskLaunch(j)
    BY <1>7, <1>d, <1>g, <1>h DEF TaskLaunch
<1>8. CASE TaskTransferred(j)
    BY <1>8, <1>d, <1>e, <1>g, <1>h DEF TaskTransferred, NextEngine
<1>9. CASE TaskBackoff(j)
    BY <1>9, <1>g, <1>h DEF TaskBackoff
<1>10. CASE TaskPlace(j)
    BY <1>10, <1>d, <1>g, <1>h DEF TaskPlace
<1>11. CASE TaskRename(j)
    BY <1>11, <1>d, <1>g, <1>h DEF TaskRename
<1>12. CASE TaskComplete(j)
    <2>1. PICK done \in BOOLEAN : Reach(j, "Completed", done) /\ DownloadEnds(j, done)
        BY <1>12 DEF TaskComplete
    <2>2. QED
        BY <2>1, <1>d, <1>i, <1>r DEF Terminal
<1>13. CASE TaskError(j)
    BY <1>13, <1>f DEF TaskError
<1>14. CASE TaskSettle(j)
    BY <1>14, <1>n DEF TaskSettle
<1>15. CASE TaskUnmap(j)
    BY <1>15, <1>n DEF TaskUnmap
<1>16. QED
    BY <1>1, <1>2, <1>3, <1>4, <1>5, <1>6, <1>7, <1>8, <1>9, <1>10, <1>11, <1>12,
       <1>13, <1>14, <1>15 DEF Task

\* Every step keeps active jobs with their tasks: what a start reads back as active
\* another instance has written since the active ones were listed.
LEMMA ActiveStep ==
    ASSUME Typed, EntryIffTask, Marks, ActiveHasTask, [Next]_vars
    PROVE  ActiveHasTask'
<1>1. ASSUME NEW j \in Jobs, Command(j) \/ Task(j)
      PROVE  ActiveHasTask'
    <2>1. Elsewhere(j) /\ shared' = shared
        BY <1>1, CommandElsewhere, TaskElsewhere, WorkInside
    <2>2. j \notin shared => ActiveAt(j)'
        BY <1>1, CommandActive, TaskActive DEF EntryIffTask, ActiveHasTask, ActiveAt
    <2>3. QED
        BY <2>1, <2>2 DEF Elsewhere, ActiveHasTask, ActiveAt
<1>2. CASE \E j \in Jobs : TaskProgress(j) \/ MarkInterrupted(j) \/ Another(j)
    BY <1>2, MarkAt, AnotherOutside DEF TaskProgress, ActiveHasTask, memory, outside
<1>3. CASE Crash
    BY <1>3 DEF Crash, ActiveHasTask, NoSnapshot, Absent, Active
<1>4. CASE Restart
    BY <1>4 DEF Restart, ActiveHasTask, Marks
<1>5. CASE ListActive
    BY <1>5, ListAt DEF ActiveHasTask
<1>6. CASE UNCHANGED vars
    BY <1>6 DEF vars, outside, ActiveHasTask
<1>7. QED
    BY <1>1, <1>2, <1>3, <1>4, <1>5, <1>6 DEF Next

--------------------------------------------------------------------------------
(* The leases.                                                              *)

LeaseAt(j) == pc[j] \in UsesEngine => <<j, attempt[j]>> \in leases
RouteAt(j) == pc[j] \in UsesEngine => attempt[j] <= NEngines

\* A task takes the lease before it uses an engine of its route, and keeps it as long.
LEMMA TaskLease ==
    ASSUME Typed, NEW j \in Jobs, Task(j)
    PROVE  (LeaseAt(j) => LeaseAt(j)') /\ (RouteAt(j) => RouteAt(j)')
<1> USE DEF LeaseAt, RouteAt, outside, memory, commands, engine, semaphore, files, history
<1>h. {"launch", "transfer", "backoff", "place", "rename", "complete"} \subseteq UsesEngine
    BY DEF UsesEngine
<1>n. {"idle", "start", "resolve", "proceed", "wait", "prepare", "error", "settle",
       "unmap"} \cap UsesEngine = {}
    BY DEF UsesEngine
<1>g. \A label : Goto(j, label) => pc'[j] = label
    BY DEF Goto, Tables, Typed
<1>p. \A done : ProbeEnds(j, done) => pc'[j] \in {"proceed", "error"}
    BY <1>g DEF ProbeEnds
<1>d. \A done : DownloadEnds(j, done) => pc'[j] \in {"settle", "error"}
    BY <1>g DEF DownloadEnds
<1>1. CASE TaskStart(j)
    BY <1>1, <1>n, <1>g, <1>p DEF TaskStart
<1>2. CASE TaskResolve(j)
    BY <1>2, <1>n, <1>g, <1>p DEF TaskResolve, NextEngine
<1>3. CASE TaskProbed(j)
    BY <1>3, <1>n, <1>g, <1>p DEF TaskProbed, NextEngine
<1>4. CASE TaskProceed(j)
    BY <1>4, <1>n, <1>g DEF TaskProceed
<1>5. CASE TaskGranted(j)
    BY <1>5, <1>n, <1>g DEF TaskGranted
<1>6. CASE TaskPrepare(j)
    BY <1>6, <1>n, <1>d, <1>g DEF TaskPrepare, NextEngine
<1>7. CASE TaskLaunch(j)
    BY <1>7, <1>n, <1>g, <1>d, <1>h DEF TaskLaunch
<1>8. CASE TaskTransferred(j)
    BY <1>8, <1>n, <1>g, <1>d, <1>h DEF TaskTransferred, NextEngine
<1>9. CASE TaskBackoff(j)
    BY <1>9, <1>n, <1>g, <1>h DEF TaskBackoff
<1>10. CASE TaskPlace(j)
    BY <1>10, <1>n, <1>g, <1>d, <1>h DEF TaskPlace
<1>11. CASE TaskRename(j)
    BY <1>11, <1>n, <1>g, <1>d, <1>h DEF TaskRename
<1>12. CASE TaskComplete(j)
    BY <1>12, <1>n, <1>d DEF TaskComplete
<1>13. CASE TaskError(j)
    BY <1>13, <1>n, <1>g DEF TaskError
<1>14. CASE TaskSettle(j)
    BY <1>14, <1>n, <1>g DEF TaskSettle
<1>15. CASE TaskUnmap(j)
    BY <1>15, <1>n, <1>g DEF TaskUnmap
<1>16. QED
    BY <1>1, <1>2, <1>3, <1>4, <1>5, <1>6, <1>7, <1>8, <1>9, <1>10, <1>11, <1>12,
       <1>13, <1>14, <1>15 DEF Task

\* Every step keeps the engines in use under lease, and on the route.
LEMMA LeaseStep ==
    ASSUME Typed, EntryIffTask, LeaseCoversEngine, OnRoute, [Next]_vars
    PROVE  LeaseCoversEngine' /\ OnRoute'
<1>1. ASSUME NEW j \in Jobs, Command(j) \/ Task(j)
      PROVE  LeaseCoversEngine' /\ OnRoute'
    <2>1. Elsewhere(j) /\ shared' = shared
        BY <1>1, CommandElsewhere, TaskElsewhere, WorkInside
    <2>2. (LeaseAt(j) => LeaseAt(j)') /\ (RouteAt(j) => RouteAt(j)')
        <3>1. CASE Command(j)
            BY <3>1, CommandEntry DEF EntryIffTask, LeaseAt, RouteAt, UsesEngine
        <3>2. CASE Task(j)
            BY <3>2, TaskLease
        <3>3. QED
            BY <1>1, <3>1, <3>2
    <2>3. LeaseCoversEngine'
        BY <2>1, <2>2 DEF Elsewhere, LeaseCoversEngine, LeaseAt
    <2>4. OnRoute'
        BY <2>1, <2>2 DEF Elsewhere, OnRoute, RouteAt
    <2>5. QED
        BY <2>3, <2>4
<1>2. ASSUME UNCHANGED <<pc, attempt>>, shared \subseteq shared',
             \A k \in Jobs \ shared' : \A e : <<k, e>> \in leases => <<k, e>> \in leases'
      PROVE  LeaseCoversEngine' /\ OnRoute'
    BY <1>2 DEF LeaseCoversEngine, OnRoute
<1>3. CASE \E j \in Jobs : TaskProgress(j) \/ MarkInterrupted(j) \/ Another(j)
    BY <1>2, <1>3, MarkAt, AnotherOutside DEF TaskProgress, engine, outside
<1>4. CASE Crash
    BY <1>4 DEF Crash, LeaseCoversEngine, OnRoute, UsesEngine
<1>5. CASE Restart \/ ListActive
    BY <1>2, <1>5, ListAt DEF Restart, engine
<1>6. CASE UNCHANGED vars
    BY <1>2, <1>6 DEF vars, outside
<1>7. QED
    BY <1>1, <1>3, <1>4, <1>5, <1>6 DEF Next

--------------------------------------------------------------------------------
(* The inductive invariant and what it gives.                               *)

\* The inductive invariant.  The types alone are not inductive: that an attempt
\* stays within the route, and that the permits stay within the semaphore, is more
\* than their types.  That no job is read back as active needs the start's list.
IInv ==
    /\ Typed
    /\ EntryIffTask
    /\ PermitsConserved
    /\ DownIsIdle /\ Marks
    /\ ActiveHasTask
    /\ OnRoute /\ LeaseCoversEngine

\* The inductive invariant holds in the first state.
LEMMA InductiveInit == Init => IInv
<1> SUFFICES ASSUME Init PROVE IInv
    OBVIOUS
<1>1. Typed
    BY TypedInit
<1>2. EntryIffTask /\ ActiveHasTask /\ OnRoute /\ LeaseCoversEngine /\ DownIsIdle /\ Marks
    BY DEF Init, EntryIffTask, ActiveHasTask, OnRoute, LeaseCoversEngine, UsesEngine,
           DownIsIdle, Marks, NoSnapshot, Absent, Active
<1>3. Holders = {} /\ concurrency \in 1..8
    BY ConcurrencyAssumption DEF Init, Holders, HoldsPermit
<1>4. PermitsConserved
    BY <1>3, FS_EmptySet DEF Init, PermitsConserved
<1>5. QED
    BY <1>1, <1>2, <1>4 DEF IInv

\* The inductive invariant holds in every reachable state.
THEOREM Inductive == Spec => []IInv
<1>1. IInv /\ [Next]_vars => IInv'
    BY TypedStep, EntryStep, PermitStep, DownStep, ActiveStep, LeaseStep DEF IInv
<1>2. QED
    BY InductiveInit, <1>1, PTL DEF Spec

\* Every variable always has its type: the permits, which are only known to be a
\* number, are at most as many as the semaphore was made with by their count.
THEOREM TypeCorrect == Spec => []TypeOK
<1>1. IInv => TypeOK
    <2> SUFFICES ASSUME IInv PROVE TypeOK
        OBVIOUS
    <2>1. concurrency \in 1..8 /\ permits \in Nat
        BY ConcurrencyAssumption DEF IInv, Typed
    <2>2. permits \in 0..concurrency
        BY <2>1, HoldersFinite DEF IInv, PermitsConserved
    <2>3. QED
        BY <2>2 DEF IInv, Tables, Typed, TypeOK
<1>2. QED
    BY Inductive, <1>1, PTL

\* A job has an entry in the cancellation map exactly as long as it has a task, so
\* that two tasks never work on one job.
THEOREM OneTaskPerJob == Spec => []EntryIffTask
<1>1. IInv => EntryIffTask
    BY DEF IInv
<1>2. QED
    BY Inductive, <1>1, PTL

\* However download() ends, its permit is back: none is lost and none is made.
THEOREM NoPermitLost == Spec => []PermitsConserved
<1>1. IInv => PermitsConserved
    BY DEF IInv
<1>2. QED
    BY Inductive, <1>1, PTL

\* A job shown as active that no other instance has worked on has a task that works on
\* it or is about to record its failure.
THEOREM NoStrayActiveJob == Spec => []ActiveHasTask
<1>1. IInv => ActiveHasTask
    BY DEF IInv
<1>2. QED
    BY Inductive, <1>1, PTL

\* The engine a task uses is under lease, for every job no other instance works on.
THEOREM EnginesLeased == Spec => []LeaseCoversEngine
<1>1. IInv => LeaseCoversEngine
    BY DEF IInv
<1>2. QED
    BY Inductive, <1>1, PTL

--------------------------------------------------------------------------------
(* Ends: what has ended in memory and in the table.                            *)

Ends == {"Completed", "Canceled"}

\* The row of j: what has ended in memory stays as it is, and the table holds
\* what it held or what memory holds now.
RowFollows(j) ==
    /\ mem[j].state \in Ends => mem'[j].state = mem[j].state
    /\ db'[j] \in {db[j], mem'[j]}
    /\ \A k \in Jobs \ {j} : mem'[k] = mem[k] /\ db'[k] = db[k]

--------------------------------------------------------------------------------
(* The operators of the scheduler.                                          *)

\* A stored snapshot keeps an end if its state is the one before.
LEMMA StoreFollows ==
    ASSUME Typed, NEW j \in Jobs, NEW s, NEW saved, Store(j, s, saved),
           mem[j].state \in Ends => s.state = mem[j].state
    PROVE  RowFollows(j)
BY DEF Tables, Typed, Store, RowFollows

\* The table of transitions has no way out of an end.
LEMMA TransitionFollows ==
    ASSUME Typed, NEW j \in Jobs, NEW s, NEW saved, Transition(j, s, saved)
    PROVE  RowFollows(j) /\ mem[j].state \notin Ends
<1>1. mem[j].state \notin Ends
    BY DEF Transition, CanTransition, Successors, Ends, JobState
<1>2. QED
    BY <1>1, StoreFollows DEF Transition

\* A step that leaves both tables alone keeps the ends.
LEMMA SameFollows ==
    ASSUME NEW j \in Jobs, UNCHANGED <<mem, db>>
    PROVE  RowFollows(j)
BY DEF RowFollows

\* The executor's transition, ...
LEMMA ReachFollows ==
    ASSUME Typed, NEW j \in Jobs, NEW s, NEW done, Reach(j, s, done)
    PROVE  RowFollows(j)
BY TransitionFollows, SameFollows DEF Reach

\* ... its failure, ...
LEMMA FailFollows ==
    ASSUME Typed, NEW j \in Jobs, NEW done, Fail(j, done)
    PROVE  RowFollows(j)
BY StoreFollows, SameFollows DEF Fail, Ends, Terminal

\* ... the failure of an engine, ...
LEMMA FailEngineFollows ==
    ASSUME Typed, NEW j \in Jobs, NEW canceled, NEW done, FailEngine(j, canceled, done)
    PROVE  RowFollows(j)
BY FailFollows, SameFollows DEF FailEngine

\* ... the writing of the snapshot as it stands ...
LEMMA ResaveFollows ==
    ASSUME Typed, NEW j \in Jobs, Resave(j), UNCHANGED mem
    PROVE  RowFollows(j)
BY DEF Tables, Typed, Resave, RowFollows

\* ... and a probe's plan keep the ends.
LEMMA SetPlanFollows ==
    ASSUME Typed, NEW j \in Jobs, NEW plan, NEW done, SetPlan(j, plan, done)
    PROVE  RowFollows(j)
BY StoreFollows, ResaveFollows, SameFollows DEF SetPlan, Ends

--------------------------------------------------------------------------------
(* The steps, and the ends.                                                 *)

\* No command undoes an end, not even for a job whose task still runs.
LEMMA CommandFollows ==
    ASSUME Typed, NEW j \in Jobs, Command(j)
    PROVE  RowFollows(j)
<1> USE DEF outside, memory, commands, engine, semaphore, files, history
<1>1. CASE CreateJob(j)
    BY <1>1, StoreFollows DEF CreateJob, Exists, Absent, Ends
<1>2. CASE Submit(j)
    BY <1>2, SameFollows DEF Submit
<1>3. CASE StartJob(j)
    BY <1>3, SameFollows DEF StartJob
<1>4. CASE CompleteSelection(j)
    BY <1>4, StoreFollows DEF CompleteSelection, Ends
<1>5. CASE AuthorizeJob(j)
    BY <1>5, SameFollows DEF AuthorizeJob
<1>6. CASE PauseJob(j)
    BY <1>6, TransitionFollows DEF PauseJob
<1>7. CASE ResumeJob(j)
    BY <1>7, SameFollows DEF ResumeJob
<1>8. CASE ResumeChecked(j)
    BY <1>8, TransitionFollows, SameFollows DEF ResumeChecked
<1>9. CASE RetryJob(j)
    BY <1>9, TransitionFollows DEF RetryJob
<1>10. CASE CancelJob(j)
    BY <1>10, TransitionFollows DEF CancelJob
<1>11. QED
    BY <1>1, <1>2, <1>3, <1>4, <1>5, <1>6, <1>7, <1>8, <1>9, <1>10
       DEF Command, CompleteJobSelection, SelectFormat

\* No late answer of an engine undoes an end.
LEMMA TaskFollows ==
    ASSUME Typed, NEW j \in Jobs, Task(j)
    PROVE  RowFollows(j)
<1> USE DEF outside, memory, commands, engine, semaphore, files, history
<1>u. UNCHANGED <<mem, db>> => RowFollows(j)
    BY SameFollows
<1>r. \A s, done : Reach(j, s, done) => RowFollows(j)
    BY ReachFollows
<1>f. \A done : Fail(j, done) => RowFollows(j)
    BY FailFollows
<1>e. \A canceled, done : FailEngine(j, canceled, done) => RowFollows(j)
    BY FailEngineFollows
<1>s. \A plan, done : SetPlan(j, plan, done) => RowFollows(j)
    BY SetPlanFollows
<1>b. Resave(j) /\ UNCHANGED mem => RowFollows(j)
    BY ResaveFollows
<1>1. CASE TaskStart(j)
    BY <1>1, <1>r, <1>f, <1>u DEF TaskStart
<1>2. CASE TaskResolve(j)
    BY <1>2, <1>e, <1>u DEF TaskResolve
<1>3. CASE TaskProbed(j)
    BY <1>3, <1>e, <1>s, <1>u DEF TaskProbed
<1>4. CASE TaskProceed(j)
    BY <1>4, <1>u DEF TaskProceed
<1>5. CASE TaskGranted(j)
    BY <1>5, <1>r, <1>u DEF TaskGranted
<1>6. CASE TaskPrepare(j)
    BY <1>6, <1>e, <1>b, <1>u DEF TaskPrepare
<1>7. CASE TaskLaunch(j)
    BY <1>7, <1>r, <1>u DEF TaskLaunch
<1>8. CASE TaskTransferred(j)
    BY <1>8, <1>e, <1>u DEF TaskTransferred
<1>9. CASE TaskBackoff(j)
    BY <1>9, <1>u DEF TaskBackoff
<1>10. CASE TaskPlace(j)
    BY <1>10, <1>r, <1>u DEF TaskPlace
<1>11. CASE TaskRename(j)
    BY <1>11, <1>b, <1>u DEF TaskRename
<1>12. CASE TaskComplete(j)
    BY <1>12, <1>r, <1>u DEF TaskComplete
<1>13. CASE TaskError(j)
    BY <1>13, <1>f, <1>u DEF TaskError
<1>14. CASE TaskSettle(j)
    BY <1>14, <1>u DEF TaskSettle
<1>15. CASE TaskUnmap(j)
    BY <1>15, <1>u DEF TaskUnmap
<1>16. QED
    BY <1>1, <1>2, <1>3, <1>4, <1>5, <1>6, <1>7, <1>8, <1>9, <1>10, <1>11, <1>12,
       <1>13, <1>14, <1>15 DEF Task

\* Every step of the running process keeps its ends.
LEMMA WorkFollows ==
    ASSUME Typed, NEW j \in Jobs, Command(j) \/ Task(j) \/ TaskProgress(j)
    PROVE  RowFollows(j)
<1>1. TaskProgress(j) => Resave(j) /\ UNCHANGED mem
    BY DEF TaskProgress, memory
<1>2. QED
    BY <1>1, CommandFollows, TaskFollows, ResaveFollows

--------------------------------------------------------------------------------
(* No end is invented, and ends are final.                                  *)

\* NoPhantomEnd is inductive once it is known that nothing runs while the process
\* is down, and that its start marks the rows it has listed; the same steps keep the
\* ends in the table.
LEMMA EndStep ==
    ASSUME IInv, NoPhantomEnd, [Next]_vars
    PROVE  /\ NoPhantomEnd'
           /\ \A k \in Jobs \ shared' : db[k].state \in Ends => db'[k].state = db[k].state
<1> USE DEF Ends
<1>0. Typed /\ DownIsIdle /\ Marks
    BY DEF IInv
<1> DEFINE Kept(k) == /\ up' /\ db'[k].state \in Ends => mem'[k].state = db'[k].state
                      /\ db[k].state \in Ends => db'[k].state = db[k].state
<1> SUFFICES ASSUME NEW k \in Jobs \ shared'
             PROVE  Kept(k)
    BY DEF NoPhantomEnd
<1>k. k \notin shared => (up /\ db[k].state \in Ends => mem[k].state = db[k].state)
    BY DEF NoPhantomEnd
<1>1. ASSUME NEW j \in Jobs, Command(j) \/ Task(j) \/ TaskProgress(j)
      PROVE  Kept(k)
    <2>1. up /\ up' /\ RowFollows(j) /\ shared' = shared
        BY <1>0, <1>1, WorkIsUp, WorkFollows, WorkInside
    <2>2. QED
        BY <1>k, <2>1 DEF RowFollows
<1>2. ASSUME NEW j \in Jobs, MarkInterrupted(j)
      PROVE  Kept(k)
    <2>1. ~up' /\ shared' = shared
        BY <1>0, <1>2, MarkAt DEF Marks, MarkInterrupted
    <2>2. k # j => db'[k] = db[k]
        BY <1>0, <1>2, MarkAt
    <2>3. k = j => db[j].state \notin Ends
        BY <1>0, <1>2, <2>1 DEF MarkInterrupted, Marks, Active
    <2>4. QED
        BY <2>1, <2>2, <2>3
<1>3. ASSUME NEW j \in Jobs, Another(j)
      PROVE  Kept(k)
    BY <1>0, <1>k, <1>3, AnotherOutside
<1>4. CASE Crash
    BY <1>4 DEF Crash
<1>5. CASE Restart
    BY <1>5 DEF Restart
<1>6. CASE ListActive
    BY <1>k, <1>6, ListAt
<1>7. CASE UNCHANGED vars
    BY <1>k, <1>7 DEF vars, outside
<1>8. QED
    BY <1>1, <1>2, <1>3, <1>4, <1>5, <1>6, <1>7 DEF Next

\* Whatever writes fail, the table never tells of an end that memory does not know,
\* unless another instance has worked on the job.
THEOREM NoEndInvented == Spec => []NoPhantomEnd
<1>1. Init => NoPhantomEnd
    BY DEF Init, NoPhantomEnd, NoSnapshot, Absent
<1>2. IInv /\ NoPhantomEnd /\ [Next]_vars => NoPhantomEnd'
    BY EndStep
<1>3. QED
    BY <1>1, <1>2, Inductive, PTL DEF Spec

\* Completed and Canceled are final in the table, over every crash and restart of this
\* instance, every late answer and command: only another instance undoes an end.
THEOREM EndsAreFinal == Spec => EndIsFinal
<1>1. Init => NoPhantomEnd
    BY DEF Init, NoPhantomEnd, NoSnapshot, Absent
<1>2. IInv /\ NoPhantomEnd /\ [Next]_vars => NoPhantomEnd'
    BY EndStep
<1>3. IInv /\ NoPhantomEnd /\ [Next]_vars
          => [\A j \in Jobs \ shared' :
                 db[j].state \in {"Completed", "Canceled"} => db'[j].state = db[j].state]_vars
    BY EndStep DEF Ends
<1>4. QED
    BY <1>1, <1>2, <1>3, Inductive, PTL DEF Spec, EndIsFinal

--------------------------------------------------------------------------------
(* The files of completed jobs.                                             *)

\* Where the task of a completed job may stand: past download(), or stopped at
\* once because a job that has ended was started again.
AfterTheEnd == {"idle", "start", "error", "settle", "unmap"}

\* The file of the latest download has come to its destination.
Filed(j) == j \in placed \cup replaced

\* The file has come there before the end is recorded, and nothing downloads for a
\* completed job.
FileAt(j) ==
    /\ pc[j] = "complete" => Filed(j)
    /\ mem[j].state = "Completed" => Filed(j) /\ pc[j] \in AfterTheEnd
    /\ db[j].state = "Completed" => Filed(j)

\* No command completes a job.
LEMMA CommandCompletes ==
    ASSUME Typed, NEW j \in Jobs, Command(j), mem'[j].state = "Completed"
    PROVE  mem[j].state = "Completed"
<1> USE DEF outside, memory, commands, engine, semaphore, files, history
<1>w. \A s, saved : Store(j, WithState(j, s), saved) => mem'[j].state = s
    <2>1. \A s : WithState(j, s).state = s
        BY DEF Tables, Typed, Snapshot, WithState
    <2>2. QED
        BY <2>1, StoreAt
<1>t. \A s, saved : Transition(j, s, saved) => mem'[j].state = s
    BY TransitionAt
<1>1. CASE CreateJob(j)
    BY <1>1, <1>w DEF CreateJob
<1>2. CASE Submit(j) \/ StartJob(j) \/ AuthorizeJob(j) \/ ResumeJob(j)
    BY <1>2 DEF Submit, StartJob, AuthorizeJob, ResumeJob
<1>3. CASE CompleteSelection(j)
    BY <1>3, <1>w DEF CompleteSelection
<1>4. CASE PauseJob(j)
    BY <1>4, <1>t DEF PauseJob
<1>5. CASE ResumeChecked(j)
    BY <1>5, <1>t DEF ResumeChecked
<1>6. CASE RetryJob(j)
    <2>1. PICK s \in {"Probing", "Queued"} : \E saved : Transition(j, s, saved)
        BY <1>6 DEF RetryJob
    <2>2. QED
        BY <2>1, <1>t
<1>7. CASE CancelJob(j)
    BY <1>7, <1>t DEF CancelJob
<1>8. QED
    BY <1>1, <1>2, <1>3, <1>4, <1>5, <1>6, <1>7
       DEF Command, CompleteJobSelection, SelectFormat

\* No command takes a file away.
LEMMA CommandPlaces ==
    ASSUME NEW j \in Jobs, Command(j)
    PROVE  placed' = placed /\ replaced' = replaced
BY DEF Command, CreateJob, Submit, StartJob, CompleteJobSelection, SelectFormat,
    CompleteSelection, AuthorizeJob, PauseJob, ResumeJob, ResumeChecked, RetryJob,
    CancelJob, files, history

\* A command keeps what is said of the files.
LEMMA CommandFile ==
    ASSUME Typed, NEW j \in Jobs, Command(j), token[j] = "none" <=> pc[j] = "idle",
           FileAt(j)
    PROVE  FileAt(j)'
<1>1. Filed(j)' <=> Filed(j)
    BY CommandPlaces DEF Filed
<1>2. pc'[j] = pc[j] \/ pc'[j] = "start"
    BY CommandEntry
<1>3. mem'[j].state = "Completed" => mem[j].state = "Completed"
    BY CommandCompletes
<1>4. db'[j] \in {db[j], mem'[j]}
    BY CommandFollows DEF RowFollows
<1>5. QED
    BY <1>1, <1>2, <1>3, <1>4 DEF FileAt, AfterTheEnd

\* A task completes its job only after the file was moved.
LEMMA TaskFile ==
    ASSUME Typed, NEW j \in Jobs, Task(j), FileAt(j),
           db[j].state = "Completed" => mem[j].state = "Completed"
    PROVE  FileAt(j)'
<1> USE DEF Filed, FileAt, outside, memory, commands, engine, semaphore, files, history
<1> DEFINE NotYet == mem[j].state # "Completed" => mem'[j].state # "Completed"
<1>r. db'[j] \in {db[j], mem'[j]}
    BY TaskFollows DEF RowFollows
<1>g. \A label : Goto(j, label) => pc'[j] = label
    BY DEF Goto, Tables, Typed
<1>p. \A done : ProbeEnds(j, done) => pc'[j] \in {"proceed", "error"}
    BY <1>g DEF ProbeEnds
<1>d. \A done : DownloadEnds(j, done) => pc'[j] \in {"settle", "error"}
    BY <1>g DEF DownloadEnds
<1>a. /\ {"settle", "error", "unmap", "idle"} \subseteq AfterTheEnd
      /\ AfterTheEnd \cap {"resolve", "probe", "proceed", "wait", "prepare", "launch",
             "transfer", "backoff", "place", "rename", "complete"} = {}
    BY DEF AfterTheEnd
<1>n. ~TaskComplete(j) => NotYet
    <2>r. \A s, done : Reach(j, s, done) => mem'[j].state \in {s, mem[j].state}
        BY ReachAt
    <2>f. \A done : Fail(j, done) => NotYet
        <3>1. WithState(j, "Failed").state = "Failed"
            BY DEF Tables, Typed, Snapshot, WithState
        <3>2. QED
            BY <3>1, StoreAt DEF Fail
    <2>e. \A canceled, done : FailEngine(j, canceled, done) => NotYet
        BY <2>f DEF FailEngine
    <2>s. \A plan \in Plans : \A done : SetPlan(j, plan, done) => NotYet
        BY SetPlanAt
    <2>1. CASE TaskStart(j)
        BY <2>1, <2>r, <2>f DEF TaskStart
    <2>2. CASE TaskResolve(j)
        BY <2>2, <2>e DEF TaskResolve
    <2>3. CASE TaskProbed(j)
        BY <2>3, <2>e, <2>s DEF TaskProbed
    <2>4. CASE TaskGranted(j)
        BY <2>4, <2>r DEF TaskGranted
    <2>5. CASE TaskPrepare(j)
        BY <2>5, <2>e DEF TaskPrepare
    <2>6. CASE TaskLaunch(j)
        <3>1. \E done \in BOOLEAN : Reach(j, "Downloading", done)
            BY <2>6 DEF TaskLaunch
        <3>2. QED
            BY <3>1, <2>r
    <2>7. CASE TaskTransferred(j)
        BY <2>7, <2>e DEF TaskTransferred
    <2>8. CASE TaskPlace(j)
        <3>1. mem' = mem \/ \E done \in BOOLEAN : Reach(j, "PostProcessing", done)
            BY <2>8 DEF TaskPlace
        <3>2. QED
            BY <3>1, <2>r
    <2>9. CASE TaskError(j)
        BY <2>9, <2>f DEF TaskError
    <2>10. CASE TaskProceed(j) \/ TaskBackoff(j) \/ TaskRename(j) \/ TaskSettle(j)
                \/ TaskUnmap(j)
        BY <2>10 DEF TaskProceed, TaskBackoff, TaskRename, TaskSettle, TaskUnmap
    <2>11. QED
        BY <2>1, <2>2, <2>3, <2>4, <2>5, <2>6, <2>7, <2>8, <2>9, <2>10 DEF Task
<1>1. CASE TaskStart(j)
    <2>1. UNCHANGED <<placed, replaced>> /\ pc[j] = "start"
        BY <1>1 DEF TaskStart
    <2>2. pc'[j] # "complete"
        BY <1>1, <1>g, <1>p DEF TaskStart
    <2>3. mem[j].state = "Completed" => pc'[j] \in AfterTheEnd
        BY <1>1, <1>a, <1>g DEF TaskStart
    <2>4. NotYet
        BY <1>1, <1>n DEF TaskStart, TaskComplete
    <2>5. QED
        BY <1>r, <2>1, <2>2, <2>3, <2>4
<1>2. CASE pc[j] \in {"resolve", "probe", "proceed", "prepare", "launch", "transfer",
                      "backoff", "place"}
    <2>1. UNCHANGED <<placed, replaced>> /\ pc'[j] # "complete"
        BY <1>2, <1>d, <1>g, <1>p DEF Task, TaskStart, TaskResolve, TaskProbed, TaskProceed,
            TaskGranted, TaskPrepare, TaskLaunch, TaskTransferred, TaskBackoff, TaskPlace,
            TaskRename, TaskComplete, TaskError, TaskSettle, TaskUnmap, NextEngine
    <2>2. mem[j].state # "Completed" /\ NotYet
        BY <1>2, <1>a, <1>n DEF TaskComplete
    <2>3. QED
        BY <1>r, <2>1, <2>2
<1>3. CASE TaskGranted(j)
    <2>1. mem[j].state # "Completed" /\ NotYet
        BY <1>3, <1>a, <1>n DEF TaskGranted, TaskComplete
    <2>2. pc'[j] # "complete"
        BY <1>3, <1>g DEF TaskGranted
    <2>3. QED
        BY <1>r, <2>1, <2>2
<1>4. CASE TaskRename(j)
    <2>1. mem[j].state # "Completed" /\ NotYet
        BY <1>4, <1>a, <1>n DEF TaskRename, TaskComplete
    <2>2. pc'[j] = "complete" => Filed(j)'
        <3>1. MoveFile(j) => j \in placed'
            BY DEF MoveFile
        <3>2. DownloadEnds(j, FALSE) => pc'[j] # "complete"
            BY <1>d
        <3>3. MoveFile(j) \/ DownloadEnds(j, FALSE)
            BY <1>4 DEF TaskRename
        <3>4. QED
            BY <3>1, <3>2, <3>3
    <2>3. QED
        BY <1>r, <2>1, <2>2
<1>5. CASE TaskComplete(j)
    <2>1. Filed(j) /\ UNCHANGED <<placed, replaced>>
        BY <1>5 DEF TaskComplete
    <2>2. pc'[j] \in AfterTheEnd /\ pc'[j] # "complete"
        BY <1>5, <1>a, <1>d DEF TaskComplete
    <2>3. QED
        BY <2>1, <2>2
<1>6. CASE TaskError(j) \/ TaskSettle(j) \/ TaskUnmap(j)
    <2>1. UNCHANGED <<placed, replaced>> /\ pc'[j] \in AfterTheEnd /\ pc'[j] # "complete"
        BY <1>6, <1>a, <1>g DEF TaskError, TaskSettle, TaskUnmap
    <2>2. NotYet
        BY <1>6, <1>n DEF TaskError, TaskSettle, TaskUnmap, TaskComplete
    <2>3. QED
        BY <1>r, <2>1, <2>2
<1>7. QED
    BY <1>1, <1>2, <1>3, <1>4, <1>5, <1>6 DEF Task, TaskResolve, TaskProbed, TaskProceed,
        TaskPrepare, TaskLaunch, TaskTransferred, TaskBackoff, TaskPlace

\* A task takes no file of another job away but by replacing it.
LEMMA TaskPlaces ==
    ASSUME NEW j \in Jobs, Task(j), NEW k \in Jobs \ {j}
    PROVE  Filed(k) => Filed(k)'
<1>1. CASE TaskRename(j)
    BY <1>1 DEF TaskRename, MoveFile, Filed
<1>2. CASE TaskGranted(j)
    BY <1>2 DEF TaskGranted, Filed
<1>3. CASE ~(TaskRename(j) \/ TaskGranted(j))
    BY <1>3 DEF Task, TaskStart, TaskResolve, TaskProbed, TaskProceed, TaskPrepare,
        TaskLaunch, TaskTransferred, TaskBackoff, TaskPlace, TaskComplete, TaskError,
        TaskSettle, TaskUnmap, files, history, Filed
<1>4. QED
    BY <1>1, <1>2, <1>3

\* Every step keeps what is said of the files: the end in the table is one memory
\* knows, so that no task that may start a download belongs to it.
LEMMA FileStep ==
    ASSUME IInv, NoPhantomEnd, \A j \in Jobs \ shared : FileAt(j), [Next]_vars
    PROVE  \A j \in Jobs \ shared' : FileAt(j)'
<1>0. Typed /\ DownIsIdle
    BY DEF IInv
<1> SUFFICES ASSUME NEW k \in Jobs \ shared'
             PROVE  FileAt(k)'
    OBVIOUS
<1>1. ASSUME NEW j \in Jobs, Command(j) \/ Task(j)
      PROVE  FileAt(k)'
    <2>1. Elsewhere(j) /\ RowFollows(j) /\ up /\ shared' = shared
        BY <1>0, <1>1, CommandElsewhere, TaskElsewhere, WorkIsUp, WorkFollows, WorkInside
    <2>2. CASE k = j
        <3>1. db[j].state = "Completed" => mem[j].state = "Completed"
            BY <2>1, <2>2 DEF NoPhantomEnd
        <3>2. token[j] = "none" <=> pc[j] = "idle"
            BY DEF IInv, EntryIffTask
        <3>3. FileAt(j)
            BY <2>1, <2>2
        <3>4. QED
            BY <1>0, <1>1, <2>2, <3>1, <3>2, <3>3, CommandFile, TaskFile
    <2>3. CASE k # j
        <3>1. Filed(k) => Filed(k)'
            BY <1>1, <2>3, CommandPlaces, TaskPlaces DEF Filed
        <3>2. FileAt(k)
            BY <2>1
        <3>3. QED
            BY <2>1, <2>3, <3>1, <3>2 DEF Elsewhere, RowFollows, FileAt
    <2>4. QED
        BY <2>2, <2>3
<1>2. ASSUME NEW j \in Jobs, TaskProgress(j)
      PROVE  FileAt(k)'
    <2>1. db'[k] \in {db[k], mem[k]}
        BY <1>0, <1>2 DEF TaskProgress, Resave, Tables, Typed
    <2>2. UNCHANGED <<mem, pc, placed, replaced, shared>>
        BY <1>2 DEF TaskProgress, outside, memory, files, history
    <2>3. QED
        BY <2>1, <2>2 DEF FileAt, Filed
<1>3. ASSUME NEW j \in Jobs, MarkInterrupted(j)
      PROVE  FileAt(k)'
    <2>1. db'[k] = db[k] \/ db'[k].state = "Interrupted"
        BY <1>0, <1>3, MarkAt
    <2>2. UNCHANGED <<mem, pc, placed, replaced, shared>>
        BY <1>0, <1>3, MarkAt
    <2>3. QED
        BY <2>1, <2>2 DEF FileAt, Filed
<1>4. ASSUME NEW j \in Jobs, Another(j)
      PROVE  FileAt(k)'
    BY <1>0, <1>4, AnotherOutside DEF FileAt, Filed
<1>5. CASE Crash
    BY <1>5 DEF Crash, FileAt, Filed, NoSnapshot, Absent
<1>6. CASE Restart
    BY <1>0, <1>6 DEF Restart, FileAt, Filed, DownIsIdle, AfterTheEnd, files
<1>7. CASE ListActive
    BY <1>7, ListAt DEF FileAt, Filed
<1>8. CASE UNCHANGED vars
    BY <1>8 DEF vars, outside, files, FileAt, Filed
<1>9. QED
    BY <1>1, <1>2, <1>3, <1>4, <1>5, <1>6, <1>7, <1>8 DEF Next

\* Whatever fails, whenever the process ends and however often a job is retried: a
\* job recorded as completed has the file of its latest download in place, unless a
\* file whose destination had been found free before has replaced it.
THEOREM CompletedJobsHaveFiles == Spec => []CompletedHasFile
<1> DEFINE Files == \A j \in Jobs \ shared : FileAt(j)
<1>1. Init => NoPhantomEnd /\ Files
    BY DEF Init, NoPhantomEnd, NoSnapshot, Absent, FileAt
<1>2. IInv /\ NoPhantomEnd /\ Files /\ [Next]_vars => (NoPhantomEnd /\ Files)'
    BY EndStep, FileStep
<1>3. Files => CompletedHasFile
    BY DEF FileAt, Filed, CompletedHasFile
<1>4. QED
    BY <1>1, <1>2, <1>3, Inductive, PTL DEF Spec

================================================================================
