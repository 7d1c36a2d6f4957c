------------------------ MODULE ProcessSupervisorProofs ------------------------
(***************************************************************************)
(* What ProcessSupervisor promises, proved for any finite set of helpers,  *)
(* both platforms, any limit and any amount of output.                     *)
(***************************************************************************)
EXTENDS ProcessSupervisorProps, TLAPS

\* The engine and its pipes are told apart by their names.
LEMMA Names == Engine \in Procs /\ Helpers \subseteq Procs /\ Engine \notin Helpers
    BY HelpersAssumption DEF Procs

--------------------------------------------------------------------------------
(* The types.                                                               *)

\* The types hold at the start.
LEMMA InitTypes == ASSUME Init PROVE TypeOK
    BY LimitsAssumption DEF Init, TypeOK, Streams

\* The processes keep the types.
LEMMA ProcessTypes == ASSUME TypeOK, ProcessStep PROVE TypeOK'
<1>1. ASSUME NEW p \in Procs, Exit(p) PROVE TypeOK'
    BY <1>1 DEF TypeOK, Exit, output, clock
<1>2. ASSUME NEW p \in Procs, NEW h \in Helpers, SpawnHelper(p, h) PROVE TypeOK'
    BY <1>2, Names DEF TypeOK, SpawnHelper, output, clock
<1>3. ASSUME NEW p \in Procs, NEW s \in Streams, Write(p, s) PROVE TypeOK'
    BY <1>3 DEF TypeOK, Write, os, clock
<1>4. ASSUME NEW p \in Procs, NEW end \in Streams \cup {"stdin"}, CloseEnd(p, end)
      PROVE  TypeOK'
    BY <1>4 DEF TypeOK, CloseEnd, output, clock
<1>5. ASSUME NEW h \in Helpers, LeaveGroup(h) PROVE TypeOK'
    BY <1>5 DEF TypeOK, LeaveGroup, output, clock
<1> QED BY <1>1, <1>2, <1>3, <1>4, <1>5 DEF ProcessStep

\* A kill leaves processes and pipe ends of their types.
LEMMA KillTypes ==
    ASSUME TypeOK, NEW victims, Kill(victims)
    PROVE  /\ proc' \in [Procs -> {"none", "running", "succeeded", "failed", "killed"}]
           /\ holds' \in [Procs -> SUBSET (Streams \cup {"stdin"})]
    BY DEF TypeOK, Kill

\* So do the tasks of run, run itself, the adapter, the user and the clock.
LEMMA TaskTypes ==
    ASSUME TypeOK, ReaderStep \/ InputRead \/ InputBroken \/ Report \/ Cancel \/ Elapse
    PROVE  TypeOK'
<1>1. ASSUME NEW s \in Streams, ReadLine(s) PROVE TypeOK'
    <2>1. lines' \in Nat /\ pipe' \in [Streams -> Nat]
        BY <1>1 DEF TypeOK, ReadLine
    <2>2. reader' \in [Streams -> {"reading", "ok", "err"}] /\ kept' \in [Streams -> Nat]
        BY <1>1 DEF TypeOK, ReadLine
    <2> QED BY <1>1, <2>1, <2>2 DEF TypeOK, ReadLine, os, clock
<1>2. ASSUME NEW s \in Streams, ReadEnd(s) PROVE TypeOK'
    BY <1>2 DEF TypeOK, ReadEnd, os, clock
<1>3. CASE InputRead
    BY <1>3 DEF TypeOK, InputRead, os, output, clock
<1>4. CASE InputBroken
    BY <1>4 DEF TypeOK, InputBroken, os, output, clock
<1>5. CASE Report
    BY <1>5 DEF TypeOK, Report, os, output, clock
<1>6. CASE Cancel
    BY <1>6 DEF TypeOK, Cancel, os, output
<1>7. CASE Elapse
    BY <1>7 DEF TypeOK, Elapse, os, output
<1> QED BY <1>1, <1>2, <1>3, <1>4, <1>5, <1>6, <1>7 DEF ReaderStep

LEMMA RunTypes == ASSUME TypeOK, RunStep PROVE TypeOK'
<1>1. CASE Spawn
    BY <1>1, Names DEF TypeOK, Spawn, NotStarted, output, clock
<1>2. CASE Attach
    BY <1>2 DEF TypeOK, Attach, os, output, clock
<1>3. CASE AttachFails
    BY <1>3, KillTypes DEF TypeOK, AttachFails, NotStarted, output, clock
<1>4. CASE ChildExits
    BY <1>4, KillTypes DEF TypeOK, ChildExits, output, clock
<1>5. CASE TokenCancelled
    BY <1>5 DEF TypeOK, TokenCancelled, Interrupt, os, output, clock
<1>6. CASE DeadlineOver
    BY <1>6 DEF TypeOK, DeadlineOver, Interrupt, os, output, clock
<1>7. ASSUME NEW s \in Streams, ReaderSent(s) PROVE TypeOK'
    BY <1>7 DEF TypeOK, ReaderSent, Interrupt, os, output, clock
<1>8. ASSUME NEW s \in Streams, Collect(s) PROVE TypeOK'
    BY <1>8 DEF TypeOK, Collect, os, output, clock
<1>9. CASE ReadersStopped
    BY <1>9, KillTypes DEF TypeOK, ReadersStopped, Return, output, clock
<1>10. CASE GraceEnds
    BY <1>10, KillTypes DEF TypeOK, GraceEnds, output, clock
<1>11. CASE Finish
    BY <1>11, KillTypes DEF TypeOK, Finish, Return, output, clock
<1> QED BY <1>1, <1>2, <1>3, <1>4, <1>5, <1>6, <1>7, <1>8, <1>9, <1>10, <1>11 DEF RunStep

\* Every step keeps the types.
LEMMA NextTypes == ASSUME TypeOK, [Next]_vars PROVE TypeOK'
<1>1. CASE UNCHANGED vars
    BY <1>1 DEF TypeOK, vars
<1> QED BY <1>1, ProcessTypes, TaskTypes, RunTypes DEF Next

\* Every variable of a run always has its type.
THEOREM RunTypeCorrect == Spec => []TypeOK
    BY InitTypes, NextTypes, PTL DEF Spec

--------------------------------------------------------------------------------
(* The output.                                                              *)

\* What the readers keep is counted by the counter they share, also when it has gone
\* beyond the limit.
Bounded == kept["stdout"] + kept["stderr"] <= lines /\ OutputIsBounded

\* A reader that has not met the limit has lost no line, and one that has come to the
\* end has left none in the pipe.
Counted ==
    \A s \in Streams :
        /\ reader[s] # "err" => written[s] = kept[s] + pipe[s]
        /\ reader[s] = "ok" => pipe[s] = 0

\* A line read is counted before it is kept.
LEMMA ReadLineCounts ==
    ASSUME TypeOK, Bounded, Counted, NEW s \in Streams, ReadLine(s)
    PROVE  Bounded' /\ Counted'
<1>1. Bounded'
    <2>1. CASE lines < MaxLines
        BY <2>1, LimitsAssumption DEF TypeOK, Bounded, OutputIsBounded, ReadLine, Streams
    <2>2. CASE ~(lines < MaxLines)
        <3>1. kept' = kept /\ lines' = lines + 1
            BY <2>2 DEF ReadLine
        <3>2. kept["stdout"] \in Nat /\ kept["stderr"] \in Nat /\ lines \in Nat
            BY DEF TypeOK, Streams
        <3> QED BY <3>1, <3>2 DEF Bounded, OutputIsBounded
    <2> QED BY <2>1, <2>2
<1>2. Counted'
    BY DEF TypeOK, Counted, ReadLine, ReaderRuns
<1> QED BY <1>1, <1>2

\* Every step keeps both.
LEMMA NextCounts == ASSUME TypeOK, Bounded, Counted, [Next]_vars PROVE Bounded' /\ Counted'
<1>1. CASE UNCHANGED output
    BY <1>1 DEF output, Bounded, OutputIsBounded, Counted
<1>2. ASSUME NEW p \in Procs, NEW s \in Streams, Write(p, s) PROVE Bounded' /\ Counted'
    <2>1. Bounded'
        <3>1. kept' = kept /\ lines' = lines
            BY <1>2 DEF Write
        <3> QED BY <3>1 DEF Bounded, OutputIsBounded
    <2>2. Counted'
        BY <1>2 DEF TypeOK, Counted, Write
    <2> QED BY <2>1, <2>2
<1>3. ASSUME NEW s \in Streams, ReadEnd(s) PROVE Bounded' /\ Counted'
    <2>1. Bounded'
        <3>1. kept' = kept /\ lines' = lines
            BY <1>3 DEF ReadEnd
        <3> QED BY <3>1 DEF Bounded, OutputIsBounded
    <2>2. Counted'
        BY <1>3 DEF TypeOK, Counted, ReadEnd, ReaderRuns
    <2> QED BY <2>1, <2>2
<1>4. CASE UNCHANGED vars
    BY <1>1, <1>4 DEF vars, output
<1>5. CASE ProcessStep
    BY <1>1, <1>2, <1>5 DEF ProcessStep, Exit, SpawnHelper, CloseEnd, LeaveGroup
<1>6. CASE ReaderStep
    BY <1>3, <1>6, ReadLineCounts DEF ReaderStep
<1>7. CASE RunStep
    BY <1>1, <1>7 DEF RunStep, Spawn, Attach, AttachFails, ChildExits, TokenCancelled,
       DeadlineOver, ReaderSent, Interrupt, Collect, ReadersStopped, GraceEnds, Finish
<1>8. CASE InputRead \/ InputBroken \/ Report \/ Cancel \/ Elapse
    BY <1>1, <1>8 DEF InputRead, InputBroken, Report, Cancel, Elapse
<1> QED BY <1>4, <1>5, <1>6, <1>7, <1>8 DEF Next

\* The readers together never keep more lines than the limit, which rests on the counter
\* being taken before a line is kept.
THEOREM OutputNeverExceeds == Spec => []OutputIsBounded
<1>1. Init => Bounded /\ Counted
    BY LimitsAssumption DEF Init, Bounded, OutputIsBounded, Counted, Streams
<1>2. Bounded => OutputIsBounded
    BY DEF Bounded
<1> QED BY <1>1, <1>2, NextCounts, RunTypeCorrect, PTL DEF Spec

--------------------------------------------------------------------------------
(* Success.                                                                 *)

\* A result is received when its reader has ended, and the loop goes on with good ones.
ReceivedEnded ==
    \A s \in received : reader[s] # "reading" /\ (run = "select" => reader[s] = "ok")

\* The group has been asked to end for one of three reasons, which stay.
Reasons == interrupted => cancelled \/ timedOut \/ ReaderError

\* A run that succeeded has seen the engine's success, all of its output, and none of
\* those reasons but the token.
SuccessSeen ==
    result = "success" =>
        /\ run = "returned"
        /\ proc[Engine] = "succeeded"
        /\ received = Streams
        /\ ~timedOut
        /\ ~ReaderError

\* The adapter has looked at the token after the run.
VerdictSeen == verdict = "ok" => result = "success" /\ ~cancelled

\* The readers start when the engine has been attached.
ReadersStart == run \in {"spawn", "attach"} => \A s \in Streams : reader[s] = "reading"

SuccessInv == ReadersStart /\ ReceivedEnded /\ Reasons /\ SuccessSeen /\ VerdictSeen

\* A kill does not change how the engine has ended.
LEMMA KillKeepsSuccess ==
    ASSUME NEW victims, Kill(victims), proc[Engine] = "succeeded"
    PROVE  proc'[Engine] = "succeeded"
    BY Names DEF Kill, Running

\* What the processes do is not seen here but in the engine's status, which is final.
LEMMA ProcessSuccess == ASSUME TypeOK, SuccessInv, ProcessStep PROVE SuccessInv'
<1>1. /\ UNCHANGED <<reader, received, run, interrupted, cancelled, timedOut, result, verdict>>
      /\ proc[Engine] = "succeeded" => proc'[Engine] = "succeeded"
    BY Names DEF ProcessStep, Exit, SpawnHelper, Write, CloseEnd, LeaveGroup, Running,
       os, output, clock, TypeOK
<1> QED
    BY <1>1 DEF SuccessInv, ReadersStart, ReceivedEnded, Reasons, ReaderError, SuccessSeen,
       VerdictSeen

\* A reader that ends has not been received.
LEMMA ReaderSuccess == ASSUME TypeOK, SuccessInv, ReaderStep PROVE SuccessInv'
<1>1. PICK s \in Streams : ReadLine(s) \/ ReadEnd(s)
    BY DEF ReaderStep
<1>2. /\ UNCHANGED <<proc, received, run, interrupted, cancelled, timedOut, result, verdict>>
      /\ reader[s] = "reading"
      /\ \A t \in Streams \ {s} : reader'[t] = reader[t]
    BY <1>1 DEF ReadLine, ReadEnd, ReaderRuns, os, clock, TypeOK
<1>3. run \notin {"spawn", "attach"}
    BY <1>1 DEF ReadLine, ReadEnd, ReaderRuns
<1>4. s \notin received
    BY <1>2 DEF SuccessInv, ReceivedEnded
<1>5. ReaderError' <=> ReaderError
    BY <1>2, <1>4 DEF ReaderError, TypeOK
<1> QED
    BY <1>2, <1>3, <1>4, <1>5
       DEF SuccessInv, ReadersStart, ReceivedEnded, Reasons, SuccessSeen, VerdictSeen, TypeOK

\* The steps of run.
LEMMA RunSuccess ==
    ASSUME TypeOK, SuccessInv, RunStep
    PROVE  SuccessInv'
<1>0. run \in {"spawn", "attach"} => received = {}
    BY DEF SuccessInv, ReadersStart, ReceivedEnded, TypeOK
<1> USE DEF SuccessInv, ReadersStart, ReceivedEnded, Reasons, ReaderError, SuccessSeen, VerdictSeen
<1>1. CASE Spawn \/ Attach \/ AttachFails \/ ChildExits \/ GraceEnds \/ ReadersStopped
    BY <1>0, <1>1 DEF Spawn, Attach, AttachFails, ChildExits, GraceEnds, ReadersStopped, Return,
       os, output, clock
<1>2. CASE TokenCancelled \/ DeadlineOver
    BY <1>2 DEF TokenCancelled, DeadlineOver, Interrupt, os, output, clock
<1>3. ASSUME NEW s \in Streams, ReaderSent(s) PROVE SuccessInv'
    BY <1>3 DEF ReaderSent, Interrupt, Sent, os, output, clock, TypeOK
<1>4. ASSUME NEW s \in Streams, Collect(s) PROVE SuccessInv'
    BY <1>4 DEF Collect, Sent, os, output, clock, TypeOK
<1>5. CASE Finish
    BY <1>5, KillKeepsSuccess DEF Finish, Return, output, clock
<1> QED BY <1>1, <1>2, <1>3, <1>4, <1>5 DEF RunStep

\* Every step keeps what a success rests on.
LEMMA NextSuccess == ASSUME TypeOK, SuccessInv, [Next]_vars PROVE SuccessInv'
<1> USE DEF SuccessInv, ReadersStart, ReceivedEnded, Reasons, ReaderError, SuccessSeen, VerdictSeen
<1>1. CASE InputRead \/ InputBroken \/ Elapse
    BY <1>1 DEF InputRead, InputBroken, Elapse, os, output, clock
<1>2. CASE Report
    BY <1>2 DEF Report, os, output, clock
<1>3. CASE Cancel
    BY <1>3 DEF Cancel, os, output
<1>4. CASE UNCHANGED vars
    BY <1>4 DEF vars
<1> QED BY <1>1, <1>2, <1>3, <1>4, ProcessSuccess, ReaderSuccess, RunSuccess DEF Next

\* What the adapter takes for a success is whole: the engine ended with success, had not
\* been asked to end, and its output was collected to the last line.
THEOREM SuccessesAreComplete == Spec => []SuccessIsComplete
<1>1. Init => SuccessInv
    BY DEF Init, SuccessInv, ReadersStart, ReceivedEnded, Reasons, SuccessSeen, VerdictSeen
<1>2. Init => Bounded /\ Counted
    BY LimitsAssumption DEF Init, Bounded, OutputIsBounded, Counted, Streams
<1>3. TypeOK /\ SuccessInv /\ Counted => SuccessIsComplete
    <2> SUFFICES ASSUME TypeOK, SuccessInv, Counted, verdict = "ok"
                 PROVE  /\ proc[Engine] = "succeeded"
                        /\ ~interrupted
                        /\ \A s \in Streams :
                               s \in received /\ reader[s] = "ok" /\ kept[s] = written[s]
        BY DEF SuccessIsComplete
    <2>1. /\ proc[Engine] = "succeeded" /\ received = Streams
          /\ ~cancelled /\ ~timedOut /\ ~ReaderError
        BY DEF SuccessInv, SuccessSeen, VerdictSeen
    <2>2. ~interrupted
        BY <2>1 DEF SuccessInv, Reasons
    <2>3. ASSUME NEW s \in Streams PROVE reader[s] = "ok"
        BY <2>1 DEF SuccessInv, ReceivedEnded, ReaderError, TypeOK
    <2>4. ASSUME NEW s \in Streams PROVE kept[s] = written[s]
        BY <2>3 DEF Counted, TypeOK
    <2> QED BY <2>1, <2>2, <2>3, <2>4
<1> QED BY <1>1, <1>2, <1>3, NextCounts, NextSuccess, RunTypeCorrect, PTL DEF Spec

--------------------------------------------------------------------------------
(* The processes left when run returns.                                     *)

\* A stream whose reader has come to the end is held by nobody.
Closed == \A s \in Streams : reader[s] = "ok" => \A p \in Procs : s \notin holds[p]

\* Before the engine is started nothing runs, ...
NothingRuns == run = "spawn" => \A p \in Procs : proc[p] = "none"

\* ... helpers started before the engine is in its job are outside it, ...
StartedOutside ==
    run = "attach" /\ platform = "windows" => \A h \in Helpers : Running(h) => h \in escaped

\* ... and what has not left the group does not outlive its end.
GroupGone == run = "collect" => Survivors = {}

TreeInv == Closed /\ NothingRuns /\ StartedOutside /\ GroupGone /\ EnginesEndWithRun

\* The group is made of processes and has the engine.
LEMMA InGroup == ASSUME TypeOK PROVE Engine \in Group /\ Group \subseteq Procs
    BY Names DEF Group, TypeOK

\* What the end of the engine and a kill leave.
LEMMA KillEnds ==
    ASSUME TypeOK, NEW victims, Kill(victims), escaped' = escaped
    PROVE  /\ \A p \in Procs : proc'[p] = "running" <=> Running(p) /\ p \notin victims
           /\ \A p \in Procs : holds'[p] \subseteq holds[p]
           /\ Group' = Group
    BY DEF Kill, Running, Group

\* Helpers have the pipes, and stand in the group, of who started them.
LEMMA HelperTree ==
    ASSUME TypeOK, SuccessInv, TreeInv, NEW p \in Procs, NEW h \in Helpers, SpawnHelper(p, h)
    PROVE  TreeInv'
<1>1. /\ UNCHANGED <<run, platform, reader, result>>
      /\ Running(p) /\ h # Engine /\ h \in Procs
      /\ holds'[h] \subseteq holds[p]
      /\ \A q \in Procs \ {h} : holds'[q] = holds[q] /\ proc'[q] = proc[q]
      /\ escaped \subseteq escaped'
      /\ p \in escaped => h \in escaped'
      /\ run = "attach" /\ platform = "windows" => h \in escaped'
    BY Names DEF SpawnHelper, TypeOK, output, clock
<1>2. Closed'
    BY <1>1 DEF TreeInv, Closed
<1>3. NothingRuns'
    BY <1>1 DEF TreeInv, NothingRuns, Running
<1>4. StartedOutside'
    BY <1>1, Names DEF TreeInv, StartedOutside, Running
<1>5. \A q \in Survivors' : q \in Survivors \/ (q = h /\ p \in Survivors)
    BY <1>1 DEF Survivors, Group, Running
<1>6. GroupGone'
    BY <1>1, <1>5 DEF TreeInv, GroupGone
<1>7. EnginesEndWithRun'
    BY <1>1, <1>5, Names DEF TreeInv, EnginesEndWithRun, Survivors, Group, Running
<1> QED BY <1>2, <1>3, <1>4, <1>6, <1>7 DEF TreeInv

\* A step that starts nothing, opens nothing and lets nothing back in.
LEMMA QuietTree ==
    ASSUME TypeOK, TreeInv,
           UNCHANGED <<run, platform, result>>,
           \A p \in Procs : holds'[p] \subseteq holds[p],
           \A p \in Procs : proc'[p] = proc[p] \/ (Running(p) /\ proc'[p] # "running"),
           escaped \subseteq escaped',
           \A s \in Streams :
               reader'[s] = "ok" => reader[s] = "ok" \/ \A p \in Procs : s \notin holds[p]
    PROVE  TreeInv'
<1>1. Closed'
    BY DEF TreeInv, Closed
<1>2. NothingRuns' /\ StartedOutside'
    BY Names DEF TreeInv, NothingRuns, StartedOutside, Running
<1>3. \A q \in Survivors' : q \in Survivors
    BY DEF Survivors, Group, Running
<1>4. GroupGone'
    BY <1>3 DEF TreeInv, GroupGone
<1>5. EnginesEndWithRun'
    BY <1>3, Names DEF TreeInv, EnginesEndWithRun, Survivors, Group, Running
<1> QED BY <1>1, <1>2, <1>4, <1>5 DEF TreeInv

\* The processes and the tasks.
LEMMA OutsideTree ==
    ASSUME TypeOK, SuccessInv, TreeInv,
           ProcessStep \/ ReaderStep \/ InputRead \/ InputBroken \/ Report \/ Cancel \/ Elapse
    PROVE  TreeInv'
<1>1. ASSUME NEW p \in Procs, Exit(p) PROVE TreeInv'
    BY <1>1, QuietTree DEF Exit, Running, TypeOK, output, clock
<1>2. ASSUME NEW p \in Procs, NEW s \in Streams, Write(p, s) PROVE TreeInv'
    BY <1>2, QuietTree DEF Write, os, clock
<1>3. ASSUME NEW p \in Procs, NEW end, CloseEnd(p, end) PROVE TreeInv'
    BY <1>3, QuietTree DEF CloseEnd, TypeOK, output, clock
<1>4. ASSUME NEW h \in Helpers, LeaveGroup(h) PROVE TreeInv'
    BY <1>4, QuietTree DEF LeaveGroup, output, clock
<1>5. ASSUME NEW s \in Streams, ReadLine(s) PROVE TreeInv'
    BY <1>5, QuietTree DEF ReadLine, TypeOK, os, clock
<1>6. ASSUME NEW s \in Streams, ReadEnd(s) PROVE TreeInv'
    <2>1. \A p \in Procs : s \notin holds[p]
        BY <1>6 DEF ReadEnd, Holders
    <2> QED BY <1>6, <2>1, QuietTree DEF ReadEnd, TypeOK, os, clock
<1>7. CASE InputRead \/ InputBroken \/ Report \/ Cancel \/ Elapse
    BY <1>7, QuietTree DEF InputRead, InputBroken, Report, Cancel, Elapse, os, output, clock
<1> QED
    BY <1>1, <1>2, <1>3, <1>4, <1>5, <1>6, <1>7, HelperTree DEF ProcessStep, ReaderStep

\* A kill that run does not return after.
LEMMA GroupKilled ==
    ASSUME TypeOK, TreeInv, Kill(Group), run' = "collect", UNCHANGED <<reader, escaped>>
    PROVE  TreeInv'
<1>1. Survivors' = {}
    <2>1. \A p \in Procs : p \in Group => proc'[p] # "running"
        BY KillEnds
    <2>2. Group' = Group /\ Group \subseteq Procs
        BY KillEnds, InGroup
    <2> QED BY <2>1, <2>2 DEF Survivors, Running
<1>2. Closed'
    BY KillEnds DEF TreeInv, Closed
<1> QED
    BY <1>1, <1>2
       DEF TreeInv, NothingRuns, StartedOutside, GroupGone, EnginesEndWithRun

\* A return that leaves no process of the group, on Windows by the job object's end.
LEMMA ReturnEnds ==
    ASSUME TypeOK, TreeInv, NEW victims, Kill(victims), Engine \in victims,
           run' = "returned", UNCHANGED <<reader, escaped, platform>>,
           \/ \A p \in Survivors : p \in victims
           \/ /\ platform = "unix" /\ result' = "readers_stopped"
              /\ \A p \in Survivors : holds[p] \cap Streams = {}
    PROVE  TreeInv'
<1>1. /\ ~Running(Engine)'
      /\ \A p \in Survivors' :
             p \in Survivors /\ p \notin victims /\ holds'[p] \subseteq holds[p]
    BY KillEnds, InGroup, Names DEF Survivors, Running
<1>2. Closed'
    BY KillEnds DEF TreeInv, Closed
<1>3. EnginesEndWithRun'
    BY <1>1 DEF EnginesEndWithRun
<1> QED
    BY <1>2, <1>3 DEF TreeInv, NothingRuns, StartedOutside, GroupGone

\* The steps of run.
LEMMA RunTree == ASSUME TypeOK, SuccessInv, TreeInv, RunStep PROVE TreeInv'
<1>1. CASE Spawn
    <2>1. /\ run = "spawn" /\ \A p \in Procs : proc[p] = "none"
          /\ \A s \in Streams : reader[s] # "ok"
        BY <1>1 DEF Spawn, TreeInv, NothingRuns, SuccessInv, ReadersStart
    <2>2. UNCHANGED <<reader, escaped, platform>>
        BY <1>1 DEF Spawn, output
    <2>3. CASE run' = "attach"
        <3>1. \A h \in Helpers : proc'[h] = "none"
            BY <1>1, <2>1, <2>3, Names DEF Spawn, TypeOK
        <3> QED
            BY <2>1, <2>2, <2>3, <3>1
               DEF TreeInv, Closed, NothingRuns, StartedOutside, GroupGone,
                   EnginesEndWithRun, Running
    <2>4. CASE run' = "returned" /\ proc' = proc
        <3>1. Survivors' = {} /\ ~Running(Engine)'
            BY <2>1, <2>4, Names DEF Survivors, Running, Group
        <3> QED
            BY <2>1, <2>2, <2>4, <3>1
               DEF TreeInv, Closed, NothingRuns, StartedOutside, GroupGone, EnginesEndWithRun
    <2> QED BY <1>1, <2>3, <2>4 DEF Spawn
<1>2. CASE Attach
    BY <1>2 DEF Attach, TreeInv, Closed, NothingRuns, StartedOutside, GroupGone,
       EnginesEndWithRun, os, output
<1>3. CASE AttachFails
    <2>1. \A p \in Survivors : p \in {Engine}
        BY <1>3, Names DEF AttachFails, TreeInv, StartedOutside, Survivors, Group, Procs
    <2> QED BY <1>3, <2>1, ReturnEnds DEF AttachFails, output
<1>4. CASE ChildExits \/ GraceEnds
    BY <1>4, GroupKilled DEF ChildExits, GraceEnds, output
<1>5. CASE TokenCancelled \/ DeadlineOver \/ \E s \in Streams : ReaderSent(s)
    <2>1. run = "select" /\ run' \in {"select", "grace"} /\ UNCHANGED <<os, reader>>
        BY <1>5 DEF TokenCancelled, DeadlineOver, ReaderSent, Interrupt, output
    <2> QED
        BY <2>1 DEF TreeInv, Closed, NothingRuns, StartedOutside, GroupGone,
           EnginesEndWithRun, os
<1>6. ASSUME NEW s \in Streams, Collect(s) PROVE TreeInv'
    BY <1>6, QuietTree DEF Collect, os, output, clock
<1>7. CASE ReadersStopped
    <2>1. \A s \in Streams : reader[s] = "ok"
        BY <1>7 DEF ReadersStopped, SuccessInv, ReceivedEnded
    <2>2. \A p \in Survivors : holds[p] \cap Streams = {}
        BY <2>1 DEF TreeInv, Closed, Survivors, Group
    <2>3. platform \in {"unix", "windows"}
        BY PlatformsAssumption DEF TypeOK
    <2>4. \A p \in Survivors : p \in Group
        BY DEF Survivors
    <2> QED
        BY <1>7, <2>2, <2>3, <2>4, ReturnEnds, InGroup DEF ReadersStopped, Return, output
<1>8. CASE Finish
    <2>1. Survivors = {}
        BY <1>8 DEF Finish, TreeInv, GroupGone
    <2> QED BY <1>8, <2>1, ReturnEnds, InGroup DEF Finish, Return, output
<1> QED BY <1>1, <1>2, <1>3, <1>4, <1>5, <1>6, <1>7, <1>8 DEF RunStep

\* Every step keeps what the end of the engines rests on.
LEMMA NextTree == ASSUME TypeOK, SuccessInv, TreeInv, [Next]_vars PROVE TreeInv'
<1>1. CASE UNCHANGED vars
    BY <1>1, QuietTree DEF vars
<1> QED BY <1>1, OutsideTree, RunTree DEF Next

\* When run has returned, neither the engine nor a helper in its group runs, but for the
\* helpers that the error of the readers leaves on Unix.
THEOREM NoEngineOutlivesRun == Spec => []EnginesEndWithRun
<1>1. Init => SuccessInv
    BY DEF Init, SuccessInv, ReadersStart, ReceivedEnded, Reasons, SuccessSeen, VerdictSeen
<1>2. Init => TreeInv
    BY DEF Init, TreeInv, Closed, NothingRuns, StartedOutside, GroupGone, EnginesEndWithRun
<1>3. TreeInv => EnginesEndWithRun
    BY DEF TreeInv
<1> QED BY <1>1, <1>2, <1>3, NextSuccess, NextTree, RunTypeCorrect, PTL DEF Spec

================================================================================
