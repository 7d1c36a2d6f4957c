--------------------------- MODULE ProcessSupervisor ---------------------------
(***************************************************************************)
(* One run of an engine: ProcessSupervisor::run (process.rs), its two      *)
(* reader tasks and the writer of the input, the engine with the helpers   *)
(* it starts, and what the adapter makes of the outcome (adapter.rs).      *)
(*                                                                         *)
(* The operating system's part is taken from how process.rs uses it.  A    *)
(* process ends by itself, at any time, or is killed.  A signal to the     *)
(* group, or the end of the job object, kills whoever is in the group.  A  *)
(* pipe ends when nobody holds its other end.  An interrupt is a request:  *)
(* a process may end on it or not, as it may at any other time, so that it *)
(* needs no action of its own.  The unit of output is a line; the limits   *)
(* on bytes are kept by a shared counter in the same way.                  *)
(***************************************************************************)
EXTENDS Naturals, FiniteSets

CONSTANTS
    Helpers,     \* processes the engine and its helpers may start
    Platforms,   \* where the program may run
    MaxLines,    \* ProcessSpec::max_lines
    MaxWrites    \* bound: lines the processes write

Engine == "engine"
Procs == Helpers \cup {Engine}
Streams == {"stdout", "stderr"}

ASSUME HelpersAssumption == IsFiniteSet(Helpers) /\ Engine \notin Helpers
ASSUME PlatformsAssumption == Platforms \subseteq {"unix", "windows"}
ASSUME LimitsAssumption == MaxLines \in Nat /\ MaxWrites \in Nat

VARIABLES
    platform,
    run,          \* where ProcessSupervisor::run stands
    proc,         \* how each process fares
    holds,        \* the ends of the engine's pipes that a process has
    escaped,      \* helpers that no signal to the group reaches
    written,      \* lines written to a stream
    pipe,         \* lines in the pipe of a stream
    reader,       \* the reader of a stream, and its result once it has sent it
    kept,         \* lines the reader of a stream has kept
    lines,        \* output_lines, the counter both readers share
    received,     \* streams whose result run has received
    input,        \* the input with the credentials
    cancelled,    \* the cancellation token
    elapsed,      \* the deadline is over
    timedOut,     \* timed_out of run
    interrupted,  \* history: the group has been asked to end
    result,       \* what run returned
    verdict       \* what the adapter reports

os == <<platform, proc, holds, escaped>>
output == <<written, pipe, reader, kept, lines>>
clock == <<cancelled, elapsed>>
vars == <<platform, run, proc, holds, escaped, written, pipe, reader, kept, lines,
          received, input, cancelled, elapsed, timedOut, interrupted, result, verdict>>

Init ==
    /\ platform \in Platforms
    /\ run = "spawn"
    /\ proc = [p \in Procs |-> "none"]
    /\ holds = [p \in Procs |-> {}]
    /\ escaped = {}
    /\ written = [s \in Streams |-> 0]
    /\ pipe = [s \in Streams |-> 0]
    /\ reader = [s \in Streams |-> "reading"]
    /\ kept = [s \in Streams |-> 0]
    /\ lines = 0
    /\ received = {}
    /\ input \in {"none", "held"}
    /\ cancelled = FALSE
    /\ elapsed = FALSE
    /\ timedOut = FALSE
    /\ interrupted = FALSE
    /\ result = "none"
    /\ verdict = "none"

Running(p) == proc[p] = "running"
Ended(p) == proc[p] \in {"succeeded", "failed", "killed"}
Holders(end) == {p \in Procs : end \in holds[p]}
Group == Procs \ escaped

\* Whether the program has the other ends of the pipes, and a reader at this one.
PipesOpen == result # "not_started"
ReaderRuns(s) == reader[s] = "reading" /\ PipesOpen /\ run \notin {"spawn", "attach"}

--------------------------------------------------------------------------------
(* The processes.                                                           *)

\* A process that ends closes what it holds.
Kill(victims) ==
    /\ proc' = [p \in Procs |-> IF p \in victims /\ Running(p) THEN "killed" ELSE proc[p]]
    /\ holds' = [p \in Procs |-> IF p \in victims THEN {} ELSE holds[p]]

\* A helper inherits the pipes it is given, and the group of its parent.  Before the
\* engine is assigned to the job object its helpers are not in the job.
SpawnHelper(p, h) ==
    /\ Running(p)
    /\ proc[h] = "none"
    /\ proc' = [proc EXCEPT ![h] = "running"]
    /\ \E ends \in SUBSET holds[p] : holds' = [holds EXCEPT ![h] = ends]
    /\ escaped' = IF p \in escaped \/ (platform = "windows" /\ run = "attach")
                  THEN escaped \cup {h} ELSE escaped
    /\ UNCHANGED <<platform, run, output, received, input, clock, timedOut,
                   interrupted, result, verdict>>

\* A helper makes a session of its own.  A job object cannot be left.
LeaveGroup(h) ==
    /\ Running(h)
    /\ h \notin escaped
    /\ platform = "unix"
    /\ escaped' = escaped \cup {h}
    /\ UNCHANGED <<platform, run, proc, holds, output, received, input, clock,
                   timedOut, interrupted, result, verdict>>

Write(p, s) ==
    /\ p \in Holders(s)
    /\ PipesOpen
    /\ reader[s] = "reading"
    /\ written["stdout"] + written["stderr"] < MaxWrites
    /\ written' = [written EXCEPT ![s] = @ + 1]
    /\ pipe' = [pipe EXCEPT ![s] = @ + 1]
    /\ UNCHANGED <<os, run, reader, kept, lines, received, input, clock, timedOut,
                   interrupted, result, verdict>>

CloseEnd(p, end) ==
    /\ p \in Holders(end)
    /\ holds' = [holds EXCEPT ![p] = @ \ {end}]
    /\ UNCHANGED <<platform, run, proc, escaped, output, received, input, clock,
                   timedOut, interrupted, result, verdict>>

Exit(p) ==
    /\ Running(p)
    /\ \E status \in {"succeeded", "failed"} : proc' = [proc EXCEPT ![p] = status]
    /\ holds' = [holds EXCEPT ![p] = {}]
    /\ UNCHANGED <<platform, run, escaped, output, received, input, clock,
                   timedOut, interrupted, result, verdict>>

ProcessStep ==
    \E p \in Procs :
        \/ Exit(p)
        \/ \E h \in Helpers : SpawnHelper(p, h)
        \/ \E s \in Streams : Write(p, s)
        \/ \E end \in Streams \cup {"stdin"} : CloseEnd(p, end)
        \/ p \in Helpers /\ LeaveGroup(p)

--------------------------------------------------------------------------------
(* The tasks that run spawns.                                               *)

\* Mutant of ReadLine: each stream has a counter of its own.
ReadLinePerStream(s) ==
    /\ ReaderRuns(s)
    /\ pipe[s] > 0
    /\ pipe' = [pipe EXCEPT ![s] = @ - 1]
    /\ lines' = lines + 1
    /\ IF kept[s] < MaxLines
       THEN kept' = [kept EXCEPT ![s] = @ + 1] /\ UNCHANGED reader
       ELSE reader' = [reader EXCEPT ![s] = "err"] /\ UNCHANGED kept
    /\ UNCHANGED <<os, run, written, received, input, clock, timedOut, interrupted,
                   result, verdict>>

\* read_bounded_lines and push_bounded_line: the counter is taken first, and a reader
\* that finds it at the limit ends with an error.
ReadLine(s) ==
    /\ ReaderRuns(s)
    /\ pipe[s] > 0
    /\ pipe' = [pipe EXCEPT ![s] = @ - 1]
    /\ lines' = lines + 1
    /\ IF lines < MaxLines
       THEN kept' = [kept EXCEPT ![s] = @ + 1] /\ UNCHANGED reader
       ELSE reader' = [reader EXCEPT ![s] = "err"] /\ UNCHANGED kept
    /\ UNCHANGED <<os, run, written, received, input, clock, timedOut, interrupted,
                   result, verdict>>

\* End of file: the reader sends what it has and ends, and its sender with it.
ReadEnd(s) ==
    /\ ReaderRuns(s)
    /\ pipe[s] = 0
    /\ Holders(s) = {}
    /\ reader' = [reader EXCEPT ![s] = "ok"]
    /\ UNCHANGED <<os, run, written, pipe, kept, lines, received, input, clock,
                   timedOut, interrupted, result, verdict>>

\* The writer is done when a process has read all of the input ...
InputRead ==
    /\ input = "writing"
    /\ Holders("stdin") # {}
    /\ input' = "wiped"
    /\ UNCHANGED <<os, run, output, received, clock, timedOut, interrupted, result,
                   verdict>>

\* Mutant of InputBroken: a failed write returns before the input is wiped.
InputLeft ==
    /\ input = "writing"
    /\ Holders("stdin") = {}
    /\ input' = "dropped"
    /\ UNCHANGED <<os, run, output, received, clock, timedOut, interrupted, result,
                   verdict>>

\* ... or when nobody is left to read it; it wipes the input either way.
InputBroken ==
    /\ input = "writing"
    /\ Holders("stdin") = {}
    /\ input' = "wiped"
    /\ UNCHANGED <<os, run, output, received, clock, timedOut, interrupted, result,
                   verdict>>

ReaderStep == \E s \in Streams : ReadLine(s) \/ ReadEnd(s)

--------------------------------------------------------------------------------
(* ProcessSupervisor::run.                                                  *)

\* run returns: the child is killed if it still runs (kill_on_drop), and on Windows the
\* guard closes the job object and thereby ends every process in it.
Return(answer) ==
    /\ run' = "returned"
    /\ result' = answer
    /\ Kill(IF platform = "windows" THEN Group ELSE {Engine})

\* An error before the writer is spawned drops the input as it is.
NotStarted == input' = IF input = "held" THEN "dropped" ELSE input

Spawn ==
    /\ run = "spawn"
    /\ \/ /\ run' = "attach"
          /\ proc' = [proc EXCEPT ![Engine] = "running"]
          /\ holds' = [holds EXCEPT ![Engine] =
                          Streams \cup IF input = "held" THEN {"stdin"} ELSE {}]
          /\ UNCHANGED <<input, result>>
       \/ /\ run' = "returned"
          /\ result' = "not_started"
          /\ NotStarted
          /\ UNCHANGED <<proc, holds>>
    /\ UNCHANGED <<platform, escaped, output, received, clock, timedOut, interrupted,
                   verdict>>

\* ProcessTreeGuard::attach, and the tasks of the pipes.
Attach ==
    /\ run = "attach"
    /\ run' = "select"
    /\ input' = IF input = "held" THEN "writing" ELSE input
    /\ UNCHANGED <<os, output, received, clock, timedOut, interrupted, result, verdict>>

\* On Windows a job object may be refused; only the engine is killed then.
AttachFails ==
    /\ run = "attach"
    /\ platform = "windows"
    /\ run' = "returned"
    /\ result' = "not_started"
    /\ Kill({Engine})
    /\ NotStarted
    /\ UNCHANGED <<platform, escaped, output, received, clock, timedOut,
                   interrupted, verdict>>

\* Mutant of ChildExits: the helpers of an engine that has ended are left alone.
ChildExitsAlone ==
    /\ run = "select"
    /\ Ended(Engine)
    /\ run' = "collect"
    /\ UNCHANGED <<os, output, received, input, clock, timedOut, interrupted, result,
                   verdict>>

\* The loop is left with the engine's status, and the group is killed.
ChildExits ==
    /\ run = "select"
    /\ Ended(Engine)
    /\ run' = "collect"
    /\ Kill(Group)
    /\ UNCHANGED <<platform, escaped, output, received, input, clock, timedOut,
                   interrupted, result, verdict>>

\* stop_process_tree asks the group to end and waits for the engine.
Interrupt ==
    /\ run' = "grace"
    /\ interrupted' = TRUE
    /\ UNCHANGED <<os, output, input, clock, result, verdict>>

TokenCancelled ==
    /\ run = "select"
    /\ cancelled
    /\ Interrupt
    /\ UNCHANGED <<received, timedOut>>

DeadlineOver ==
    /\ run = "select"
    /\ elapsed
    /\ timedOut' = TRUE
    /\ Interrupt
    /\ UNCHANGED received

Sent == {s \in Streams \ received : reader[s] # "reading"}
ReaderError == \E s \in received : reader[s] = "err"

ReaderSent(s) ==
    /\ run = "select"
    /\ s \in Sent
    /\ received' = received \cup {s}
    /\ IF reader[s] = "err"
       THEN Interrupt /\ UNCHANGED timedOut
       ELSE UNCHANGED <<os, run, output, input, clock, timedOut, interrupted, result,
                        verdict>>

\* Both readers have ended and been received, so that recv gives None; the loop may
\* see that before it sees that the child has ended.
ReadersStopped ==
    /\ run = "select"
    /\ received = Streams
    /\ Return("readers_stopped")
    /\ UNCHANGED <<platform, escaped, output, received, input, clock, timedOut,
                   interrupted, verdict>>

\* Mutant of GraceEnds: an engine that ignores the interrupt is waited for.
GraceWaits ==
    /\ run = "grace"
    /\ Ended(Engine)
    /\ run' = "collect"
    /\ Kill(Group)
    /\ UNCHANGED <<platform, escaped, output, received, input, clock, timedOut,
                   interrupted, result, verdict>>

\* The engine ends within its grace, or it is killed with its group when that is over.
GraceEnds ==
    /\ run = "grace"
    /\ run' = "collect"
    /\ Kill(Group)
    /\ UNCHANGED <<platform, escaped, output, received, input, clock, timedOut,
                   interrupted, result, verdict>>

\* What is left of the output is collected; neither the token nor the deadline is
\* looked at any more.
Collect(s) ==
    /\ run = "collect"
    /\ s \in Sent
    /\ received' = received \cup {s}
    /\ UNCHANGED <<os, run, output, input, clock, timedOut, interrupted, result, verdict>>

Finish ==
    /\ run = "collect"
    /\ received = Streams
    /\ Return(IF ReaderError THEN "limit"
              ELSE IF timedOut THEN "timed_out"
              ELSE IF proc[Engine] = "succeeded" THEN "success" ELSE "failure")
    /\ UNCHANGED <<platform, escaped, output, received, input, clock, timedOut,
                   interrupted, verdict>>

--------------------------------------------------------------------------------
(* The adapter, the user and the clock.                                     *)

\* Mutant of Report: the token is not looked at again.
ReportOutcome ==
    /\ run = "returned"
    /\ verdict = "none"
    /\ verdict' = IF result = "timed_out" THEN "transient"
                  ELSE IF result = "success" THEN "ok" ELSE "failed"
    /\ UNCHANGED <<os, run, output, received, input, clock, timedOut, interrupted, result>>

\* self_test, probe, download and run_worker: an error of run comes first, then the
\* token, then the engine's status.
Report ==
    /\ run = "returned"
    /\ verdict = "none"
    /\ verdict' = IF result = "timed_out" THEN "transient"
                  ELSE IF result \notin {"success", "failure"} THEN "failed"
                  ELSE IF cancelled THEN "canceled"
                  ELSE IF result = "success" THEN "ok" ELSE "failed"
    /\ UNCHANGED <<os, run, output, received, input, clock, timedOut, interrupted, result>>

Cancel ==
    /\ ~cancelled
    /\ verdict = "none"
    /\ cancelled' = TRUE
    /\ UNCHANGED <<os, run, output, received, input, elapsed, timedOut, interrupted,
                   result, verdict>>

Elapse ==
    /\ run = "select"
    /\ ~elapsed
    /\ elapsed' = TRUE
    /\ UNCHANGED <<os, run, output, received, input, cancelled, timedOut, interrupted,
                   result, verdict>>

RunStep ==
    \/ Spawn
    \/ Attach
    \/ AttachFails
    \/ ChildExits
    \/ TokenCancelled
    \/ DeadlineOver
    \/ \E s \in Streams : ReaderSent(s) \/ Collect(s)
    \/ ReadersStopped
    \/ GraceEnds
    \/ Finish

Next ==
    \/ ProcessStep
    \/ ReaderStep
    \/ InputRead
    \/ InputBroken
    \/ RunStep
    \/ Report
    \/ Cancel
    \/ Elapse

Spec == Init /\ [][Next]_vars

================================================================================
