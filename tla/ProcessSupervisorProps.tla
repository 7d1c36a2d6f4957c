------------------------ MODULE ProcessSupervisorProps -------------------------
(* What ProcessSupervisor promises to the adapters.                         *)
EXTENDS ProcessSupervisor

\* The types of the variables.
TypeOK ==
    /\ platform \in Platforms
    /\ run \in {"spawn", "attach", "select", "grace", "collect", "returned"}
    /\ proc \in [Procs -> {"none", "running", "succeeded", "failed", "killed"}]
    /\ holds \in [Procs -> SUBSET (Streams \cup {"stdin"})]
    /\ escaped \subseteq Helpers
    /\ written \in [Streams -> Nat]
    /\ pipe \in [Streams -> Nat]
    /\ reader \in [Streams -> {"reading", "ok", "err"}]
    /\ kept \in [Streams -> Nat]
    /\ lines \in Nat
    /\ received \subseteq Streams
    /\ input \in {"none", "held", "writing", "wiped", "dropped"}
    /\ {cancelled, elapsed, timedOut, interrupted} \subseteq BOOLEAN
    /\ result \in {"none", "not_started", "readers_stopped", "limit", "timed_out",
                   "success", "failure"}
    /\ verdict \in {"none", "ok", "canceled", "transient", "failed"}

Survivors == {p \in Group : Running(p)}

\* When run has returned, the engine has ended and so has every helper in its group: on
\* every way out of run, with the one exception that on Unix the error of the readers
\* leaves helpers which had closed both outputs (process.rs:341).
EnginesEndWithRun ==
    run = "returned" =>
        /\ ~Running(Engine)
        /\ Survivors # {} => platform = "unix" /\ result = "readers_stopped"
        /\ \A p \in Survivors : holds[p] \cap Streams = {}

\* What the adapter takes for a success is the work of an engine that ended with
\* success, was not asked to end before, and whose output has been collected to the last
\* line: a file is not taken for whole that an interrupted engine left (adapter.rs:440,
\* process.rs:362).
SuccessIsComplete ==
    verdict = "ok" =>
        /\ proc[Engine] = "succeeded"
        /\ ~interrupted
        /\ \A s \in Streams : s \in received /\ reader[s] = "ok" /\ kept[s] = written[s]

\* The two readers together never keep more lines than the limit, though neither knows
\* what the other has (process.rs:438).
OutputIsBounded == kept["stdout"] + kept["stderr"] <= MaxLines

\* The supervisor, its tasks and its clock go on.  Nothing is assumed of the processes,
\* which may run for ever and ignore an interrupt, nor of the user.
Fairness ==
    /\ WF_vars(RunStep)
    /\ WF_vars(ReaderStep)
    /\ WF_vars(InputBroken)
    /\ WF_vars(Elapse)

LiveSpec == Spec /\ Fairness

EscapeeHoldsOutput == \E p \in escaped : holds[p] \cap Streams # {}

\* A run that has started returns, whatever the engine does: at the latest after the
\* deadline and the grace.  One thing keeps it: a helper that has left the group and has
\* an output open, for the collection of the output watches no clock (process.rs:362).
RunReturns ==
    (run \in {"attach", "select"})
        ~> (run = "returned" \/ EscapeeHoldsOutput)

\* Credentials written to an engine are wiped in the end, also when the engine never
\* reads them; only a helper that outlives the engine with its input open delays that
\* (process.rs:262).
InputIsWiped ==
    (input = "writing")
        ~> (input = "wiped" \/ (run \in {"collect", "returned"} /\ Holders("stdin") # {}))

================================================================================
