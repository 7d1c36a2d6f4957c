----------------------------- MODULE JobLifecycle ------------------------------
(***************************************************************************)
(* What one instance of the job engine promises to whoever reads the jobs  *)
(* table: how the recorded state of a job may change, that only a job      *)
(* admitted to one of the instance's slots is ever recorded as active, and *)
(* that interruption is recorded only while no engine runs.  Of a job      *)
(* another instance has worked on it promises no more than that it needs a *)
(* slot like any other.                                                    *)
(***************************************************************************)
EXTENDS Naturals, FiniteSets, JobStates

CONSTANT Jobs

VARIABLES
    state,     \* the recorded state of every job
    admitted,  \* the jobs that hold a slot
    slots,     \* how many there are
    foreign    \* the jobs another instance has worked on

Init ==
    /\ state = [j \in Jobs |-> Absent]
    /\ admitted = {}
    /\ slots \in 1..8
    /\ foreign = {}

Becomes(j, s) == state' = [state EXCEPT ![j] = s]

Create(j) == state[j] = Absent /\ Becomes(j, "Probing") /\ UNCHANGED admitted

\* A queued job is given a slot and becomes active.
Admit(j) ==
    /\ state[j] = "Queued"
    /\ j \notin admitted /\ Cardinality(admitted) < slots
    /\ admitted' = admitted \cup {j}
    /\ Becomes(j, "Preparing")

\* An active job with a slot goes on; only success gives the slot back with it.
Advance(j) ==
    /\ j \in admitted
    /\ \E s \in Active \cup {"Completed"} :
          /\ CanTransition(state[j], s)
          /\ Becomes(j, s)
          /\ admitted' = IF s = "Completed" THEN admitted \ {j} ELSE admitted

\* Steps that keep a job out of the active states: the probe's outcome, the
\* user's commands, and failure, which may strike in any state short of the end.
Steer(j) ==
    /\ \E s \in JobState \ (Active \cup {"Completed", "Interrupted"}) :
          /\ state[j] # Absent
          /\ CanTransition(state[j], s) \/ (s = "Failed" /\ state[j] \notin Terminal)
          /\ Becomes(j, s)
    /\ admitted' \in {admitted, admitted \ {j}}

\* A job gives its slot back with its state unchanged.
Withdraw(j) == j \in admitted /\ admitted' = admitted \ {j} /\ UNCHANGED state

\* The process ends; the jobs it left active are then recorded as interrupted.
Halt == admitted' = {} /\ UNCHANGED state
Interrupt(j) ==
    /\ admitted = {}
    /\ state[j] \in Active
    /\ Becomes(j, "Interrupted")
    /\ UNCHANGED admitted

Step(j) ==
    /\ j \notin foreign
    /\ \/ Create(j) \/ Admit(j) \/ Advance(j) \/ Steer(j) \/ Withdraw(j) \/ Interrupt(j)
    /\ UNCHANGED <<slots, foreign>>

\* Another instance writes the job's row, or works on it as it stands.
TakeOver(j) ==
    /\ \E s \in JobState \cup {state[j]} : Becomes(j, s)
    /\ foreign' = foreign \cup {j}
    /\ UNCHANGED <<admitted, slots>>

\* This one goes on with the job as it knows it, and holds a slot while it does.
Stray(j) ==
    /\ j \in foreign
    /\ \E s \in JobState \cup {Absent} : Becomes(j, s)
    /\ \/ admitted' \in {admitted, admitted \ {j}}
       \/ Cardinality(admitted) < slots /\ admitted' = admitted \cup {j}
    /\ UNCHANGED <<slots, foreign>>

Next ==
    \/ \E j \in Jobs : Step(j) \/ TakeOver(j) \/ Stray(j)
    \/ Halt /\ UNCHANGED <<slots, foreign>>

Spec == Init /\ [][Next]_<<state, admitted, slots, foreign>>

================================================================================
