-------------------------------- MODULE SftpTrust --------------------------------
(***************************************************************************)
(* The authorization of SFTP downloads: the host key a probe observes      *)
(* (fmd-curl-worker), the table of trusted keys (storage.rs), the form in  *)
(* which the window shows the key and asks for credentials (App.svelte),   *)
(* the commands the form invokes (src-tauri/src/lib.rs), and the transfer  *)
(* that presents the credentials only to a server with that key.           *)
(*                                                                         *)
(* All jobs are of one host and port: rows of others are not read here.    *)
(* Any number of instances of the program share the table.  Synchronous    *)
(* commands of one instance run one after the other; another instance may  *)
(* write between two statements of a command.  The rest of a job's life is *)
(* JobExecutor's and CurlTransfer's: here a queued job needs no permit,    *)
(* and a worker's failure is the job's.                                    *)
(***************************************************************************)
EXTENDS Naturals, Sequences, JobStates

CONSTANTS
    Instances,   \* running programs
    Restarting,  \* bound: those that may end and start again
    Jobs,        \* SFTP jobs
    Owner,       \* the instance each job is created in
    Keys,        \* host keys the server may have
    NoKey,       \* what is not a key
    Rotation     \* the keys the server has, one after the other

ASSUME OwnerAssumption == Owner \in [Jobs -> Instances]
ASSUME RestartingAssumption == Restarting \subseteq Instances
ASSUME NoKeyAssumption == NoKey \notin Keys
ASSUME RotationAssumption == Rotation \in Seq(Keys) /\ Rotation # <<>>

VARIABLES
    epoch,       \* the server has the key Rotation[epoch]
    calm,        \* from now on nothing gives trouble and the user is right
    table,       \* trusted_sftp_keys: what each key's row says
    state,       \* the job's state
    unserved,    \* jobs that are Probing or Queued and have no task
    observed,    \* the key in the plan's sftp_host_key requirement
    form,        \* trustByJob: what the window was told of the job's key, once
    deciding,    \* the write authorize_sftp_job is about to make for the job
    auth,        \* JobExecutor::transfer_auth: the key the credentials are meant for
    output,      \* the output file in the job's staging directory
    raced,       \* history: a write was decided before another instance's write
    overtaken    \* history: jobs authorized with a key that was replaced since

world == <<epoch, calm>>
plan == <<unserved, observed>>
history == <<raced, overtaken>>
vars == <<epoch, calm, table, state, unserved, observed, form, deciding,
          auth, output, raced, overtaken>>

NoForm == [key |-> NoKey, verdict |-> "none"]
Row == {"absent", "trusted", "revoked"}
Verdict == {"unknown", "match", "mismatch"}
Write == {"trust", "match", "replace"}

serverKey == Rotation[epoch]

Init ==
    /\ epoch = 1
    /\ calm = FALSE
    /\ table = [k \in Keys |-> "absent"]
    /\ state = [j \in Jobs |-> "Probing"]
    /\ unserved = {}
    /\ observed = [j \in Jobs |-> NoKey]
    /\ form = [j \in Jobs |-> NoForm]
    /\ deciding = [j \in Jobs |-> "none"]
    /\ auth = [j \in Jobs |-> NoKey]
    /\ output = [j \in Jobs |-> "none"]
    /\ raced = FALSE
    /\ overtaken = {}

\* No authorize_sftp_job of the instance is between its read and its write.
MainThreadFree(j) == \A i \in Jobs : Owner[i] = Owner[j] => deciding[i] = "none"

--------------------------------------------------------------------------------
(* The table.                                                               *)

\* trusted_sftp_host_keys.
TrustedKeys == {k \in Keys : table[k] = "trusted"}

\* classify_sftp_trust.
Classify(key) ==
    CASE TrustedKeys = {} -> "unknown"
      [] key \in TrustedKeys -> "match"
      [] OTHER -> "mismatch"

\* The write authorize_sftp_job expects to be asked for.
Expected(key) ==
    CASE TrustedKeys = {} -> "trust"
      [] key \in TrustedKeys -> "match"
      [] OTHER -> "replace"

\* Mutant of TrustKey: other keys of the host are left as they are.
TrustKeyOnly(key, write) == [table EXCEPT ![key] = "trusted"]

\* trust_sftp_host_key writes one row; replace_sftp_host_key revokes every row of the
\* host in the same transaction.
TrustKey(key, write) ==
    [k \in Keys |->
        IF k = key THEN "trusted"
        ELSE IF write = "replace" /\ table[k] = "trusted" THEN "revoked"
        ELSE table[k]]

--------------------------------------------------------------------------------
(* The probe.                                                               *)

\* The worker is shown the server's key and ends the connection; the plan with it awaits
\* a selection.  A probe that fails leaves the plan as it was.
Probe(j) ==
    /\ state[j] = "Probing"
    /\ j \notin unserved
    /\ \/ /\ observed' = [observed EXCEPT ![j] = serverKey]
          /\ state' = [state EXCEPT ![j] = "AwaitingSelection"]
       \/ /\ ~calm
          /\ state' = [state EXCEPT ![j] = "Failed"]
          /\ UNCHANGED observed
    /\ UNCHANGED <<world, table, unserved, form, deciding, auth, output, history>>

--------------------------------------------------------------------------------
(* The form and its commands.                                               *)

\* sftp_trust_status, by the button that is there as long as it has not been invoked.
LoadTrust(j) ==
    /\ MainThreadFree(j)
    /\ state[j] = "AwaitingSelection"
    /\ form[j] = NoForm
    /\ form' = [form EXCEPT ![j] = [key |-> observed[j], verdict |-> Classify(observed[j])]]
    /\ UNCHANGED <<world, table, state, plan, deciding, auth, output, history>>

\* submitSelection: the write the form asks for once the user has confirmed.
TrustAction(verdict) ==
    CASE verdict = "unknown" -> "trust"
      [] verdict = "mismatch" -> "replace"
      [] verdict = "match" -> "match"

\* Mutant of AuthorizeRead: the action is not compared.
AuthorizeUnchecked(j) ==
    /\ MainThreadFree(j)
    /\ state[j] = "AwaitingSelection"
    /\ form[j] # NoForm
    /\ deciding' = [deciding EXCEPT ![j] = Expected(observed[j])]
    /\ UNCHANGED <<world, table, state, plan, form, auth, output, history>>

\* authorize_sftp_job up to its write: refused, with nothing changed, unless the form
\* asks for what the table and the latest plan call for.
AuthorizeRead(j) ==
    /\ MainThreadFree(j)
    /\ state[j] = "AwaitingSelection"
    /\ form[j] # NoForm
    /\ TrustAction(form[j].verdict) = Expected(observed[j])
    /\ deciding' = [deciding EXCEPT ![j] = Expected(observed[j])]
    /\ UNCHANGED <<world, table, state, plan, form, auth, output, history>>

\* The jobs other than j that hold credentials for another key than j's.
HoldersOfOthers(j) ==
    {i \in Jobs \ {j} : auth[i] \notin {NoKey, observed[j]}}

\* authorize_sftp_job, the write, and set_transfer_auth unless it failed.
AuthorizeWrite(j) ==
    /\ deciding[j] # "none"
    /\ deciding' = [deciding EXCEPT ![j] = "none"]
    /\ \/ /\ table' = TrustKey(observed[j], deciding[j])
          /\ auth' = [auth EXCEPT ![j] = observed[j]]
          /\ raced' = (raced \/ deciding[j] # Expected(observed[j]))
          /\ overtaken' = IF deciding[j] = "replace"
                          THEN (overtaken \cup HoldersOfOthers(j)) \ {j}
                          ELSE overtaken \ {j}
       \/ ~calm /\ UNCHANGED <<table, auth, history>>
    /\ UNCHANGED <<world, state, plan, form, output>>

\* complete_job_selection, which the form invokes after the authorization: without
\* credentials it is refused; a job whose save fails is queued and not submitted.
CompleteJobSelection(j) ==
    /\ MainThreadFree(j)
    /\ state[j] = "AwaitingSelection"
    /\ auth[j] # NoKey
    /\ state' = [state EXCEPT ![j] = "Queued"]
    /\ unserved' \in {unserved} \cup (IF calm THEN {} ELSE {unserved \cup {j}})
    /\ UNCHANGED <<world, table, observed, form, deciding, auth, output, history>>

\* What a worker that is stopped leaves of the output: it may have received something.
Left(j) ==
    \/ UNCHANGED output
    \/ state[j] = "Downloading" /\ output' = [output EXCEPT ![j] = "partial"]

\* JobExecutor::pause; the credentials are kept.
PauseJob(j) ==
    /\ ~calm
    /\ MainThreadFree(j)
    /\ state[j] \in {"Queued", "Downloading"}
    /\ state' = [state EXCEPT ![j] = "Paused"]
    /\ unserved' = unserved \ {j}
    /\ Left(j)
    /\ UNCHANGED <<world, table, observed, form, deciding, auth, history>>

ResumeJob(j) ==
    /\ MainThreadFree(j)
    /\ state[j] \in {"Paused", "Interrupted"}
    /\ state' = [state EXCEPT ![j] = "Queued"]
    /\ UNCHANGED <<world, table, plan, form, deciding, auth, output, history>>

\* Mutant of RetryJob: the job is queued as any other.
RetryQueued(j) ==
    /\ MainThreadFree(j)
    /\ state[j] = "Failed"
    /\ state' = [state EXCEPT ![j] = "Queued"]
    /\ UNCHANGED <<world, table, plan, form, deciding, auth, output, history>>

\* JobExecutor::retry: a plan that asks for credentials is made anew; a job whose first
\* probe failed has none.  The window keeps what it knows of the job's key.
RetryJob(j) ==
    /\ MainThreadFree(j)
    /\ state[j] = "Failed"
    /\ state' = [state EXCEPT ![j] = IF observed[j] = NoKey THEN "Queued" ELSE "Probing"]
    /\ UNCHANGED <<world, table, plan, form, deciding, auth, output, history>>

\* A job that has ended is forgotten: nothing reads its plan, its form or its staging
\* directory again.
Forget(j) ==
    /\ observed' = [observed EXCEPT ![j] = NoKey]
    /\ form' = [form EXCEPT ![j] = NoForm]
    /\ output' = [output EXCEPT ![j] = "none"]
    /\ auth' = [auth EXCEPT ![j] = NoKey]
    /\ overtaken' = overtaken \ {j}

\* JobExecutor::cancel; a job that is Probing is cancelled only while its task is there.
CancelJob(j) ==
    /\ MainThreadFree(j)
    /\ \/ state[j] \in {"AwaitingSelection", "Queued", "Downloading", "Paused", "Interrupted"}
       \/ state[j] = "Probing" /\ j \notin unserved
    /\ state' = [state EXCEPT ![j] = "Canceled"]
    /\ unserved' = unserved \ {j}
    /\ Forget(j)
    /\ UNCHANGED <<world, table, deciding, raced>>

--------------------------------------------------------------------------------
(* The transfer.                                                            *)

\* The job fails, and its credentials are removed.
TransferFails(j) ==
    /\ state' = [state EXCEPT ![j] = "Failed"]
    /\ auth' = [auth EXCEPT ![j] = NoKey]
    /\ overtaken' = overtaken \ {j}

\* Mutant of HostKeyAccepted: any key will do.
AnyHostKey(j) == TRUE

\* hostkey_callback, when it verifies.
HostKeyAccepted(j) == auth[j] = serverKey

\* native_sftp::download up to the first byte: without credentials the adapter fails; an
\* empty output cannot be resumed; otherwise the output is there before the server is asked.
Connect(j) ==
    /\ state[j] = "Queued"
    /\ j \notin unserved
    /\ \/ /\ auth[j] = NoKey \/ output[j] = "empty"
          /\ TransferFails(j)
          /\ UNCHANGED output
       \/ /\ auth[j] # NoKey /\ output[j] # "empty"
          /\ output' = [output EXCEPT ![j] = IF @ = "none" THEN "empty" ELSE @]
          /\ \/ ~HostKeyAccepted(j) /\ TransferFails(j)
             \/ ~calm /\ TransferFails(j)
             \/ /\ HostKeyAccepted(j)
                /\ state' = [state EXCEPT ![j] = "Downloading"]
                /\ UNCHANGED <<auth, overtaken>>
    /\ UNCHANGED <<world, table, plan, form, deciding, raced>>

\* The connection breaks, after the first bytes or before them.
TransferBreaks(j) ==
    /\ ~calm
    /\ state[j] = "Downloading"
    /\ Left(j)
    /\ TransferFails(j)
    /\ UNCHANGED <<world, table, plan, form, deciding, raced>>

\* The file is moved to its destination.
TransferEnds(j) ==
    /\ state[j] = "Downloading"
    /\ state' = [state EXCEPT ![j] = "Completed"]
    /\ Forget(j)
    /\ UNCHANGED <<world, table, unserved, deciding, raced>>

--------------------------------------------------------------------------------
(* The world.                                                               *)

ServerKeyChanges ==
    /\ ~calm
    /\ epoch < Len(Rotation)
    /\ epoch' = epoch + 1
    /\ UNCHANGED <<calm, table, state, plan, form, deciding, auth, output, history>>

\* An instance ends and starts again: its window's forms and its credentials are gone, a
\* transfer is interrupted, and what was Probing or Queued has no task any more.
Restarted(i, j) == Owner[j] = i
RestartInstance(i) ==
    /\ ~calm
    /\ state' = [j \in Jobs |-> IF Restarted(i, j) /\ state[j] = "Downloading"
                                THEN "Interrupted" ELSE state[j]]
    /\ unserved' = unserved \cup
          {j \in Jobs : Restarted(i, j) /\ state[j] \in {"Probing", "Queued"}}
    /\ form' = [j \in Jobs |-> IF Restarted(i, j) THEN NoForm ELSE form[j]]
    /\ deciding' = [j \in Jobs |-> IF Restarted(i, j) THEN "none" ELSE deciding[j]]
    /\ auth' = [j \in Jobs |-> IF Restarted(i, j) THEN NoKey ELSE auth[j]]
    /\ overtaken' = {j \in overtaken : ~Restarted(i, j)}
    /\ output' \in {[j \in Jobs |-> IF j \in some THEN "partial" ELSE output[j]] :
                      some \in SUBSET {j \in Jobs : Restarted(i, j) /\ state[j] = "Downloading"}}
    /\ UNCHANGED <<world, table, observed, raced>>

\* The key stays from here on; a server that never changed it is one that changed it
\* before the first probe.
BecomesCalm ==
    /\ ~calm
    /\ epoch = Len(Rotation)
    /\ calm' = TRUE
    /\ UNCHANGED <<epoch, table, state, plan, form, deciding, auth, output, history>>

TaskGoes(j) == Probe(j) \/ Connect(j) \/ TransferEnds(j)

\* What a user who wants the file does.
UserGoes(j) == LoadTrust(j) \/ AuthorizeRead(j) \/ RetryJob(j) \/ ResumeJob(j)

Next ==
    \/ \E j \in Jobs :
          \/ TaskGoes(j) \/ UserGoes(j)
          \/ AuthorizeWrite(j) \/ CompleteJobSelection(j)
          \/ PauseJob(j) \/ CancelJob(j) \/ TransferBreaks(j)
    \/ \E i \in Restarting : RestartInstance(i)
    \/ ServerKeyChanges
    \/ BecomesCalm

Spec == Init /\ [][Next]_vars

================================================================================
