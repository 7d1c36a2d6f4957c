----------------------------- MODULE SftpTrustProps -----------------------------
(* What the authorization of SFTP downloads promises.                       *)
EXTENDS SftpTrust

\* The types of the variables.
TypeOK ==
    /\ epoch \in DOMAIN Rotation
    /\ calm \in BOOLEAN
    /\ table \in [Keys -> Row]
    /\ state \in [Jobs -> JobState]
    /\ unserved \subseteq Jobs
    /\ observed \in [Jobs -> Keys \cup {NoKey}]
    /\ form \in [Jobs -> [key : Keys, verdict : Verdict] \cup {NoForm}]
    /\ deciding \in [Jobs -> Write \cup {"none"}]
    /\ auth \in [Jobs -> Keys \cup {NoKey}]
    /\ output \in [Jobs -> {"none", "empty", "partial"}]
    /\ raced \in BOOLEAN
    /\ overtaken \subseteq Jobs

\* The form shows a key that differed from the trusted one, and a retry has probed
\* another one since: the window keeps the first (App.svelte:33, :251, :271).
StaleFingerprint(j) ==
    /\ form[j].verdict = "mismatch"
    /\ form[j].key # observed[j]

\* The authorization of j writes what the table called for before another instance wrote.
LostRace(j) == deciding[j] \notin {"none", Expected(observed[j])}

\* A key becomes trusted only by the form of a job whose probe observed it and in which
\* the user was shown this very key, but for a form that was loaded before a retry probed
\* anew, where "replace" stands for whichever key was observed last (lib.rs:1204-1211),
\* and a write another instance's write preceded.
TrustFollowsConfirmation ==
    [][\A k \in Keys :
          table[k] # "trusted" /\ table'[k] = "trusted" =>
              \E j \in Jobs :
                  /\ deciding[j] # "none"
                  /\ observed[j] = k
                  /\ form[j].key = k \/ StaleFingerprint(j) \/ LostRace(j)]_vars

\* At most one key of a host is trusted at any time, whatever jobs are authorized in
\* whatever order, unless two instances of the program wrote between each other's
\* statements (lib.rs:1192-1196, storage.rs:693).
OneTrustedKey ==
    \/ raced
    \/ \A k, l \in Keys : table[k] = "trusted" /\ table[l] = "trusted" => k = l

\* Credentials are held, and sent, only for a key that is trusted in the table, also when
\* a write failed and over pauses and restarts, unless another job has replaced the key
\* since: transfer_auth keeps what it was given (executor.rs:93, adapter.rs:642).
CredentialsFollowTable ==
    \A j \in Jobs : auth[j] # NoKey /\ table[auth[j]] # "trusted" => j \in overtaken

\* A worker goes on to present the credentials only to a server whose key is trusted at
\* that moment, although the server, the table and the plan may all have changed since the
\* probe, unless the key was replaced meanwhile (transfer.rs:431-458, executor.rs:93).
OnlyTrustedServersServe ==
    [][\A j \in Jobs :
          state[j] = "Queued" /\ state'[j] = "Downloading" =>
              table[serverKey] = "trusted" \/ j \in overtaken]_vars

\* A key that was replaced is trusted again only when the user replaces the trusted one
\* by it, unless two instances raced.
RevokedStaysRevoked ==
    [][\A k \in Keys :
          table[k] = "revoked" /\ table'[k] = "trusted" =>
              \E j \in Jobs : observed[j] = k /\ (deciding[j] = "replace" \/ LostRace(j))]_vars

\* The runtime runs the task of a job, and the main thread carries on with a command.  The
\* user loads the key, confirms it, and retries or resumes; and the form completes the
\* selection some day, even if the user keeps on submitting it.
Fairness ==
    \A j \in Jobs :
        /\ WF_vars(TaskGoes(j) \/ AuthorizeWrite(j))
        /\ WF_vars(UserGoes(j))
        /\ SF_vars(CompleteJobSelection(j))

LiveSpec == Spec /\ Fairness

\* The form asks for a write that is not the one the table calls for, and will go on
\* doing so as long as the window lives: every submission is refused.
StaleForm(j) ==
    /\ state[j] = "AwaitingSelection"
    /\ form[j] # NoForm
    /\ TrustAction(form[j].verdict) # Expected(observed[j])

\* The first probe failed, so that there is no plan that says what to ask for; the retry
\* queues the job, and it fails for want of credentials (executor.rs:195, adapter.rs:615).
NeverAsked(j) == state[j] \in {"Failed", "Queued"} /\ observed[j] = NoKey

\* The worker left an empty output, which no worker resumes (transfer.rs:196, :552).
EmptyOutput(j) == output[j] = "empty" /\ state[j] # "Downloading"

\* When the server keeps its key and all is well, a user who confirms the key, has the
\* right credentials and retries what failed gets every file, but for four dead ends: a
\* form that is out of date, a job that was never asked, one that lost its task with a
\* restart, and an empty output.
JobsEnd ==
    calm ~> \A j \in Jobs :
                \/ state[j] \in {"Completed", "Canceled"}
                \/ StaleForm(j) \/ NeverAsked(j) \/ j \in unserved \/ EmptyOutput(j)

================================================================================
