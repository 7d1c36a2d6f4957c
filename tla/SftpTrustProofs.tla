---------------------------- MODULE SftpTrustProofs ----------------------------
(***************************************************************************)
(* What SftpTrust promises, proved for any jobs, instances and keys and    *)
(* any succession of keys of the server.                                   *)
(***************************************************************************)
EXTENDS SftpTrustProps, TLAPS

--------------------------------------------------------------------------------
(* The types, and what they rest on: a form, and a decision, are made for a *)
(* job that awaits its selection with a key in its plan.                    *)

\* A job that awaits its selection has an observed key.
Observed == \A j \in Jobs : state[j] = "AwaitingSelection" => observed[j] # NoKey

\* While authorize_sftp_job is between its read and its write, the job stays as it was read.
Decides == \A j \in Jobs : deciding[j] # "none" => state[j] = "AwaitingSelection"

Typed == TypeOK /\ Observed /\ Decides

\* What a form can say.
LEMMA FormTyped ==
    ASSUME TypeOK, NEW j \in Jobs, observed[j] # NoKey
    PROVE  /\ Classify(observed[j]) \in Verdict
           /\ Expected(observed[j]) \in Write
    BY DEF TypeOK, Classify, Expected, Verdict, Write

\* The table keeps its rows.
LEMMA TableTyped ==
    ASSUME TypeOK, NEW key \in Keys, NEW write
    PROVE  TrustKey(key, write) \in [Keys -> Row]
    BY DEF TypeOK, TrustKey, Row

LEMMA TypedInit == Init => Typed
<1> SUFFICES ASSUME Init PROVE Typed
    OBVIOUS
<1>1. epoch \in DOMAIN Rotation
    BY RotationAssumption DEF Init
<1>2. NoForm \in {NoForm} /\ "Probing" \in JobState
    BY DEF JobState
<1> QED BY <1>1, <1>2 DEF Init, Typed, TypeOK, Observed, Decides, Row

\* The tasks keep the types.
LEMMA TypedTask ==
    ASSUME Typed, NEW j \in Jobs, TaskGoes(j) \/ TransferBreaks(j)
    PROVE  Typed'
<1> USE DEF Typed, TypeOK, Observed, Decides, world, plan, history, JobState
<1>1. CASE Probe(j)
    <2>1. serverKey \in Keys
        BY RotationAssumption DEF serverKey
    <2> QED BY <1>1, <2>1, NoKeyAssumption DEF Probe
<1>2. CASE Connect(j)
    BY <1>2 DEF Connect, TransferFails
<1>3. CASE TransferEnds(j)
    BY <1>3 DEF TransferEnds, Forget
<1>4. CASE TransferBreaks(j)
    BY <1>4 DEF TransferBreaks, TransferFails, Left
<1> QED BY <1>1, <1>2, <1>3, <1>4 DEF TaskGoes

\* So do the commands of the window.
LEMMA TypedCommand ==
    ASSUME Typed, NEW j \in Jobs,
           UserGoes(j) \/ AuthorizeWrite(j) \/ CompleteJobSelection(j) \/ PauseJob(j) \/ CancelJob(j)
    PROVE  Typed'
<1> USE DEF Typed, TypeOK, Observed, Decides, world, plan, history, JobState
<1>1. CASE LoadTrust(j)
    <2>1. [key |-> observed[j], verdict |-> Classify(observed[j])]
              \in [key : Keys, verdict : Verdict]
        BY <1>1, FormTyped DEF LoadTrust
    <2> QED BY <1>1, <2>1 DEF LoadTrust
<1>2. CASE AuthorizeRead(j)
    <2>1. Expected(observed[j]) \in Write
        BY <1>2, FormTyped DEF AuthorizeRead
    <2> QED BY <1>2, <2>1 DEF AuthorizeRead
<1>3. CASE RetryJob(j)
    BY <1>3 DEF RetryJob, MainThreadFree
<1>4. CASE ResumeJob(j)
    BY <1>4 DEF ResumeJob, MainThreadFree
<1>5. CASE AuthorizeWrite(j)
    <2>1. observed[j] \in Keys /\ TrustKey(observed[j], deciding[j]) \in [Keys -> Row]
        BY <1>5, TableTyped DEF AuthorizeWrite
    <2>2. HoldersOfOthers(j) \subseteq Jobs
        BY DEF HoldersOfOthers
    <2>3. raced' \in BOOLEAN /\ overtaken' \subseteq Jobs
        BY <1>5, <2>2 DEF AuthorizeWrite
    <2> QED BY <1>5, <2>1, <2>3 DEF AuthorizeWrite
<1>6. CASE CompleteJobSelection(j)
    BY <1>6 DEF CompleteJobSelection, MainThreadFree
<1>7. CASE PauseJob(j)
    BY <1>7 DEF PauseJob, Left, MainThreadFree
<1>8. CASE CancelJob(j)
    BY <1>8 DEF CancelJob, Forget, MainThreadFree
<1> QED BY <1>1, <1>2, <1>3, <1>4, <1>5, <1>6, <1>7, <1>8 DEF UserGoes

\* So do restarts, the server and the rest of the world.
LEMMA TypedStep == Typed /\ [Next]_vars => Typed'
<1> SUFFICES ASSUME Typed, [Next]_vars PROVE Typed'
    OBVIOUS
<1> USE DEF Typed, TypeOK, Observed, Decides, world, plan, history
<1>1. ASSUME NEW i \in Restarting, RestartInstance(i) PROVE Typed'
    <2>1. state' \in [Jobs -> JobState]
        BY <1>1 DEF RestartInstance, JobState
    <2>2. output' \in [Jobs -> {"none", "empty", "partial"}]
        BY <1>1 DEF RestartInstance
    <2>3. form' \in [Jobs -> [key : Keys, verdict : Verdict] \cup {NoForm}]
        BY <1>1 DEF RestartInstance
    <2>4. unserved' \subseteq Jobs /\ overtaken' \subseteq Jobs
        BY <1>1 DEF RestartInstance
    <2>5. /\ deciding' \in [Jobs -> Write \cup {"none"}]
          /\ auth' \in [Jobs -> Keys \cup {NoKey}]
        BY <1>1 DEF RestartInstance
    <2>6. Observed' /\ Decides'
        BY <1>1 DEF RestartInstance
    <2> QED BY <1>1, <2>1, <2>2, <2>3, <2>4, <2>5, <2>6 DEF RestartInstance
<1>2. CASE ServerKeyChanges
    BY <1>2, RotationAssumption DEF ServerKeyChanges
<1>3. CASE BecomesCalm
    BY <1>3 DEF BecomesCalm
<1>4. CASE UNCHANGED vars
    BY <1>4 DEF vars
<1> QED BY <1>1, <1>2, <1>3, <1>4, TypedTask, TypedCommand DEF Next

\* Every variable has its type, for any jobs, instances and keys.
THEOREM TrustTypeCorrect == Spec => []TypeOK
<1>1. Typed => TypeOK
    BY DEF Typed
<1> QED BY <1>1, TypedInit, TypedStep, PTL DEF Spec

--------------------------------------------------------------------------------
(* Who writes the table, and who holds credentials.                         *)

\* Only a write of authorize_sftp_job changes the table, and it leaves a trusted key there.
LEMMA TableWritten ==
    ASSUME Typed, [Next]_vars
    PROVE  \/ UNCHANGED table
           \/ \E j \in Jobs : /\ AuthorizeWrite(j)
                             /\ table' = TrustKey(observed[j], deciding[j])
                             /\ observed[j] \in Keys
<1>1. ASSUME NEW j \in Jobs, TaskGoes(j) \/ UserGoes(j) PROVE UNCHANGED table
    BY <1>1
       DEF TaskGoes, UserGoes, Probe, Connect, TransferEnds, LoadTrust, AuthorizeRead,
           RetryJob, ResumeJob
<1>2. ASSUME NEW j \in Jobs,
             CompleteJobSelection(j) \/ PauseJob(j) \/ CancelJob(j) \/ TransferBreaks(j)
      PROVE  UNCHANGED table
    BY <1>2 DEF CompleteJobSelection, PauseJob, CancelJob, TransferBreaks
<1>3. ASSUME NEW i \in Restarting, RestartInstance(i) PROVE UNCHANGED table
    BY <1>3 DEF RestartInstance
<1>4. ASSUME NEW j \in Jobs, AuthorizeWrite(j)
      PROVE  /\ observed[j] \in Keys
             /\ UNCHANGED table \/ table' = TrustKey(observed[j], deciding[j])
    BY <1>4 DEF AuthorizeWrite, Typed, TypeOK, Observed, Decides
<1> QED
    BY <1>1, <1>2, <1>3, <1>4 DEF Next, vars, ServerKeyChanges, BecomesCalm

\* Who holds credentials without that write held them before, and was overtaken before if
\* it is not now.
LEMMA CredentialsKept ==
    ASSUME Typed, [Next]_vars, ~(\E j \in Jobs : AuthorizeWrite(j)),
           NEW i \in Jobs, auth'[i] # NoKey
    PROVE  auth[i] = auth'[i] /\ (i \in overtaken => i \in overtaken')
<1> USE DEF Typed, TypeOK, history
<1>1. ASSUME NEW j \in Jobs, Probe(j) \/ UserGoes(j) \/ CompleteJobSelection(j) \/ PauseJob(j)
      PROVE  UNCHANGED <<auth, overtaken>>
    BY <1>1
       DEF UserGoes, Probe, LoadTrust, AuthorizeRead, RetryJob, ResumeJob,
           CompleteJobSelection, PauseJob
<1>2. ASSUME NEW j \in Jobs, Connect(j) \/ TransferBreaks(j)
      PROVE  /\ auth' = auth \/ auth' = [auth EXCEPT ![j] = NoKey]
             /\ overtaken' = overtaken \/ (auth'[j] = NoKey /\ overtaken' = overtaken \ {j})
    BY <1>2 DEF Connect, TransferBreaks, TransferFails
<1>3. ASSUME NEW j \in Jobs, TransferEnds(j) \/ CancelJob(j)
      PROVE  auth' = [auth EXCEPT ![j] = NoKey] /\ overtaken' = overtaken \ {j}
    BY <1>3 DEF TransferEnds, CancelJob, Forget
<1>4. ASSUME NEW h \in Restarting, RestartInstance(h)
      PROVE  auth[i] = auth'[i] /\ (i \in overtaken => i \in overtaken')
    BY <1>4 DEF RestartInstance
<1> QED
    BY <1>1, <1>2, <1>3, <1>4 DEF Next, TaskGoes, vars, ServerKeyChanges, BecomesCalm

--------------------------------------------------------------------------------
(* One key, and the credentials held for it.                                *)

\* A write that does what the table called for leaves one trusted key.
LEMMA OneKeyStep == Typed /\ OneTrustedKey /\ [Next]_vars => OneTrustedKey'
<1> SUFFICES ASSUME Typed, OneTrustedKey, [Next]_vars PROVE OneTrustedKey'
    OBVIOUS
<1>1. raced => raced'
    BY DEF Next, TaskGoes, UserGoes, Probe, Connect, TransferFails, TransferEnds, LoadTrust,
           AuthorizeRead, AuthorizeWrite, RetryJob, ResumeJob, CompleteJobSelection, PauseJob,
           CancelJob, TransferBreaks, RestartInstance, ServerKeyChanges, BecomesCalm, Forget,
           history, vars
<1>2. ASSUME NEW j \in Jobs, AuthorizeWrite(j), observed[j] \in Keys, ~raced',
             table' = TrustKey(observed[j], deciding[j]), table' # table
      PROVE  OneTrustedKey'
    <2>1. deciding[j] = Expected(observed[j])
        BY <1>2 DEF AuthorizeWrite, history
    <2> QED
        BY <1>1, <1>2, <2>1 DEF OneTrustedKey, TrustKey, Expected, TrustedKeys, Typed, TypeOK
<1> QED
    BY <1>1, <1>2, TableWritten DEF OneTrustedKey

\* At most one key of a host is trusted, unless two instances raced.
THEOREM OneKeyTrusted == Spec => []OneTrustedKey
<1>1. Init => OneTrustedKey
    BY DEF Init, OneTrustedKey
<1> QED BY <1>1, TypedInit, TypedStep, OneKeyStep, PTL DEF Spec

\* Credentials stay with a trusted key, or their job is known to be overtaken.
LEMMA CredentialsStep == Typed /\ CredentialsFollowTable /\ [Next]_vars => CredentialsFollowTable'
<1> SUFFICES ASSUME Typed, CredentialsFollowTable, [Next]_vars,
                    NEW i \in Jobs, auth'[i] # NoKey, table'[auth'[i]] # "trusted"
             PROVE  i \in overtaken'
    BY DEF CredentialsFollowTable
<1>1. CASE ~(\E j \in Jobs : AuthorizeWrite(j))
    BY <1>1, CredentialsKept, TableWritten DEF CredentialsFollowTable
<1>2. ASSUME NEW j \in Jobs, AuthorizeWrite(j) PROVE i \in overtaken'
    <2>1. observed[j] \in Keys
        BY <1>2 DEF AuthorizeWrite, Typed, TypeOK, Observed, Decides
    <2>2. CASE UNCHANGED <<table, auth, history>>
        BY <2>2 DEF CredentialsFollowTable, history
    <2>3. CASE /\ table' = TrustKey(observed[j], deciding[j])
               /\ auth' = [auth EXCEPT ![j] = observed[j]]
               /\ overtaken' = IF deciding[j] = "replace"
                               THEN (overtaken \cup HoldersOfOthers(j)) \ {j}
                               ELSE overtaken \ {j}
        <3>1. i # j
            BY <2>1, <2>3 DEF TrustKey, Typed, TypeOK
        <3>2. auth'[i] = auth[i] /\ auth[i] \in Keys /\ auth[i] # observed[j]
            BY <2>1, <2>3, <3>1 DEF TrustKey, Typed, TypeOK
        <3>3. CASE table[auth[i]] # "trusted"
            BY <2>3, <3>1, <3>2, <3>3 DEF CredentialsFollowTable
        <3>4. CASE table[auth[i]] = "trusted"
            <4>1. deciding[j] = "replace"
                BY <2>1, <2>3, <3>2, <3>4 DEF TrustKey
            <4>2. i \in HoldersOfOthers(j)
                BY <3>1, <3>2 DEF HoldersOfOthers
            <4> QED BY <2>3, <3>1, <4>1, <4>2
        <3> QED BY <3>3, <3>4
    <2> QED BY <1>2, <2>2, <2>3 DEF AuthorizeWrite
<1> QED BY <1>1, <1>2

\* Credentials are held only for a trusted key, unless another job replaced it since.
THEOREM CredentialsForTrusted == Spec => []CredentialsFollowTable
<1>1. Init => CredentialsFollowTable
    BY DEF Init, CredentialsFollowTable
<1> QED BY <1>1, TypedInit, TypedStep, CredentialsStep, PTL DEF Spec

\* Credentials are presented only to a server whose key is trusted at that moment, unless
\* another job replaced the key since.
THEOREM OnlyTrustedServe == Spec => OnlyTrustedServersServe
<1>1. Typed /\ CredentialsFollowTable /\ [Next]_vars =>
          [\A j \in Jobs :
              state[j] = "Queued" /\ state'[j] = "Downloading" =>
                  table[serverKey] = "trusted" \/ j \in overtaken]_vars
    <2> SUFFICES ASSUME Typed, CredentialsFollowTable, [Next]_vars, NEW j \in Jobs,
                        state[j] = "Queued", state'[j] = "Downloading"
                 PROVE  table[serverKey] = "trusted" \/ j \in overtaken
        OBVIOUS
    <2> USE DEF Typed, TypeOK, plan
    <2>1. ASSUME NEW i \in Jobs,
                 \/ Probe(i) \/ TransferEnds(i) \/ UserGoes(i) \/ AuthorizeWrite(i)
                 \/ CompleteJobSelection(i) \/ PauseJob(i) \/ CancelJob(i) \/ TransferBreaks(i)
          PROVE  FALSE
        BY <2>1
           DEF UserGoes, Probe, TransferEnds, LoadTrust, AuthorizeRead, RetryJob, ResumeJob,
               AuthorizeWrite, CompleteJobSelection, PauseJob, CancelJob, TransferBreaks,
               TransferFails
    <2>2. ASSUME NEW i \in Restarting, RestartInstance(i) PROVE FALSE
        BY <2>2 DEF RestartInstance
    <2>3. ASSUME NEW i \in Jobs, Connect(i)
          PROVE  i = j /\ auth[j] # NoKey /\ auth[j] = serverKey
        BY <2>3 DEF Connect, TransferFails, HostKeyAccepted
    <2> QED
        BY <2>1, <2>2, <2>3
           DEF Next, TaskGoes, ServerKeyChanges, BecomesCalm, vars, CredentialsFollowTable
<1>2. Init => CredentialsFollowTable
    BY DEF Init, CredentialsFollowTable
<1> QED
    BY <1>1, <1>2, TypedInit, TypedStep, CredentialsStep, PTL DEF Spec, OnlyTrustedServersServe

--------------------------------------------------------------------------------
(* What a decision to trust a key rests on.                                 *)

\* A table with a row has a trusted key; one for which credentials are held has one.
TableFilled ==
    /\ \A k \in Keys : table[k] # "absent" => TrustedKeys # {}
    /\ \A j \in Jobs : auth[j] # NoKey => TrustedKeys # {}

\* What authorize_sftp_job is about to write is what the form asked for.
DecisionAsked ==
    \A j \in Jobs : deciding[j] # "none" =>
        form[j] # NoForm /\ TrustAction(form[j].verdict) = deciding[j]

\* As long as no key is trusted no job has been authorized, and none probed anew: a form
\* shows the key of the plan.
FormFresh ==
    \A j \in Jobs : form[j] # NoForm /\ TrustedKeys = {} =>
        state[j] = "AwaitingSelection" /\ form[j].key = observed[j]

Confirmed == Typed /\ TableFilled /\ DecisionAsked /\ FormFresh

LEMMA ConfirmedInit == Init => Confirmed
    BY TypedInit DEF Init, Confirmed, TableFilled, DecisionAsked, FormFresh

\* A table that has a trusted key goes on to have one.
LEMMA TrustStays == ASSUME Typed, [Next]_vars, TrustedKeys' = {} PROVE TrustedKeys = {}
    BY TableWritten DEF TrustedKeys, TrustKey, Typed, TypeOK

LEMMA FilledStep == ASSUME Confirmed, [Next]_vars PROVE TableFilled'
<1> USE DEF Confirmed
<1>1. CASE UNCHANGED table /\ ~(\E j \in Jobs : AuthorizeWrite(j))
    BY <1>1, CredentialsKept DEF TableFilled, TrustedKeys
<1>2. ASSUME NEW j \in Jobs, AuthorizeWrite(j) PROVE TableFilled'
    <2>1. observed[j] \in Keys
        BY <1>2 DEF AuthorizeWrite, Typed, TypeOK, Observed, Decides
    <2>2. CASE table' = TrustKey(observed[j], deciding[j])
        BY <2>1, <2>2 DEF TableFilled, TrustedKeys, TrustKey
    <2>3. CASE UNCHANGED <<table, auth>>
        BY <2>3 DEF TableFilled, TrustedKeys
    <2> QED BY <1>2, <2>2, <2>3 DEF AuthorizeWrite
<1> QED BY <1>1, <1>2, TableWritten

LEMMA AskedStep == ASSUME Confirmed, [Next]_vars PROVE DecisionAsked'
<1> USE DEF Confirmed, Typed, TypeOK, DecisionAsked, Decides, plan
<1>1. ASSUME NEW j \in Jobs,
             \/ Probe(j) \/ Connect(j) \/ TransferBreaks(j) \/ PauseJob(j)
             \/ CompleteJobSelection(j) \/ RetryJob(j) \/ ResumeJob(j)
      PROVE  UNCHANGED <<form, deciding>>
    BY <1>1
       DEF Probe, Connect, TransferBreaks, PauseJob, CompleteJobSelection, RetryJob, ResumeJob
<1>2. ASSUME NEW j \in Jobs, TransferEnds(j) \/ CancelJob(j)
      PROVE  UNCHANGED deciding /\ deciding[j] = "none" /\ form' = [form EXCEPT ![j] = NoForm]
    BY <1>2 DEF TransferEnds, CancelJob, Forget, MainThreadFree
<1>3. ASSUME NEW j \in Jobs, LoadTrust(j)
      PROVE  /\ UNCHANGED deciding /\ deciding[j] = "none"
             /\ \A i \in Jobs \ {j} : form'[i] = form[i]
    BY <1>3 DEF LoadTrust, MainThreadFree
<1>4. ASSUME NEW j \in Jobs, AuthorizeRead(j) PROVE DecisionAsked'
    BY <1>4 DEF AuthorizeRead
<1>5. ASSUME NEW j \in Jobs, AuthorizeWrite(j) PROVE DecisionAsked'
    BY <1>5 DEF AuthorizeWrite
<1>6. ASSUME NEW i \in Restarting, RestartInstance(i) PROVE DecisionAsked'
    BY <1>6 DEF RestartInstance
<1>7. ASSUME UNCHANGED <<form, deciding>> PROVE DecisionAsked'
    BY <1>7
<1> QED
    BY <1>1, <1>2, <1>3, <1>4, <1>5, <1>6, <1>7
       DEF Next, TaskGoes, UserGoes, vars, ServerKeyChanges, BecomesCalm

LEMMA FreshStep == ASSUME Confirmed, [Next]_vars PROVE FormFresh'
<1> SUFFICES ASSUME NEW i \in Jobs, form'[i] # NoForm, TrustedKeys' = {}
             PROVE  state'[i] = "AwaitingSelection" /\ form'[i].key = observed'[i]
    BY DEF FormFresh
<1>1. TrustedKeys = {} /\ \A j \in Jobs : auth[j] = NoKey
    BY TrustStays DEF Confirmed, TableFilled
<1>2. CASE form[i] # NoForm
    <2> USE DEF Confirmed, Typed, TypeOK, plan
    <2>1. state[i] = "AwaitingSelection" /\ form[i].key = observed[i]
        BY <1>1, <1>2 DEF FormFresh
    <2>2. ASSUME NEW j \in Jobs,
                 \/ Probe(j) \/ Connect(j) \/ TransferBreaks(j) \/ PauseJob(j)
                 \/ RetryJob(j) \/ ResumeJob(j) \/ AuthorizeRead(j) \/ AuthorizeWrite(j)
          PROVE  /\ form' = form
                 /\ j # i => state'[i] = state[i] /\ observed'[i] = observed[i]
                 /\ j = i => UNCHANGED <<state, observed>>
        BY <2>1, <2>2
           DEF Probe, Connect, TransferBreaks, TransferFails, PauseJob, RetryJob, ResumeJob,
               AuthorizeRead, AuthorizeWrite
    <2>3. ASSUME NEW j \in Jobs, CompleteJobSelection(j) PROVE FALSE
        BY <1>1, <2>3 DEF CompleteJobSelection
    <2>4. ASSUME NEW j \in Jobs, TransferEnds(j) \/ CancelJob(j)
          PROVE  j # i /\ form'[i] = form[i] /\ state'[i] = state[i] /\ observed'[i] = observed[i]
        BY <2>1, <2>4 DEF TransferEnds, CancelJob, Forget
    <2>5. ASSUME NEW j \in Jobs, LoadTrust(j)
          PROVE  j # i /\ form'[i] = form[i] /\ UNCHANGED <<state, observed>>
        BY <1>2, <2>5 DEF LoadTrust
    <2>6. ASSUME NEW h \in Restarting, RestartInstance(h)
          PROVE  form'[i] = form[i] /\ state'[i] = state[i] /\ UNCHANGED observed
        BY <2>1, <2>6 DEF RestartInstance
    <2> QED
        BY <2>1, <2>2, <2>3, <2>4, <2>5, <2>6
           DEF Next, TaskGoes, UserGoes, vars, ServerKeyChanges, BecomesCalm
<1>3. CASE form[i] = NoForm
    <2> USE DEF Confirmed, Typed, TypeOK, plan
    <2>1. ASSUME NEW j \in Jobs,
                 \/ Probe(j) \/ Connect(j) \/ TransferBreaks(j) \/ PauseJob(j)
                 \/ RetryJob(j) \/ ResumeJob(j) \/ AuthorizeRead(j) \/ AuthorizeWrite(j)
                 \/ CompleteJobSelection(j)
          PROVE  form' = form
        BY <2>1
           DEF Probe, Connect, TransferBreaks, PauseJob, RetryJob, ResumeJob, AuthorizeRead,
               AuthorizeWrite, CompleteJobSelection
    <2>2. ASSUME NEW j \in Jobs, TransferEnds(j) \/ CancelJob(j) PROVE form'[i] = NoForm
        BY <1>3, <2>2 DEF TransferEnds, CancelJob, Forget
    <2>3. ASSUME NEW h \in Restarting, RestartInstance(h) PROVE form'[i] = NoForm
        BY <1>3, <2>3 DEF RestartInstance
    <2>4. ASSUME NEW j \in Jobs, LoadTrust(j)
          PROVE  \/ form'[i] = NoForm
                 \/ state'[i] = "AwaitingSelection" /\ form'[i].key = observed'[i]
        BY <1>3, <2>4 DEF LoadTrust
    <2> QED
        BY <1>3, <2>1, <2>2, <2>3, <2>4
           DEF Next, TaskGoes, UserGoes, vars, ServerKeyChanges, BecomesCalm
<1> QED BY <1>2, <1>3

LEMMA ConfirmedStep == Confirmed /\ [Next]_vars => Confirmed'
    BY TypedStep, FilledStep, AskedStep, FreshStep DEF Confirmed

\* A key becomes trusted by the write of a job that observed it: what was decided is what
\* the table called for then, which is nothing or a replacement, or another instance wrote
\* in between.
LEMMA NewTrust ==
    ASSUME Typed, [Next]_vars, NEW k \in Keys, table[k] # "trusted", table'[k] = "trusted"
    PROVE  \E j \in Jobs :
               /\ deciding[j] # "none"
               /\ observed[j] = k
               /\ \/ LostRace(j)
                  \/ deciding[j] = "replace"
                  \/ deciding[j] = "trust" /\ TrustedKeys = {}
<1>1. PICK j \in Jobs : /\ AuthorizeWrite(j)
                        /\ table' = TrustKey(observed[j], deciding[j])
    BY TableWritten
<1>2. observed[j] = k /\ deciding[j] # "none"
    BY <1>1 DEF TrustKey, AuthorizeWrite
<1>3. deciding[j] = Expected(k) =>
          \/ deciding[j] = "replace"
          \/ deciding[j] = "trust" /\ TrustedKeys = {}
    BY DEF Expected, TrustedKeys
<1> QED BY <1>2, <1>3 DEF LostRace

\* A key becomes trusted only when the user was shown this very key, but for a form that a
\* retry has outdated and a lost race.
THEOREM TrustIsConfirmed == Spec => TrustFollowsConfirmation
<1>1. ASSUME Confirmed, [Next]_vars,
             NEW k \in Keys, table[k] # "trusted", table'[k] = "trusted"
      PROVE  \E j \in Jobs :
                 /\ deciding[j] # "none"
                 /\ observed[j] = k
                 /\ form[j].key = k \/ StaleFingerprint(j) \/ LostRace(j)
    <2>1. PICK j \in Jobs : /\ deciding[j] # "none"
                            /\ observed[j] = k
                            /\ \/ LostRace(j)
                               \/ deciding[j] = "replace"
                               \/ deciding[j] = "trust" /\ TrustedKeys = {}
        BY <1>1, NewTrust DEF Confirmed
    <2>2. form[j] # NoForm /\ TrustAction(form[j].verdict) = deciding[j]
        BY <1>1, <2>1 DEF Confirmed, DecisionAsked
    <2>3. form[j].verdict \in Verdict
        BY <1>1, <2>2 DEF Confirmed, Typed, TypeOK
    <2>4. CASE deciding[j] = "replace"
        BY <2>1, <2>2, <2>3, <2>4 DEF TrustAction, Verdict, StaleFingerprint
    <2>5. CASE TrustedKeys = {}
        BY <1>1, <2>1, <2>2, <2>5 DEF Confirmed, FormFresh
    <2> QED BY <2>1, <2>4, <2>5
<1>2. Confirmed /\ [Next]_vars =>
          [\A k \in Keys :
              table[k] # "trusted" /\ table'[k] = "trusted" =>
                  \E j \in Jobs :
                      /\ deciding[j] # "none"
                      /\ observed[j] = k
                      /\ form[j].key = k \/ StaleFingerprint(j) \/ LostRace(j)]_vars
    BY <1>1
<1> QED
    BY <1>2, ConfirmedInit, ConfirmedStep, PTL DEF Spec, TrustFollowsConfirmation

\* A replaced key is trusted again only when the user replaces the trusted one by it, or
\* two instances raced.
THEOREM RevokedKeysStay == Spec => RevokedStaysRevoked
<1>1. ASSUME Confirmed, [Next]_vars,
             NEW k \in Keys, table[k] = "revoked", table'[k] = "trusted"
      PROVE  \E j \in Jobs : observed[j] = k /\ (deciding[j] = "replace" \/ LostRace(j))
    BY <1>1, NewTrust DEF Confirmed, TableFilled
<1>2. Confirmed /\ [Next]_vars =>
          [\A k \in Keys :
              table[k] = "revoked" /\ table'[k] = "trusted" =>
                  \E j \in Jobs :
                      observed[j] = k /\ (deciding[j] = "replace" \/ LostRace(j))]_vars
    BY <1>1
<1> QED
    BY <1>2, ConfirmedInit, ConfirmedStep, PTL DEF Spec, RevokedStaysRevoked

================================================================================
