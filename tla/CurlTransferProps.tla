--------------------------- MODULE CurlTransferProps ---------------------------
(* What a download of a direct file promises.                               *)
EXTENDS CurlTransfer

\* The types of the variables.
TypeOK ==
    /\ scheme \in Schemes
    /\ remote \in Versions
    /\ healthy \in BOOLEAN
    /\ job \in {"queued", "curl", "aria2", "paused", "failed", "completed"}
    /\ tries \in 0..MaxTries
    /\ exists \in BOOLEAN
    /\ file \in Seq(Chunk)
    /\ worker \in {"none", "started", "body", "completed"}
    /\ resumeFrom \in Nat
    /\ body \in Seq(Chunk)
    /\ cause \in {"none", "io", "auth", "status", "range", "network", "tls", "host_key", "disk"}
    /\ delivered \in Seq(Chunk)
    /\ seams \subseteq Nat
    /\ shift \in Nat
    /\ short \subseteq Nat

Follows(c, d) == d = <<c[1], c[2] + 1>>

\* A completed download has chunks of the file and no error page among them, from the
\* first to the last and one after the other, over pauses, kills, broken connections and
\* servers that answer a range with something else (transfer.rs:123-137, :194-206).  What
\* may be wrong with it is this, and nothing else.  The adapter names no validator, so
\* that a worker may go on with another version than the one before it, and find there
\* that it has all of it (adapter.rs:635).  Of the answer to a request for the whole file
\* the start of its range is not read (transfer.rs:128-133), so that the file may begin
\* elsewhere.  And of no answer is it read where its range ends (transfer.rs:151-156),
\* nor is the length of the file known, so that it may end with a body that ends early.
DeliveredIsSpliced ==
    job = "completed" =>
        /\ \A i \in DOMAIN delivered :
               \E v \in Versions : \E n \in 1..Lengths[v] : delivered[i] = <<v, n>>
        /\ delivered # <<>> => delivered[1][2] \in {1, shift + 1}
        /\ \A i \in 1..(Len(delivered) - 1) :
               \/ Follows(delivered[i], delivered[i + 1])
               \/ i \in seams /\ delivered[i + 1][2] = i + 1
        /\ \/ Len(delivered) \in seams \cup short
           \/ delivered[Len(delivered)][2] = Lengths[delivered[Len(delivered)][1]]

\* A partial file is never cut short, replaced or removed: it grows until it is moved to
\* its destination (invalid_resume_response_preserves_partial, transfer.rs:725).
PartialOnlyGrows ==
    [][\/ /\ exists => exists'
          /\ Len(file) <= Len(file')
          /\ SubSeq(file', 1, Len(file)) = file
       \/ delivered' = file /\ job' = "completed"]_vars

\* The worker, the adapter and the executor go on; aria2 ends some day; and the user
\* resumes or retries a job that has stopped.
Fairness ==
    /\ WF_vars(StartWorker)
    /\ WF_vars(WorkerStep)
    /\ WF_vars(Deliver)
    /\ WF_vars(Aria2Delivers \/ Aria2Fails)
    /\ WF_vars(Resume)

LiveSpec == Spec /\ Fairness

\* What is in the staging directory can neither be resumed nor replaced: an empty file,
\* which the SFTP worker leaves when it finds no connection, or one that has all chunks
\* already, as a worker leaves it that is stopped before its answer is read.
Unresumable ==
    /\ job = "queued"
    /\ exists
    /\ \/ file = <<>>
       \/ Len(file) > Lengths[remote]
       \/ Len(file) = Lengths[remote] /\ scheme = "http"

\* When all is well again, a download that is resumed or retried gets to its end, unless
\* it cannot be resumed (transfer.rs:196, :552).
ResumptionCompletes == healthy ~> (job = "completed" \/ Unresumable)

================================================================================
