------------------------------ MODULE CurlTransfer ------------------------------
(***************************************************************************)
(* The download of a direct file over HTTP or SFTP: the curl worker        *)
(* (fmd-curl-worker), the adapter that runs it (adapter.rs), and the chain *)
(* of engines and attempts around it (executor.rs, routing.rs).  A partial *)
(* file stays in the staging directory of its attempt over pauses, crashes *)
(* and retries, and the next worker resumes it.                            *)
(*                                                                         *)
(* A file is a sequence of chunks; a chunk is known by the version of the  *)
(* remote file it belongs to and its place in it.  A response is a         *)
(* snapshot of one version; one that reports success carries chunks of it  *)
(* and nothing else, from where its range starts, but not always the range *)
(* asked for, nor always all of it.  What libcurl does is taken from how   *)
(* transfer.rs uses it; aria2 is an engine that delivers the file or       *)
(* fails.  One instance of the program works on the job, and one task in   *)
(* it (JobExecutor), so that one worker at a time has the partial file.    *)
(***************************************************************************)
EXTENDS Naturals, Sequences

CONSTANTS
    Lengths,     \* the length of each version of the remote file, in chunks
    Schemes,     \* schemes of the source
    MaxTries     \* retries of a transient failure (3 in the code)

Versions == DOMAIN Lengths

ASSUME LengthsAssumption == Lengths \in Seq(Nat) /\ Lengths # <<>>
ASSUME SchemesAssumption == Schemes \subseteq {"http", "sftp"}
ASSUME TriesAssumption == MaxTries \in Nat

VARIABLES
    scheme,
    remote,      \* the version the server has
    healthy,     \* from now on neither server, network, disk nor file give trouble
    job,         \* what the executor does with the job
    tries,       \* transient failures of this download
    exists,      \* the output file is in the staging directory
    file,        \* its chunks
    worker,      \* where the worker stands
    resumeFrom,  \* resume_from of its request
    body,        \* chunks of its response it has yet to receive
    cause,       \* why the worker failed last, "none" at first
    delivered,   \* the file at its destination
    seams,       \* history: where workers have resumed
    shift,       \* history: where the range began that answered the last request
                 \* for the file from its start
    short        \* history: lengths that bodies give the file which end before
                 \* their version does

world == <<scheme, remote, healthy>>
staging == <<exists, file>>
answered == <<shift, short>>
vars == <<scheme, remote, healthy, job, tries, exists, file, worker, resumeFrom, body,
          cause, delivered, seams, shift, short>>

Chunk == Versions \X Nat
Whole(v) == [i \in 1..Lengths[v] |-> <<v, i>>]

\* What a server has beside the file: the page that comes with an error.
ErrorPage == <<<<0, 1>>>>

Init ==
    /\ scheme \in Schemes
    /\ remote = 1
    /\ healthy = FALSE
    /\ job = "queued"
    /\ tries = 0
    /\ exists = FALSE
    /\ file = <<>>
    /\ worker = "none"
    /\ resumeFrom = 0
    /\ body = <<>>
    /\ cause = "none"
    /\ delivered = <<>>
    /\ seams = {}
    /\ shift = 0
    /\ short = {}

--------------------------------------------------------------------------------
(* The chain of engines.                                                    *)

\* Router: the engines of a direct file.
Route == IF scheme = "http" THEN <<"curl", "aria2">> ELSE <<"curl">>

\* EngineErrorKind of a failed worker: classify_failure is given a fixed text, so that
\* every failure is an ExtractorBroken, whatever its cause.
FailureKind(why) == "ExtractorBroken"

AllowsFallback(kind) == kind \in {"Unsupported", "ExtractorBroken", "ProtocolUnsupported"}

\* The worker emits Failed and ends; the executor goes on to the next engine.
WorkerFails(why) ==
    /\ worker' = "none"
    /\ body' = <<>>
    /\ cause' = why
    /\ job' = IF AllowsFallback(FailureKind(why)) /\ Len(Route) > 1
              THEN "aria2" ELSE "failed"

\* download_curl_worker: what there is of the output is to be resumed.
StartWorker ==
    /\ job = "queued"
    /\ job' = "curl"
    /\ worker' = "started"
    /\ resumeFrom' = Len(file)
    /\ seams' = seams \cup {Len(file)}
    /\ UNCHANGED <<world, tries, staging, body, cause, delivered, answered>>

--------------------------------------------------------------------------------
(* The worker.                                                              *)

\* Mutant of DestinationValid: no file may be there, whatever is asked for.
DestinationNew == ~exists

\* validate_destination: a new file must not be there, a partial one must have the
\* length to resume from.
DestinationValid == IF resumeFrom = 0 THEN ~exists ELSE exists /\ Len(file) = resumeFrom

DestinationRefused ==
    /\ worker = "started"
    /\ ~DestinationValid
    /\ WorkerFails("io")
    /\ UNCHANGED <<world, tries, staging, resumeFrom, delivered, seams, answered>>

\* What the server may answer to a request for the file from an offset: its status, the
\* start of its range, its validator, the chunks it sends, and whether they are the last
\* ones of their version.
Part(v, from, to) == SubSeq(Whole(v), from + 1, to)
Rest(v, from) == Part(v, from, Lengths[v])
FileAnswer(status, v, from, to) ==
    [status |-> status, start |-> from, validator |-> v, chunks |-> Part(v, from, to),
     last |-> to = Lengths[v]]
ErrorAnswer(status) ==
    [status |-> status, start |-> 0, validator |-> 0, chunks |-> ErrorPage, last |-> TRUE]

GoodAnswer ==
    IF resumeFrom = 0 THEN FileAnswer(200, remote, 0, Lengths[remote])
    ELSE IF resumeFrom < Lengths[remote]
         THEN FileAnswer(206, remote, resumeFrom, Lengths[remote])
         ELSE ErrorAnswer(416)

\* The start of the file for any part of it, some other part of it, less of it than was
\* asked for, or an error.  That a body of unknown length is cut off by its connection
\* is the same as if the server had sent no more.
OtherAnswers ==
    {ErrorAnswer(status) : status \in {302, 401, 503}}
        \cup {FileAnswer(200, remote, 0, to) : to \in 0..Lengths[remote]}
        \cup UNION {{FileAnswer(206, remote, from, to) : to \in from..Lengths[remote]} :
                        from \in 0..Lengths[remote]}
Answers == IF healthy THEN {GoodAnswer} ELSE {GoodAnswer} \cup OtherAnswers

\* expected_validator of the request; 0 stands for None, the only value the adapter gives.
ExpectedValidator == 0

\* Mutant of Accepted: a resumed transfer takes any successful answer.
AcceptedAnyway(answer) == answer.status \in 200..299

\* HeaderGate::consume at the end of the headers.  Where a range ends is never read, and
\* where it starts only if the transfer is resumed.
Accepted(answer) ==
    /\ answer.status \in 200..299
    /\ resumeFrom > 0 =>
           /\ answer.status = 206
           /\ answer.start = resumeFrom
           /\ ExpectedValidator # 0 => answer.validator = ExpectedValidator

\* HTTP: what the gate refuses is never written.
Respond ==
    /\ scheme = "http"
    /\ worker = "started"
    /\ DestinationValid
    /\ \E answer \in Answers :
           IF Accepted(answer)
           THEN /\ worker' = "body"
                /\ body' = answer.chunks
                /\ shift' = IF resumeFrom = 0 THEN answer.start ELSE shift
                /\ short' = IF answer.last THEN short
                            ELSE short \cup {resumeFrom + Len(answer.chunks)}
                /\ UNCHANGED <<job, cause>>
           ELSE /\ WorkerFails(IF answer.status = 401 THEN "auth" ELSE "status")
                /\ UNCHANGED answered
    /\ UNCHANGED <<world, tries, staging, resumeFrom, delivered, seams>>

\* SFTP: the file is opened before the server is asked; an offset behind its end is an
\* error, and one at its end leaves nothing to do.
Connect ==
    /\ scheme = "sftp"
    /\ worker = "started"
    /\ DestinationValid
    /\ exists' = TRUE
    /\ IF resumeFrom <= Lengths[remote]
       THEN /\ worker' = "body"
            /\ body' = Rest(remote, resumeFrom)
            /\ UNCHANGED <<job, cause>>
       ELSE WorkerFails("range")
    /\ UNCHANGED <<world, tries, file, resumeFrom, delivered, seams, answered>>

\* No connection, or none that is trusted; the SFTP worker has opened the file by then.
NoConnection ==
    /\ worker = "started"
    /\ ~healthy
    /\ DestinationValid
    /\ exists' = (exists \/ scheme = "sftp")
    /\ \E why \in {"network", "tls", "host_key", "auth"} :
           /\ why \in {"host_key", "auth"} => scheme = "sftp"
           /\ WorkerFails(why)
    /\ UNCHANGED <<world, tries, file, resumeFrom, delivered, seams, answered>>

\* The write function opens the file for the first chunk and appends it.
ReceiveChunk ==
    /\ worker = "body"
    /\ body # <<>>
    /\ exists' = TRUE
    /\ file' = Append(file, Head(body))
    /\ body' = Tail(body)
    /\ UNCHANGED <<world, job, tries, worker, resumeFrom, cause, delivered, seams,
                   answered>>

\* The connection breaks or stalls, or the file cannot be written; what there is stays.
TransferBreaks ==
    /\ worker = "body"
    /\ ~healthy
    /\ \E why \in {"network", "disk"} : WorkerFails(why)
    /\ UNCHANGED <<world, tries, staging, resumeFrom, delivered, seams, answered>>

\* The file is synced, and Completed sent.
TransferEnds ==
    /\ worker = "body"
    /\ body = <<>>
    /\ exists' = TRUE
    /\ worker' = "completed"
    /\ UNCHANGED <<world, job, tries, file, resumeFrom, body, cause, delivered, seams,
                   answered>>

WorkerStep ==
    \/ DestinationRefused
    \/ Respond
    \/ Connect
    \/ ReceiveChunk
    \/ TransferEnds

--------------------------------------------------------------------------------
(* The executor, the user and the world.                                    *)

\* The adapter has its answer; the executor moves the file to its destination.
Deliver ==
    /\ job = "curl"
    /\ worker = "completed"
    /\ worker' = "none"
    /\ delivered' = file
    /\ exists' = FALSE
    /\ file' = <<>>
    /\ job' = "completed"
    /\ UNCHANGED <<world, tries, resumeFrom, body, cause, seams, answered>>

\* The supervisor kills a worker that takes too long: a transient failure, which the
\* executor retries with the same engine, and the last one fails the job.
TimesOut ==
    /\ job = "curl"
    /\ ~healthy
    /\ worker' = "none"
    /\ body' = <<>>
    /\ IF tries < MaxTries
       THEN tries' = tries + 1 /\ job' = "queued"
       ELSE job' = "failed" /\ UNCHANGED tries
    /\ UNCHANGED <<world, staging, resumeFrom, cause, delivered, seams, answered>>

\* aria2 works in the staging directory of its own attempt.
Aria2Delivers ==
    /\ job = "aria2"
    /\ delivered' = Whole(remote)
    /\ job' = "completed"
    /\ UNCHANGED <<world, tries, staging, worker, resumeFrom, body, cause, seams, answered>>

Aria2Fails ==
    /\ job = "aria2"
    /\ job' = "failed"
    /\ UNCHANGED <<world, tries, staging, worker, resumeFrom, body, cause, delivered, seams,
                   answered>>

\* The user pauses the job or the program ends; the worker is killed where it stands.
Stop ==
    /\ job \in {"queued", "curl", "aria2"}
    /\ ~healthy
    /\ job' = "paused"
    /\ worker' = "none"
    /\ body' = <<>>
    /\ UNCHANGED <<world, tries, staging, resumeFrom, cause, delivered, seams, answered>>

\* resume and retry: download() starts again at the first engine of the route, in the
\* same staging directory.
Resume ==
    /\ job \in {"paused", "failed"}
    /\ job' = "queued"
    /\ tries' = 0
    /\ UNCHANGED <<world, staging, worker, resumeFrom, body, cause, delivered, seams,
                   answered>>

RemoteChanges ==
    /\ ~healthy
    /\ remote + 1 \in Versions
    /\ remote' = remote + 1
    /\ UNCHANGED <<scheme, healthy, job, tries, staging, worker, resumeFrom, body, cause,
                   delivered, seams, answered>>

Recovers ==
    /\ ~healthy
    /\ healthy' = TRUE
    /\ UNCHANGED <<scheme, remote, job, tries, staging, worker, resumeFrom, body, cause,
                   delivered, seams, answered>>

Next ==
    \/ StartWorker
    \/ WorkerStep
    \/ NoConnection
    \/ TransferBreaks
    \/ Deliver
    \/ TimesOut
    \/ Aria2Delivers
    \/ Aria2Fails
    \/ Stop
    \/ Resume
    \/ RemoteChanges
    \/ Recovers

Spec == Init /\ [][Next]_vars

================================================================================
