--------------------------- MODULE CurlTransferProofs ---------------------------
(***************************************************************************)
(* What CurlTransfer promises, proved for any number of versions of the    *)
(* remote file, of any lengths, for both schemes and any number of retries.*)
(***************************************************************************)
EXTENDS CurlTransferProps, SequenceTheorems, TLAPS

--------------------------------------------------------------------------------
(* The chunks of a response.                                                *)

\* A sequence of no chunks.
LEMMA NoChunks == <<>> \in Seq(Chunk)
    OBVIOUS

\* The chunks of a version.
LEMMA WholeChunks ==
    ASSUME NEW v \in Versions
    PROVE  /\ Lengths[v] \in Nat
           /\ Whole(v) \in Seq(Chunk)
           /\ Len(Whole(v)) = Lengths[v]
           /\ \A i \in 1..Lengths[v] : Whole(v)[i] = <<v, i>>
<1>1. Lengths[v] \in Nat
    BY LengthsAssumption DEF Versions
<1>2. Whole(v) \in [1..Lengths[v] -> Chunk]
    BY <1>1 DEF Whole, Chunk
<1>3. Whole(v) \in Seq(Chunk) /\ Len(Whole(v)) = Lengths[v]
    BY <1>1, <1>2
<1>4. \A i \in 1..Lengths[v] : Whole(v)[i] = <<v, i>>
    BY DEF Whole
<1> QED BY <1>1, <1>3, <1>4

\* The chunks of a part of a version.
LEMMA PartChunks ==
    ASSUME NEW v \in Versions, NEW from \in Nat, NEW to \in from..Lengths[v]
    PROVE  /\ Part(v, from, to) \in Seq(Chunk)
           /\ Len(Part(v, from, to)) = to - from
           /\ \A i \in 1..(to - from) : Part(v, from, to)[i] = <<v, from + i>>
<1>1. /\ Lengths[v] \in Nat
      /\ Whole(v) \in Seq(Chunk)
      /\ Len(Whole(v)) = Lengths[v]
      /\ \A i \in 1..Lengths[v] : Whole(v)[i] = <<v, i>>
    BY WholeChunks
<1>2. from + 1 \in 1..(to + 1) /\ to \in 0..Lengths[v]
    BY <1>1
<1>3. Part(v, from, to) \in Seq(Chunk) /\ Len(Part(v, from, to)) = to - from
    BY <1>1, <1>2, SubSeqProperties DEF Part
<1>4. ASSUME NEW i \in 1..(to - from) PROVE Part(v, from, to)[i] = <<v, from + i>>
    <2>1. Part(v, from, to)[i] = Whole(v)[from + i]
        BY <1>1, <1>2, SubSeqProperties DEF Part
    <2> QED BY <1>1, <1>2, <2>1
<1> QED BY <1>3, <1>4

\* What a worker takes from a server is a part of the version it has: from the offset it
\* resumes at, or from where the server likes.
LEMMA AcceptedIsPart ==
    ASSUME NEW answer \in Answers, Accepted(answer), resumeFrom \in Nat, remote \in Versions
    PROVE  \E from \in Nat : \E to \in from..Lengths[remote] :
               /\ answer.chunks = Part(remote, from, to)
               /\ answer.start = from
               /\ answer.last <=> to = Lengths[remote]
               /\ resumeFrom > 0 => from = resumeFrom
<1>0. Lengths[remote] \in Nat
    BY WholeChunks
<1>e. \A status \in {302, 401, 416, 503} : answer # ErrorAnswer(status)
    BY DEF Accepted, ErrorAnswer
<1>f. \A status, from, to :
          /\ FileAnswer(status, remote, from, to).chunks = Part(remote, from, to)
          /\ FileAnswer(status, remote, from, to).start = from
          /\ FileAnswer(status, remote, from, to).last <=> to = Lengths[remote]
    BY DEF FileAnswer
<1>1. CASE answer = GoodAnswer
    <2>1. CASE resumeFrom = 0
        <3>1. answer = FileAnswer(200, remote, 0, Lengths[remote])
            BY <1>1, <2>1 DEF GoodAnswer
        <3> QED BY <1>0, <1>f, <2>1, <3>1
    <2>2. CASE resumeFrom # 0
        <3>1. /\ resumeFrom < Lengths[remote]
              /\ answer = FileAnswer(206, remote, resumeFrom, Lengths[remote])
            BY <1>1, <1>e, <2>2 DEF GoodAnswer
        <3>2. Lengths[remote] \in resumeFrom..Lengths[remote]
            BY <1>0, <3>1
        <3> QED BY <1>f, <3>1, <3>2
    <2> QED BY <2>1, <2>2
<1>2. CASE answer \in OtherAnswers
    <2>1. PICK status \in {200, 206}, from \in Nat, to \in Nat :
              /\ to \in from..Lengths[remote]
              /\ answer = FileAnswer(status, remote, from, to)
        BY <1>0, <1>2, <1>e DEF OtherAnswers
    <2>2. resumeFrom > 0 => from = resumeFrom
        BY <2>1 DEF Accepted, FileAnswer
    <2> QED BY <1>f, <2>1, <2>2
<1> QED BY <1>1, <1>2 DEF Answers

--------------------------------------------------------------------------------
(* The types, and where a worker stands.                                    *)

\* A worker is there while the job is at the curl engine; until it has opened the output,
\* the output is what it is to resume, and this is a seam.
Works ==
    /\ worker # "none" => job = "curl"
    /\ worker = "started" => Len(file) = resumeFrom /\ resumeFrom \in seams

Typed == TypeOK /\ Works

LEMMA TypedInit == Init => Typed
<1> SUFFICES ASSUME Init PROVE Typed
    OBVIOUS
<1>1. remote \in Versions
    BY LengthsAssumption DEF Init, Versions
<1>2. tries \in 0..MaxTries
    BY TriesAssumption DEF Init
<1>3. file \in Seq(Chunk) /\ body \in Seq(Chunk) /\ delivered \in Seq(Chunk)
    BY NoChunks DEF Init
<1>4. /\ scheme \in Schemes /\ healthy \in BOOLEAN /\ exists \in BOOLEAN
      /\ job \in {"queued", "curl", "aria2", "paused", "failed", "completed"}
      /\ worker \in {"none", "started", "body", "completed"}
      /\ resumeFrom \in Nat /\ seams \subseteq Nat /\ shift \in Nat /\ short \subseteq Nat
      /\ cause \in {"none", "io", "auth", "status", "range", "network", "tls", "host_key", "disk"}
    BY DEF Init
<1>5. Works
    BY DEF Init, Works
<1> QED
    BY <1>1, <1>2, <1>3, <1>4, <1>5 DEF Typed, TypeOK

\* A worker's failure ends it, for one of the known causes.
LEMMA FailureTyped ==
    ASSUME NEW why, WorkerFails(why),
           why \in {"io", "auth", "status", "range", "network", "tls", "host_key", "disk"}
    PROVE  /\ worker' = "none" /\ body' = <<>>
           /\ job' \in {"aria2", "failed"}
           /\ cause' \in {"none", "io", "auth", "status", "range", "network", "tls",
                          "host_key", "disk"}
    BY DEF WorkerFails

\* What Respond takes over, or what has failed.
LEMMA Responds ==
    ASSUME Typed, Respond
    PROVE  /\ UNCHANGED <<world, tries, staging, resumeFrom, delivered, seams>>
           /\ worker = "started"
           /\ \/ /\ worker' = "body" /\ UNCHANGED <<job, cause>>
                 /\ \E from \in Nat : \E to \in from..Lengths[remote] :
                       /\ body' = Part(remote, from, to)
                       /\ shift' = IF resumeFrom = 0 THEN from ELSE shift
                       /\ short' = IF to = Lengths[remote] THEN short
                                   ELSE short \cup {resumeFrom + Len(body')}
                       /\ resumeFrom > 0 => from = resumeFrom
              \/ /\ worker' = "none" /\ body' = <<>> /\ job' \in {"aria2", "failed"}
                 /\ cause' \in {"auth", "status"}
                 /\ UNCHANGED <<shift, short>>
<1>0. worker = "started" /\ UNCHANGED <<world, tries, staging, resumeFrom, delivered, seams>>
    BY DEF Respond
<1>1. PICK answer \in Answers :
          IF Accepted(answer)
          THEN /\ worker' = "body" /\ body' = answer.chunks /\ UNCHANGED <<job, cause>>
               /\ shift' = IF resumeFrom = 0 THEN answer.start ELSE shift
               /\ short' = IF answer.last THEN short
                           ELSE short \cup {resumeFrom + Len(answer.chunks)}
          ELSE /\ WorkerFails(IF answer.status = 401 THEN "auth" ELSE "status")
               /\ UNCHANGED answered
    BY DEF Respond
<1>2. resumeFrom \in Nat /\ remote \in Versions
    BY DEF Typed, TypeOK
<1>3. CASE Accepted(answer)
    <2>1. PICK from \in Nat, to \in Nat :
              /\ to \in from..Lengths[remote]
              /\ answer.chunks = Part(remote, from, to)
              /\ answer.start = from
              /\ answer.last <=> to = Lengths[remote]
              /\ resumeFrom > 0 => from = resumeFrom
        BY <1>2, <1>3, AcceptedIsPart
    <2>2. /\ worker' = "body" /\ UNCHANGED <<job, cause>>
          /\ body' = Part(remote, from, to)
          /\ shift' = IF resumeFrom = 0 THEN from ELSE shift
          /\ short' = IF to = Lengths[remote] THEN short
                      ELSE short \cup {resumeFrom + Len(body')}
        BY <1>1, <1>3, <2>1
    <2> QED BY <1>0, <2>1, <2>2
<1>4. CASE ~Accepted(answer)
    BY <1>0, <1>1, <1>4 DEF WorkerFails, answered
<1> QED BY <1>3, <1>4

\* The worker keeps the types.
LEMMA TypedWorker ==
    ASSUME Typed, WorkerStep \/ NoConnection \/ TransferBreaks PROVE Typed'
<1> USE DEF Typed, TypeOK, Works, world, staging, answered
<1>1. CASE DestinationRefused
    BY <1>1, FailureTyped, NoChunks DEF DestinationRefused
<1>2. CASE Respond
    <2>1. body' \in Seq(Chunk) /\ shift' \in Nat /\ short' \subseteq Nat
        <3>1. CASE worker' = "none"
            BY <1>2, <3>1, Responds, NoChunks
        <3>2. CASE worker' # "none"
            <4>1. PICK from \in Nat, to \in Nat :
                      /\ to \in from..Lengths[remote]
                      /\ body' = Part(remote, from, to)
                      /\ shift' = IF resumeFrom = 0 THEN from ELSE shift
                      /\ short' = IF to = Lengths[remote] THEN short
                                  ELSE short \cup {resumeFrom + Len(body')}
                BY <1>2, <3>2, Responds
            <4>2. body' \in Seq(Chunk) /\ Len(body') \in Nat
                BY <4>1, PartChunks, LenProperties
            <4>3. shift \in Nat /\ short \subseteq Nat /\ resumeFrom \in Nat
                OBVIOUS
            <4>4. shift' \in Nat
                BY <4>1, <4>3
            <4>5. resumeFrom + Len(body') \in Nat
                BY <4>2, <4>3
            <4>6. short' \subseteq Nat
                BY <4>1, <4>3, <4>5
            <4> QED BY <4>2, <4>4, <4>6
        <3> QED BY <3>1, <3>2
    <2>2. UNCHANGED <<scheme, remote, healthy, tries, exists, file, resumeFrom, delivered, seams>>
        BY <1>2 DEF Respond
    <2>3. worker = "started"
        BY <1>2 DEF Respond
    <2>4. \/ worker' = "body" /\ UNCHANGED <<job, cause>>
          \/ worker' = "none" /\ job' \in {"aria2", "failed"} /\ cause' \in {"auth", "status"}
        BY <1>2, Responds
    <2> QED BY <2>1, <2>2, <2>3, <2>4
<1>3. CASE Connect
    <2>1. CASE resumeFrom <= Lengths[remote]
        <3>1. body' \in Seq(Chunk)
            BY <1>3, <2>1, PartChunks, WholeChunks DEF Connect, Rest
        <3> QED BY <1>3, <2>1, <3>1 DEF Connect
    <2>2. CASE ~(resumeFrom <= Lengths[remote])
        BY <1>3, <2>2, FailureTyped, NoChunks DEF Connect
    <2> QED BY <2>1, <2>2
<1>4. CASE ReceiveChunk
    <2>1. file' \in Seq(Chunk) /\ body' \in Seq(Chunk)
        BY <1>4, HeadTailProperties, AppendProperties DEF ReceiveChunk
    <2> QED BY <1>4, <2>1 DEF ReceiveChunk
<1>5. CASE TransferEnds
    BY <1>5 DEF TransferEnds
<1>6. CASE NoConnection
    BY <1>6, FailureTyped, NoChunks DEF NoConnection
<1>7. CASE TransferBreaks
    BY <1>7, FailureTyped, NoChunks DEF TransferBreaks
<1> QED BY <1>1, <1>2, <1>3, <1>4, <1>5, <1>6, <1>7 DEF WorkerStep

\* So do the executor, the user and the world.
LEMMA TypedStep == Typed /\ [Next]_vars => Typed'
<1> SUFFICES ASSUME Typed, [Next]_vars PROVE Typed'
    OBVIOUS
<1> USE DEF Typed, TypeOK, Works, world, staging, answered
<1>1. CASE StartWorker
    <2>1. Len(file) \in Nat
        BY LenProperties
    <2> QED BY <1>1, <2>1 DEF StartWorker
<1>2. CASE Deliver
    BY <1>2, NoChunks DEF Deliver
<1>3. CASE TimesOut
    BY <1>3, TriesAssumption, NoChunks DEF TimesOut
<1>4. CASE Aria2Delivers
    BY <1>4, WholeChunks DEF Aria2Delivers
<1>5. CASE Aria2Fails
    BY <1>5 DEF Aria2Fails
<1>6. CASE Stop
    BY <1>6, NoChunks DEF Stop
<1>7. CASE Resume
    BY <1>7, TriesAssumption DEF Resume
<1>8. CASE RemoteChanges
    BY <1>8 DEF RemoteChanges
<1>9. CASE Recovers
    BY <1>9 DEF Recovers
<1>10. CASE UNCHANGED vars
    BY <1>10 DEF vars
<1> QED
    BY <1>1, <1>2, <1>3, <1>4, <1>5, <1>6, <1>7, <1>8, <1>9, <1>10, TypedWorker DEF Next

\* Every variable has its type, for any versions of the remote file.
THEOREM TransferTypeCorrect == Spec => []TypeOK
<1>1. Typed => TypeOK
    BY DEF Typed
<1> QED BY <1>1, TypedInit, TypedStep, PTL DEF Spec

--------------------------------------------------------------------------------
(* The partial file only grows.                                             *)

\* Only a chunk that is received, and the delivery, touch the output.
LEMMA OutputTouched ==
    ASSUME [Next]_vars
    PROVE  ReceiveChunk \/ Deliver \/ (UNCHANGED file /\ (exists => exists'))
    BY DEF Next, WorkerStep, StartWorker, DestinationRefused, Respond, Connect, NoConnection,
           TransferBreaks, TransferEnds, TimesOut, Aria2Delivers, Aria2Fails, Stop, Resume,
           RemoteChanges, Recovers, staging, vars

\* A partial file is never cut short, replaced or removed before it is delivered.
THEOREM PartialGrows == Spec => PartialOnlyGrows
<1>1. ASSUME Typed, [Next]_vars
      PROVE  \/ /\ exists => exists'
                /\ Len(file) <= Len(file')
                /\ SubSeq(file', 1, Len(file)) = file
             \/ delivered' = file /\ job' = "completed"
    <2>1. file \in Seq(Chunk) /\ body \in Seq(Chunk)
        BY <1>1 DEF Typed, TypeOK
    <2>2. CASE UNCHANGED file /\ (exists => exists')
        BY <2>1, <2>2, SubSeqFull, LenProperties
    <2>3. CASE ReceiveChunk
        <3>1. file' = Append(file, Head(body)) /\ Head(body) \in Chunk /\ exists'
            BY <2>1, <2>3, HeadTailProperties DEF ReceiveChunk
        <3>2. /\ file' \in Seq(Chunk) /\ Len(file') = Len(file) + 1
              /\ \A i \in 1..Len(file) : file'[i] = file[i]
            BY <2>1, <3>1, AppendProperties
        <3>3. Len(file) \in Nat
            BY <2>1, LenProperties
        <3>4. \A i \in 1..Len(file) : file'[i] \in Chunk
            BY <2>1, <3>2, ElementOfSeq
        <3>5. /\ SubSeq(file', 1, Len(file)) \in Seq(Chunk)
              /\ Len(SubSeq(file', 1, Len(file))) = Len(file)
              /\ \A i \in 1..Len(file) : SubSeq(file', 1, Len(file))[i] = file[i]
            BY <3>2, <3>3, <3>4, SubSeqProperties
        <3> QED BY <2>1, <3>1, <3>2, <3>3, <3>5, SeqEqual
    <2>4. CASE Deliver
        BY <2>4 DEF Deliver
    <2> QED BY <1>1, <2>2, <2>3, <2>4, OutputTouched
<1>2. Typed /\ [Next]_vars =>
          [\/ /\ exists => exists'
              /\ Len(file) <= Len(file')
              /\ SubSeq(file', 1, Len(file)) = file
           \/ delivered' = file /\ job' = "completed"]_vars
    BY <1>1
<1> QED BY <1>2, TypedInit, TypedStep, PTL DEF Spec, PartialOnlyGrows

--------------------------------------------------------------------------------
(* What is delivered is spliced.                                            *)

\* Every chunk of s is one of the file.
Chunks(s) == \A i \in 1..Len(s) : \E v \in Versions : \E n \in 1..Lengths[v] : s[i] = <<v, n>>

\* s begins with the first chunk, or where the answer to the first request did.
Begun(s) == Len(s) > 0 => s[1][2] \in {1, shift + 1}

\* The chunks of s follow each other, but for where a worker resumed.
Joined(s) ==
    \A i \in 1..(Len(s) - 1) :
        Follows(s[i], s[i + 1]) \/ (i \in seams /\ s[i + 1][2] = i + 1)

\* s ends with the last chunk, where a worker resumed, or with a body that ended early.
Ended(s) == \/ Len(s) \in seams \cup short
            \/ Len(s) > 0 /\ s[Len(s)][2] = Lengths[s[Len(s)][1]]

\* The body is what comes after the first n chunks of version v, to the last of them
\* or not.  The file ends with the n-th, or a worker resumed here, or it is empty.
Continues(v, n) ==
    /\ n + Len(body) <= Lengths[v]
    /\ \A i \in 1..Len(body) : body[i] = <<v, n + i>>
    /\ n + Len(body) = Lengths[v] \/ Len(file) + Len(body) \in short
    /\ \/ Len(file) = 0 /\ n \in {0, shift}
       \/ Len(file) > 0 /\ Len(file) \in seams /\ n = Len(file)
       \/ Len(file) > 0 /\ file[Len(file)] = <<v, n>>

\* The first worker of a download begins with the first chunk.
FirstSeam == 0 \in seams \/ (worker = "none" /\ job \in {"queued", "paused"} /\ file = <<>>)

Spliced ==
    /\ Chunks(file) /\ Begun(file) /\ Joined(file)
    /\ worker = "body" => \E v \in Versions : \E n \in Nat : Continues(v, n)
    /\ worker = "completed" => Ended(file)
    /\ FirstSeam
    /\ job = "completed" =>
           Chunks(delivered) /\ Begun(delivered) /\ Joined(delivered) /\ Ended(delivered)

LEMMA SplicedInit == Init => Spliced
    BY DEF Init, Spliced, Chunks, Begun, Joined, FirstSeam

\* A chunk that is received continues the file.
LEMMA ReceiveSpliced == ASSUME Typed, Spliced, ReceiveChunk PROVE Spliced'
<1>1. PICK v \in Versions, n \in Nat : Continues(v, n)
    BY DEF Spliced, ReceiveChunk
<1>2. file \in Seq(Chunk) /\ body \in Seq(Chunk) /\ body # <<>>
    BY DEF Typed, TypeOK, ReceiveChunk
<1>3. Len(file) \in Nat /\ Len(body) \in Nat \ {0} /\ Lengths[v] \in Nat
    BY <1>2, LenProperties, EmptySeq, WholeChunks
<1>4. Head(body) = <<v, n + 1>>
    BY <1>1, <1>2, <1>3 DEF Continues
<1>5. /\ Len(file') = Len(file) + 1
      /\ \A i \in 1..Len(file) : file'[i] = file[i]
      /\ file'[Len(file) + 1] = <<v, n + 1>>
    BY <1>2, <1>4, AppendProperties, HeadTailProperties DEF ReceiveChunk
<1>6. UNCHANGED <<seams, shift, short>>
    BY DEF ReceiveChunk, answered
<1>7. Chunks(file)'
    <2> SUFFICES ASSUME NEW i \in 1..(Len(file) + 1)
                 PROVE  \E w \in Versions : \E m \in 1..Lengths[w] : file'[i] = <<w, m>>
        BY <1>5 DEF Chunks
    <2>1. CASE i \in 1..Len(file)
        BY <1>5, <2>1 DEF Spliced, Chunks
    <2>2. CASE i = Len(file) + 1
        <3>1. n + 1 \in 1..Lengths[v]
            BY <1>1, <1>3 DEF Continues
        <3> QED BY <1>5, <2>2, <3>1
    <2> QED BY <1>3, <2>1, <2>2
<1>8. Begun(file)'
    <2>1. CASE Len(file) = 0
        BY <1>1, <1>5, <1>6, <2>1 DEF Continues, Begun
    <2>2. CASE Len(file) > 0
        BY <1>3, <1>5, <1>6, <2>2 DEF Spliced, Begun
    <2> QED BY <1>3, <2>1, <2>2
<1>9. Joined(file)'
    <2> SUFFICES ASSUME NEW i \in 1..Len(file)
                 PROVE  Follows(file'[i], file'[i + 1]) \/ (i \in seams /\ file'[i + 1][2] = i + 1)
        BY <1>3, <1>5, <1>6 DEF Joined
    <2>1. CASE i = Len(file)
        BY <1>1, <1>3, <1>5, <2>1 DEF Continues, Follows
    <2>2. CASE i # Len(file)
        <3>1. i \in 1..(Len(file) - 1) /\ file'[i] = file[i] /\ file'[i + 1] = file[i + 1]
            BY <1>3, <1>5, <2>2
        <3> QED BY <3>1 DEF Spliced, Joined
    <2> QED BY <2>1, <2>2
<1>10. Continues(v, n + 1)'
    <2>1. /\ Len(body') = Len(body) - 1
          /\ \A i \in 1..Len(body') : body'[i] = body[i + 1]
        BY <1>2, HeadTailProperties DEF ReceiveChunk
    <2>2. \A i \in 1..Len(body') : body'[i] = <<v, (n + 1) + i>>
        <3> SUFFICES ASSUME NEW i \in 1..(Len(body) - 1)
                     PROVE  body'[i] = <<v, (n + 1) + i>>
            BY <2>1
        <3>1. i + 1 \in 1..Len(body) /\ n + (i + 1) = (n + 1) + i
            BY <1>3
        <3>2. body[i + 1] = <<v, n + (i + 1)>>
            BY <1>1, <3>1 DEF Continues
        <3> QED BY <2>1, <3>1, <3>2
    <2>3. /\ (n + 1) + Len(body') = n + Len(body)
          /\ Len(file') + Len(body') = Len(file) + Len(body)
          /\ Len(file') > 0 /\ file'[Len(file')] = <<v, n + 1>>
        BY <1>3, <1>5, <2>1
    <2> QED
        BY <1>1, <1>6, <2>2, <2>3 DEF Continues
<1>11. job' = "curl" /\ worker' = "body" /\ FirstSeam'
    BY DEF Typed, Works, Spliced, FirstSeam, ReceiveChunk
<1> QED BY <1>7, <1>8, <1>9, <1>10, <1>11 DEF Spliced

\* A worker that is answered goes on with the version the server has, at the end of the
\* file unless it is empty.
LEMMA Answered ==
    ASSUME Typed, Respond \/ Connect, worker' = "body"
    PROVE  \E v \in Versions : \E n \in Nat : Continues(v, n)'
<1>1. Len(file) = resumeFrom /\ resumeFrom \in seams /\ UNCHANGED <<file, seams>>
    <2>1. CASE Respond
        BY <2>1, Responds DEF Respond, Typed, Works, staging
    <2>2. CASE Connect
        BY <2>2 DEF Connect, Typed, Works
    <2> QED BY <2>1, <2>2
<1>2. remote \in Versions /\ resumeFrom \in Nat /\ Lengths[remote] \in Nat
    BY WholeChunks DEF Typed, TypeOK
<1>3. \E from \in Nat : \E to \in from..Lengths[remote] :
          /\ body' = Part(remote, from, to)
          /\ resumeFrom = 0 => from \in {0, shift'}
          /\ resumeFrom > 0 => from = resumeFrom
          /\ to = Lengths[remote] \/ resumeFrom + Len(body') \in short'
    <2>1. CASE Respond
        <3>1. PICK from \in Nat, to \in Nat :
                  /\ to \in from..Lengths[remote]
                  /\ body' = Part(remote, from, to)
                  /\ shift' = IF resumeFrom = 0 THEN from ELSE shift
                  /\ short' = IF to = Lengths[remote] THEN short
                              ELSE short \cup {resumeFrom + Len(body')}
                  /\ resumeFrom > 0 => from = resumeFrom
            BY <2>1, Responds
        <3> QED BY <3>1
    <2>2. CASE Connect
        <3>1. resumeFrom <= Lengths[remote] /\ body' = Part(remote, resumeFrom, Lengths[remote])
            BY <2>2 DEF Connect, WorkerFails, Rest
        <3>2. Lengths[remote] \in resumeFrom..Lengths[remote]
            BY <1>2, <3>1
        <3> QED BY <1>2, <3>1, <3>2
    <2> QED BY <2>1, <2>2
<1>4. PICK from \in Nat, to \in Nat :
          /\ to \in from..Lengths[remote]
          /\ body' = Part(remote, from, to)
          /\ resumeFrom = 0 => from \in {0, shift'}
          /\ resumeFrom > 0 => from = resumeFrom
          /\ to = Lengths[remote] \/ resumeFrom + Len(body') \in short'
    BY <1>3
<1>5. Len(body') = to - from /\ \A i \in 1..(to - from) : body'[i] = <<remote, from + i>>
    BY <1>2, <1>4, PartChunks
<1>6. PICK v \in Versions : v = remote
    BY <1>2
<1>7. Continues(v, from)'
    <2>1. from + Len(body') = to /\ to <= Lengths[v]
        BY <1>2, <1>4, <1>5, <1>6
    <2>2. \/ Len(file') = 0 /\ from \in {0, shift'}
          \/ Len(file') > 0 /\ Len(file') \in seams' /\ from = Len(file')
        BY <1>1, <1>2, <1>4
    <2>3. from + Len(body') = Lengths[v] \/ Len(file') + Len(body') \in short'
        BY <1>1, <1>4, <1>6, <2>1
    <2>4. \A i \in 1..Len(body') : body'[i] = <<v, from + i>>
        BY <1>5, <1>6
    <2> QED BY <2>1, <2>2, <2>3, <2>4 DEF Continues
<1> QED BY <1>7

LEMMA AnswerSpliced == ASSUME Typed, Spliced, Respond \/ Connect PROVE Spliced'
<1>1. /\ worker = "started" /\ Len(file) = resumeFrom /\ resumeFrom \in Nat
      /\ UNCHANGED <<file, seams>> /\ worker' \in {"none", "body"}
      /\ job' # "completed" /\ (resumeFrom > 0 => UNCHANGED shift)
    <2>1. CASE Respond
        <3>1. worker' \in {"none", "body"} /\ job' # "completed"
            BY <2>1, Responds DEF Typed, Works
        <3>2. resumeFrom > 0 => UNCHANGED shift
            BY <2>1, Responds
        <3> QED BY <2>1, <3>1, <3>2 DEF Respond, Typed, TypeOK, Works, staging, world
    <2>2. CASE Connect
        BY <2>2 DEF Connect, Typed, TypeOK, Works, WorkerFails, world, answered
    <2> QED BY <2>1, <2>2
<1>2. worker' = "body" => \E v \in Versions : \E n \in Nat : Continues(v, n)'
    BY Answered
<1>3. Chunks(file)' /\ Begun(file)' /\ Joined(file)' /\ FirstSeam'
    BY <1>1 DEF Spliced, Chunks, Begun, Joined, FirstSeam
<1> QED
    BY <1>1, <1>2, <1>3 DEF Spliced

\* A body that has been received to its end ends the file.
LEMMA EndSpliced == ASSUME Typed, Spliced, TransferEnds PROVE Spliced'
<1>1. PICK v \in Versions, n \in Nat : Continues(v, n)
    BY DEF Spliced, TransferEnds
<1>2. Len(file) \in Nat /\ Len(body) = 0 /\ Lengths[v] \in Nat
    BY LenProperties, WholeChunks DEF Typed, TypeOK, TransferEnds
<1>3. 0 \in seams
    BY DEF Spliced, FirstSeam, TransferEnds
<1>4. n = Lengths[v] \/ Len(file) \in short
    BY <1>1, <1>2 DEF Continues
<1>5. Ended(file)
    BY <1>1, <1>2, <1>3, <1>4 DEF Continues, Ended
<1> QED
    BY <1>5 DEF Spliced, Chunks, Begun, Joined, Ended, FirstSeam, TransferEnds, Typed, Works,
                answered

\* What the curl worker or aria2 has delivered.
LEMMA DeliverySpliced == ASSUME Typed, Spliced, Deliver \/ Aria2Delivers PROVE Spliced'
<1>1. CASE Deliver
    <2>1. /\ delivered' = file /\ file' = <<>> /\ UNCHANGED <<seams, shift, short>>
          /\ worker' = "none" /\ Ended(file)
        BY <1>1 DEF Deliver, Spliced, answered
    <2>2. Chunks(delivered)' /\ Begun(delivered)' /\ Joined(delivered)' /\ Ended(delivered)'
        BY <2>1 DEF Spliced, Chunks, Begun, Joined, Ended
    <2>3. Chunks(file)' /\ Begun(file)' /\ Joined(file)'
        BY <2>1 DEF Chunks, Begun, Joined
    <2>4. FirstSeam'
        BY <1>1, <2>1 DEF Spliced, FirstSeam, Deliver
    <2> QED BY <2>1, <2>2, <2>3, <2>4 DEF Spliced
<1>2. CASE Aria2Delivers
    <2>1. /\ delivered' = Whole(remote) /\ remote \in Versions
          /\ UNCHANGED <<file, worker, seams, shift, short>> /\ job = "aria2"
        BY <1>2 DEF Aria2Delivers, Typed, TypeOK, staging, answered
    <2>2. /\ Len(delivered') = Lengths[remote] /\ Lengths[remote] \in Nat
          /\ \A i \in 1..Lengths[remote] : delivered'[i] = <<remote, i>>
        BY <2>1, WholeChunks
    <2>3. Chunks(delivered)' /\ Begun(delivered)' /\ Joined(delivered)'
        <3>1. Chunks(delivered)'
            BY <2>1, <2>2 DEF Chunks
        <3>2. Begun(delivered)'
            BY <2>2 DEF Begun
        <3>3. Joined(delivered)'
            BY <2>2 DEF Joined, Follows
        <3> QED BY <3>1, <3>2, <3>3
    <2>4. Ended(delivered)'
        BY <2>1, <2>2 DEF Ended, Spliced, FirstSeam
    <2>5. worker = "none"
        BY <2>1 DEF Typed, Works
    <2> QED
        BY <2>1, <2>3, <2>4, <2>5 DEF Spliced, Chunks, Begun, Joined, FirstSeam
<1> QED BY <1>1, <1>2

\* The other steps leave the file, and at most end the worker or mark a seam.
LEMMA OtherSpliced ==
    ASSUME Typed, Spliced,
           UNCHANGED <<file, delivered, shift, short>>, seams \subseteq seams',
           job' = "completed" => job = "completed",
           worker' \in {"none", "started"} \/ UNCHANGED <<worker, body>>,
           FirstSeam'
    PROVE  Spliced'
<1>1. \A s : Joined(s) => Joined(s)'
    BY DEF Joined
<1>2. Chunks(file)' /\ Begun(file)' /\ Joined(file)'
    BY <1>1 DEF Spliced, Chunks, Begun, Joined
<1>3. job' = "completed" =>
          Chunks(delivered)' /\ Begun(delivered)' /\ Joined(delivered)' /\ Ended(delivered)'
    BY DEF Spliced, Chunks, Begun, Joined, Ended
<1>4. worker' = "completed" => Ended(file)'
    BY DEF Spliced, Ended
<1>5. ASSUME worker' = "body"
      PROVE  \E v \in Versions : \E n \in Nat : Continues(v, n)'
    <2>1. worker = "body" /\ body' = body
        BY <1>5
    <2>2. PICK v \in Versions, n \in Nat : Continues(v, n)
        BY <2>1 DEF Spliced
    <2>3. Continues(v, n)'
        BY <2>1, <2>2 DEF Continues
    <2> QED BY <2>3
<1> QED BY <1>2, <1>3, <1>4, <1>5 DEF Spliced

LEMMA SplicedStep == Typed /\ Spliced /\ [Next]_vars => Spliced'
<1> SUFFICES ASSUME Typed, Spliced, [Next]_vars PROVE Spliced'
    OBVIOUS
<1> USE DEF world, staging, answered
<1>1. CASE StartWorker
    <2>1. FirstSeam'
        BY <1>1 DEF StartWorker, Spliced, FirstSeam
    <2> QED BY <1>1, <2>1, OtherSpliced DEF StartWorker
<1>2. CASE DestinationRefused \/ NoConnection \/ TransferBreaks
    BY <1>2, OtherSpliced
       DEF DestinationRefused, NoConnection, TransferBreaks, WorkerFails, Spliced, FirstSeam
<1>3. CASE TimesOut \/ Aria2Fails \/ Stop \/ Resume \/ RemoteChanges \/ Recovers \/ UNCHANGED vars
    BY <1>3, OtherSpliced
       DEF TimesOut, Aria2Fails, Stop, Resume, RemoteChanges, Recovers, vars, Spliced, FirstSeam,
           Typed, Works
<1> QED
    BY <1>1, <1>2, <1>3, ReceiveSpliced, AnswerSpliced, EndSpliced, DeliverySpliced
       DEF Next, WorkerStep

\* A completed download has chunks of the file one after the other, but for where a
\* worker resumed; it begins with the first one, or where the answer to the first request
\* began, and ends with the last one, where a worker resumed, or with a body that ended
\* early.
THEOREM DeliveredSpliced == Spec => []DeliveredIsSpliced
<1>1. ASSUME Typed, Spliced PROVE DeliveredIsSpliced
    <2> SUFFICES ASSUME job = "completed" PROVE DeliveredIsSpliced
        BY DEF DeliveredIsSpliced
    <2>1. delivered \in Seq(Chunk) /\ Len(delivered) \in Nat
        BY <1>1, LenProperties DEF Typed, TypeOK
    <2>2. Chunks(delivered) /\ Begun(delivered) /\ Joined(delivered) /\ Ended(delivered)
        BY <1>1 DEF Spliced
    <2>3. DOMAIN delivered = 1..Len(delivered) /\ (delivered # <<>> => Len(delivered) > 0)
        BY <2>1, LenProperties, EmptySeq
    <2> QED
        BY <2>2, <2>3 DEF Chunks, Begun, Joined, Ended, DeliveredIsSpliced
<1> QED BY <1>1, TypedInit, TypedStep, SplicedInit, SplicedStep, PTL DEF Spec

================================================================================
