--------------------------- MODULE PackInstallProofs ---------------------------
(***************************************************************************)
(* Proofs about the installation of packs, for any number of instances,    *)
(* releases, packs and dependencies, and of installs.                      *)
(***************************************************************************)
EXTENDS PackInstallProps, TLAPS

Finished == {"self_test", "testing", "verify", "point", "commit", "consent"}

\* What the types rest on: only a start at its pointers holds some; a directory a
\* deletion goes on in, or an install has finalized, exists; what is finalized has
\* been extracted.
Placed ==
    /\ \A a \in Apps : pointers[a] # {} => pc[a] = "sync"
    /\ \A a \in Apps : deleting[a] \in Directories => versions[deleting[a]] # None
    /\ \A a \in Apps : pc[a] \in Finished => versions[Directory(release[a])] # None
    /\ \A a \in Apps : pc[a] = "finalize" => staging[a] # "part"

\* Whether instance a is about to commit a release of pack p.
At(a, p) == \/ release[a] # None /\ release[a].pack = p
            \/ \E r \in pointers[a] : r.pack = p

\* Two instances are at one pack only in a race.
Alone ==
    \A a, b \in Apps, p \in Packs : a # b /\ At(a, p) /\ At(b, p) => p \in raced

\* What an install is about to write is not below the mark that it has read.
InstallsAhead ==
    \A a \in Apps : release[a] # None /\ release[a].pack \notin raced =>
        release[a].sequence >= highWater[release[a].pack]

\* A start, and an install that has written its pointer, commit what the pointer
\* file selects.
CommitsSelected ==
    \A a \in Apps :
        /\ \A r \in pointers[a] : r.pack \notin raced => active[r.pack] = r
        /\ pc[a] \in {"commit", "consent"} /\ release[a].pack \notin raced =>
              active[release[a].pack] = release[a]

\* A start still holds every pointer that the database does not know.
HoldsUnknown ==
    \A a \in Apps, p \in Packs :
        pc[a] = "sync" /\ p \notin raced /\ active[p] # None =>
            active[p] \in pointers[a] \/ active[p].sequence <= highWater[p]

RowIsMark == \A p \in Packs : row[p] # None => row[p].sequence = highWater[p]

IInv == Alone /\ InstallsAhead /\ CommitsSelected /\ HoldsUnknown /\ OnlyRacesRollBack

--------------------------------------------------------------------------------
(* Types.                                                                   *)

\* Every release has its pack among the packs and its directory among them.
LEMMA ReleaseHome ==
    ASSUME NEW r \in Releases
    PROVE  r.pack \in Packs /\ Directory(r) \in Directories /\ r.sequence \in Nat
BY ReleasesAssumption DEF Packs, Directories

\* The first state has the types.
LEMMA TypedInit == Init => TypeOK /\ Placed
BY InstallsAssumption, NoneAssumption
   DEF Init, TypeOK, Placed, AppPC, InstallPC, Finished, StagingStates, ActivePointers

\* A commit keeps the types of the tables.
LEMMA CommitTyped ==
    ASSUME TypeOK, NEW r \in Releases, CommitPackActivation(r)
    PROVE  /\ DOMAIN row' = Packs /\ DOMAIN consent' = Packs
           /\ \A p \in Packs :
                 {row'[p], consent'[p]} \subseteq {q \in Releases : q.pack = p} \cup {None}
           /\ highWater' \in [Packs -> Nat]
BY ReleaseHome DEF TypeOK, CommitPackActivation

\* The releases pointer files select are releases.
LEMMA PointersTyped == TypeOK => ActivePointers \subseteq Releases
BY DEF TypeOK, ActivePointers

\* So are those that have been verified.
LEMMA VerifiedTyped == TypeOK => Verified \subseteq Releases
<1> SUFFICES ASSUME TypeOK PROVE Verified \subseteq Releases
    OBVIOUS
<1>1. \A a \in Apps : pc[a] \in {"point", "commit", "consent"} => release[a] \in Releases
    BY DEF TypeOK, InstallPC
<1>2. QED
    BY <1>1, PointersTyped DEF Verified

\* A version directory with files lost or added still holds its release.
LEMMA MarkedTyped ==
    ASSUME TypeOK, NEW d \in Directories, versions[d] # None, NEW s \in VersionStates
    PROVE  /\ [versions[d] EXCEPT !.state = s]
                 \in [of : {r \in Releases : Directory(r) = d}, state : VersionStates]
           /\ [versions[d] EXCEPT !.state = s] # None
<1>1. versions[d] \in [of : {r \in Releases : Directory(r) = d}, state : VersionStates]
    BY DEF TypeOK
<1>2. [versions[d] EXCEPT !.state = s]
          \in [of : {r \in Releases : Directory(r) = d}, state : VersionStates]
    BY <1>1
<1>3. [versions[d] EXCEPT !.state = s] \in [of : Releases, state : VersionStates]
    BY <1>2
<1>4. QED
    BY <1>2, <1>3, NoneAssumption

\* The end of an instance keeps the types.
LEMMA EndsTyped ==
    ASSUME TypeOK, Placed, NEW a \in Apps, Ends(a),
           UNCHANGED <<begun, staging, versions, active, tables, history>>
    PROVE  TypeOK' /\ Placed'
BY NoneAssumption DEF TypeOK, Placed, Ends, tables, history, AppPC, InstallPC, Finished

\* The steps of a start keep the types.
LEMMA StartTyped ==
    ASSUME TypeOK, Placed, NEW a \in Apps, Start(a) \/ Crash(a) \/ Starts(a)
    PROVE  TypeOK' /\ Placed'
<1> USE DEF Placed, starting, tables, history
<1>1. CASE Start(a)
    BY <1>1 DEF Start, TypeOK, AppPC, InstallPC, Finished
<1>2. CASE Crash(a)
    BY <1>2, EndsTyped DEF Crash
<1>3. ASSUME NEW b \in Apps, BeginDelete(a, b) PROVE TypeOK' /\ Placed'
    <2>1. swept' \subseteq Releases
        BY <1>3 DEF BeginDelete, TypeOK
    <2>2. QED
        BY <1>3, <2>1, NoneAssumption DEF BeginDelete, TypeOK
<1>4. ASSUME NEW b \in Apps, EntryVanished(a, b) PROVE TypeOK' /\ Placed'
    BY <1>4, EndsTyped DEF EntryVanished, Refused
<1>5. CASE DeleteFile(a)
    <2> DEFINE d == deleting[a]
               damaged == [versions[d] EXCEPT !.state = "damaged"]
    <2>1. CASE d \in Apps /\ staging' = [staging EXCEPT ![d] = "damaged"]
               /\ UNCHANGED <<versions, late>>
        BY <1>5, <2>1, NoneAssumption DEF DeleteFile, TypeOK, StagingStates
    <2>2. CASE d \in Directories /\ versions' = [versions EXCEPT ![d] = damaged]
               /\ late' = late \cup ({versions[d].of} \cap Verified) /\ UNCHANGED staging
        <3>1. late' \subseteq Releases
            BY <2>2, VerifiedTyped DEF TypeOK
        <3>2. damaged \in [of : {r \in Releases : Directory(r) = d}, state : VersionStates]
              /\ damaged # None
            <4>1. "damaged" \in VersionStates /\ versions[d] # None
                BY <2>2 DEF VersionStates
            <4>2. QED
                BY <2>2, <4>1, MarkedTyped
        <3> HIDE DEF damaged
        <3>3. QED
            BY <1>5, <2>2, <3>1, <3>2 DEF DeleteFile, TypeOK
    <2>3. QED
        BY <1>5, <2>1, <2>2 DEF DeleteFile
<1>6. CASE DeleteDirectory(a)
    BY <1>6, NoneAssumption DEF DeleteDirectory, Moved, TypeOK, StagingStates
<1>7. CASE DirectoryMissing(a)
    BY <1>7, EndsTyped, NoneAssumption DEF DirectoryMissing, Refused, TypeOK
<1>8. CASE ListPointers(a)
    <2>1. pointers' \in [Apps -> SUBSET Releases]
        BY <1>8, PointersTyped DEF ListPointers, TypeOK
    <2>2. raced' \subseteq Packs
        BY <1>8, PointersTyped, ReleaseHome DEF ListPointers, TypeOK
    <2>3. QED
        BY <1>8, <2>1, <2>2 DEF ListPointers, TypeOK, AppPC, InstallPC, Finished
<1>9. ASSUME NEW r \in Releases, SyncPointer(a, r) PROVE TypeOK' /\ Placed'
    BY <1>9, CommitTyped DEF SyncPointer, TypeOK
<1>10. ASSUME NEW r \in Releases, SyncFails(a, r) PROVE TypeOK' /\ Placed'
    BY <1>10, EndsTyped DEF SyncFails, Refused
<1>11. CASE Started(a)
    BY <1>11 DEF Started, TypeOK, AppPC, InstallPC, Finished
<1>12. QED
    BY <1>1, <1>2, <1>3, <1>4, <1>5, <1>6, <1>7, <1>8, <1>9, <1>10, <1>11 DEF Starts

\* The steps of an install keep them.
LEMMA InstallTyped ==
    ASSUME TypeOK, Placed, NEW a \in Apps, Install(a)
    PROVE  TypeOK' /\ Placed'
<1> USE DEF Placed, starting, tables, history
<1>1. ASSUME NEW r \in Releases, InstallPack(a, r) PROVE TypeOK' /\ Placed'
    BY <1>1, InstallsAssumption, NoneAssumption, ReleaseHome
       DEF InstallPack, Goto, TypeOK, AppPC, InstallPC, Finished
<1>2. CASE CreateStaging(a)
    BY <1>2, NoneAssumption
       DEF CreateStaging, Goto, Moved, TypeOK, AppPC, InstallPC, Finished, StagingStates
<1>3. CASE ExtractAndVerify(a)
    BY <1>3 DEF ExtractAndVerify, Goto, TypeOK, AppPC, InstallPC, Finished, StagingStates
<1>4. CASE KeepExisting(a)
    BY <1>4, NoneAssumption
       DEF KeepExisting, RemoveStaging, Goto, Moved, TypeOK, AppPC, InstallPC, Finished, StagingStates
<1>5. CASE Finalize(a)
    BY <1>5, NoneAssumption, ReleaseHome
       DEF Finalize, Goto, Moved, TypeOK, AppPC, InstallPC, Finished, StagingStates, VersionStates
<1>6. CASE SelfTest(a)
    BY <1>6, VerifiedTyped, NoneAssumption, ReleaseHome
       DEF SelfTest, Goto, TypeOK, AppPC, InstallPC, Finished, VersionStates
<1>7. CASE SelfTestPassed(a)
    BY <1>7, NoneAssumption, ReleaseHome
       DEF SelfTestPassed, Goto, TypeOK, AppPC, InstallPC, Finished, VersionStates
<1>8. CASE VerifyPayload(a)
    BY <1>8 DEF VerifyPayload, Goto, TypeOK, AppPC, InstallPC, Finished
<1>9. CASE WritePointer(a)
    BY <1>9, ReleaseHome DEF WritePointer, Goto, TypeOK, AppPC, InstallPC, Finished
<1>10. CASE Commit(a)
    <2>1. release[a] \in Releases
        BY <1>10 DEF Commit, TypeOK, InstallPC
    <2>2. QED
        BY <1>10, <2>1, CommitTyped DEF Commit, Goto, TypeOK, AppPC, InstallPC, Finished
<1>11. CASE SavePackConsent(a)
    BY <1>11, ReleaseHome DEF SavePackConsent, InstallEnds, Goto, TypeOK, AppPC, InstallPC, Finished
<1>12. CASE InstallFails(a)
    BY <1>12, NoneAssumption
       DEF InstallFails, InstallEnds, RemoveStaging, Moved, Goto, TypeOK, AppPC, InstallPC, Finished, StagingStates
<1>13. QED
    BY <1>1, <1>2, <1>3, <1>4, <1>5, <1>6, <1>7, <1>8, <1>9, <1>10, <1>11, <1>12 DEF Install

\* Every step keeps them.
LEMMA TypedStep == TypeOK /\ Placed /\ [Next]_vars => (TypeOK /\ Placed)'
<1>1. TypeOK /\ Placed /\ UNCHANGED vars => (TypeOK /\ Placed)'
    BY DEF TypeOK, Placed, vars, starting, tables, history
<1>2. QED
    BY <1>1, StartTyped, InstallTyped DEF Next

\* Tables, files and instances hold what they can hold, whatever fails or crashes.
THEOREM PackTypeCorrect == Spec => []TypeOK
BY TypedInit, TypedStep, PTL DEF Spec

--------------------------------------------------------------------------------
(* The high-water mark.                                                     *)

\* What HighWaterOnlyRises says of a step.
Rises ==
    \A p \in Packs :
        /\ highWater'[p] >= highWater[p]
        /\ row'[p] # None => row'[p].sequence = highWater'[p]

\* A commit raises the mark, or leaves it.
LEMMA CommitRises ==
    ASSUME TypeOK, RowIsMark, NEW r \in Releases, CommitPackActivation(r)
    PROVE  RowIsMark' /\ Rises
BY ReleaseHome DEF TypeOK, RowIsMark, CommitPackActivation, Admissible, Rises

\* Only a start at its pointers and an install that has written one commit.
LEMMA TablesChange ==
    ASSUME TypeOK, [Next]_vars
    PROVE  \/ UNCHANGED <<highWater, row>>
           \/ \E r \in Releases : CommitPackActivation(r)
<1>1. ASSUME NEW a \in Apps, Start(a) \/ Crash(a)
      PROVE  UNCHANGED <<highWater, row>>
    BY <1>1 DEF Start, Crash, tables
<1>2. ASSUME NEW a \in Apps, Starts(a)
      PROVE  UNCHANGED <<highWater, row>> \/ \E r \in Releases : CommitPackActivation(r)
    BY <1>2 DEF Starts, BeginDelete, EntryVanished, DeleteFile, DeleteDirectory,
                DirectoryMissing, ListPointers, SyncPointer, SyncFails, Started, Refused, tables
<1>3. ASSUME NEW a \in Apps, Install(a)
      PROVE  UNCHANGED <<highWater, row>> \/ \E r \in Releases : CommitPackActivation(r)
    <2>1. CASE Commit(a)
        BY <2>1 DEF Commit, TypeOK, InstallPC
    <2>2. CASE ~Commit(a)
        BY <1>3, <2>2
           DEF Install, InstallPack, CreateStaging, ExtractAndVerify, KeepExisting, Finalize,
               SelfTest, SelfTestPassed, VerifyPayload, WritePointer, SavePackConsent,
               InstallFails, tables
    <2>3. QED
        BY <2>1, <2>2
<1>4. CASE UNCHANGED vars
    BY <1>4 DEF vars, tables
<1>5. QED
    BY <1>1, <1>2, <1>3, <1>4 DEF Next

LEMMA MarkStep == TypeOK /\ RowIsMark /\ [Next]_vars => RowIsMark' /\ Rises
<1> SUFFICES ASSUME TypeOK, RowIsMark, [Next]_vars PROVE RowIsMark' /\ Rises
    OBVIOUS
<1>1. CASE UNCHANGED <<highWater, row>>
    BY <1>1 DEF TypeOK, RowIsMark, Rises
<1>2. QED
    BY <1>1, TablesChange, CommitRises

\* The mark never falls and is the sequence of the pack the database names as active,
\* for any number of instances that install, start, fail and crash side by side.
THEOREM MarkOnlyRises == Spec => HighWaterOnlyRises
<1>1. Init => RowIsMark
    BY DEF Init, RowIsMark
<1>2. TypeOK /\ RowIsMark /\ [Next]_vars
          => [\A p \in Packs :
                 /\ highWater'[p] >= highWater[p]
                 /\ row'[p] # None => row'[p].sequence = highWater'[p]]_vars
    BY MarkStep DEF Rises
<1>3. TypeOK /\ RowIsMark /\ [Next]_vars => RowIsMark'
    BY MarkStep
<1>4. QED
    BY <1>1, <1>2, <1>3, PackTypeCorrect, PTL DEF Spec, HighWaterOnlyRises

--------------------------------------------------------------------------------
(* Pointer files and the mark.                                              *)

\* A step by which an instance at most stops what it is at, and which commits and
\* selects nothing.
Lessens ==
    /\ UNCHANGED <<active, highWater, raced>>
    /\ \A b \in Apps :
          /\ release'[b] \in {release[b], None}
          /\ pointers'[b] \subseteq pointers[b]
          /\ pc'[b] = "sync" => pc[b] = "sync" /\ pointers'[b] = pointers[b]
          /\ pc'[b] \in {"commit", "consent"} =>
                pc[b] \in {"commit", "consent"} /\ release'[b] = release[b]

LEMMA LessensKeeps == IInv /\ Lessens => IInv'
<1> SUFFICES ASSUME IInv, Lessens PROVE IInv'
    OBVIOUS
<1>1. \A b \in Apps, p \in Packs : At(b, p)' => At(b, p)
    BY DEF Lessens, At
<1>2. Alone' /\ InstallsAhead'
    BY <1>1 DEF IInv, Lessens, Alone, InstallsAhead
<1>3. CommitsSelected'
    BY DEF IInv, Lessens, CommitsSelected
<1>4. HoldsUnknown' /\ OnlyRacesRollBack'
    BY DEF IInv, Lessens, HoldsUnknown, OnlyRacesRollBack
<1>5. QED
    BY <1>2, <1>3, <1>4 DEF IInv

\* Ending an instance or its install lessens.
LEMMA EndsLessens ==
    ASSUME TypeOK, NEW a \in Apps, Ends(a), UNCHANGED <<active, highWater, raced>>
    PROVE  Lessens
BY DEF TypeOK, Ends, Lessens

\* All steps but five do.
LEMMA MostLessen ==
    ASSUME TypeOK, NEW a \in Apps, Start(a) \/ Crash(a) \/ Starts(a) \/ Install(a)
    PROVE  \/ Lessens
           \/ ListPointers(a)
           \/ \E r \in Releases : SyncPointer(a, r) \/ InstallPack(a, r)
           \/ WritePointer(a) \/ Commit(a)
<1> USE DEF starting, tables, history
<1>1. CASE Start(a)
    BY <1>1 DEF Start, TypeOK, Lessens
<1>2. CASE Crash(a) \/ \E r \in Releases : SyncFails(a, r)
    BY <1>2, EndsLessens DEF Crash, SyncFails, Refused
<1>3. CASE \E b \in Apps : BeginDelete(a, b) \/ EntryVanished(a, b)
    BY <1>3, EndsLessens DEF BeginDelete, EntryVanished, Refused, TypeOK, Lessens
<1>4. CASE DeleteFile(a) \/ DeleteDirectory(a) \/ DirectoryMissing(a)
    BY <1>4, EndsLessens DEF DeleteFile, DeleteDirectory, DirectoryMissing, Refused, TypeOK, Lessens
<1>5. CASE Started(a)
    BY <1>5 DEF Started, TypeOK, Lessens
<1>6. CASE CreateStaging(a) \/ ExtractAndVerify(a) \/ KeepExisting(a) \/ Finalize(a)
    BY <1>6 DEF CreateStaging, ExtractAndVerify, KeepExisting, Finalize, RemoveStaging, Goto,
                TypeOK, Lessens
<1>7. CASE SelfTest(a) \/ SelfTestPassed(a) \/ VerifyPayload(a)
    BY <1>7 DEF SelfTest, SelfTestPassed, VerifyPayload, Goto, TypeOK, Lessens
<1>8. CASE SavePackConsent(a) \/ InstallFails(a)
    BY <1>8 DEF SavePackConsent, InstallFails, InstallEnds, RemoveStaging, Goto, TypeOK, Lessens
<1>9. QED
    BY <1>1, <1>2, <1>3, <1>4, <1>5, <1>6, <1>7, <1>8 DEF Starts, Install

\* Whoever is at a pack is busy with it.
LEMMA AtIsBusy ==
    ASSUME TypeOK, NEW b \in Apps, NEW p \in Packs, At(b, p)
    PROVE  BusyWith(p)
BY DEF At, BusyWith

\* An instance at the end of its sweep, or with no install, is at no pack.
LEMMA IdleIsNowhere ==
    ASSUME TypeOK, Placed, NEW a \in Apps, pc[a] \in {"sweep", "idle"}
    PROVE  pointers[a] = {} /\ release[a] = None
BY DEF TypeOK, Placed, InstallPC

LEMMA ListPointersKeeps ==
    ASSUME TypeOK, Placed, IInv, NEW a \in Apps, ListPointers(a)
    PROVE  IInv'
<1> USE DEF ListPointers, starting, tables, history
<1>0. pointers[a] = {} /\ release[a] = None
    BY IdleIsNowhere
<1>1. /\ pointers' = [pointers EXCEPT ![a] = ActivePointers]
      /\ pc' = [pc EXCEPT ![a] = "sync"]
      /\ UNCHANGED <<active, highWater, release>> /\ raced \subseteq raced'
    OBVIOUS
<1>2. \A p \in Packs : active[p] # None =>
          active[p] \in ActivePointers /\ active[p].pack = p
    BY DEF TypeOK, ActivePointers
<1>3. \A r \in ActivePointers : r \in Releases /\ r.pack \in Packs /\ active[r.pack] = r
    BY PointersTyped, ReleaseHome, <1>2 DEF ActivePointers
<1>4. ASSUME NEW b \in Apps, NEW p \in Packs, b # a, At(b, p)', At(a, p)'
      PROVE  p \in raced'
    <2>1. At(b, p)
        BY <1>1, <1>4 DEF At, TypeOK
    <2>2. p \in {r.pack : r \in ActivePointers}
        BY <1>0, <1>1, <1>4 DEF At, TypeOK
    <2>3. QED
        BY <2>1, <2>2, AtIsBusy
<1>5. \A b \in Apps, p \in Packs : b # a /\ At(b, p)' => At(b, p)
    BY <1>1 DEF At, TypeOK
<1>6. Alone'
    BY <1>1, <1>4, <1>5 DEF IInv, Alone
<1>7. InstallsAhead' /\ OnlyRacesRollBack'
    BY <1>1 DEF IInv, InstallsAhead, OnlyRacesRollBack
<1>8. CommitsSelected'
    BY <1>1, <1>3 DEF IInv, CommitsSelected, TypeOK
<1>9. HoldsUnknown'
    BY <1>1, <1>2 DEF IInv, HoldsUnknown, TypeOK
<1>10. QED
    BY <1>6, <1>7, <1>8, <1>9 DEF IInv

LEMMA SyncPointerKeeps ==
    ASSUME TypeOK, Placed, IInv, NEW a \in Apps, NEW r \in Releases, SyncPointer(a, r)
    PROVE  IInv'
<1> USE DEF SyncPointer, CommitPackActivation, Admissible, starting, tables, history
<1>0. r.pack \in Packs /\ r.sequence \in Nat
    BY ReleaseHome
<1>1. /\ pointers' = [pointers EXCEPT ![a] = @ \ {r}] /\ r \in pointers[a]
      /\ highWater' = [highWater EXCEPT ![r.pack] = r.sequence]
      /\ UNCHANGED <<active, release, raced, pc>>
    OBVIOUS
<1>2. \A b \in Apps, p \in Packs : At(b, p)' => At(b, p)
    BY <1>1 DEF At, TypeOK
<1>3. At(a, r.pack)
    BY <1>1 DEF At
<1>4. r.pack \notin raced => active[r.pack] = r
    BY <1>1 DEF IInv, CommitsSelected
<1>5. \A b \in Apps : release[b] # None /\ release[b].pack = r.pack => r.pack \in raced
    <2> SUFFICES ASSUME NEW b \in Apps, release[b] # None, release[b].pack = r.pack
                 PROVE  r.pack \in raced
        OBVIOUS
    <2>1. b # a
        BY DEF TypeOK, InstallPC
    <2>2. At(b, r.pack)
        BY DEF At
    <2>3. QED
        BY <1>0, <1>3, <2>1, <2>2 DEF IInv, Alone
<1>6. Alone'
    BY <1>1, <1>2 DEF IInv, Alone
<1>7. InstallsAhead'
    BY <1>0, <1>1, <1>5 DEF IInv, InstallsAhead, TypeOK
<1>8. CommitsSelected'
    BY <1>1 DEF IInv, CommitsSelected, TypeOK
<1>9. HoldsUnknown'
    BY <1>0, <1>1, <1>4 DEF IInv, HoldsUnknown, TypeOK
<1>10. OnlyRacesRollBack'
    BY <1>0, <1>1, <1>4 DEF IInv, OnlyRacesRollBack, TypeOK
<1>11. QED
    BY <1>6, <1>7, <1>8, <1>9, <1>10 DEF IInv

LEMMA InstallPackKeeps ==
    ASSUME TypeOK, Placed, IInv, NEW a \in Apps, NEW r \in Releases, InstallPack(a, r)
    PROVE  IInv'
<1> USE DEF InstallPack, Goto, Admissible, starting, tables, history
<1>0. pointers[a] = {} /\ release[a] = None
    BY IdleIsNowhere
<1>1. /\ release' = [release EXCEPT ![a] = r] /\ pc' = [pc EXCEPT ![a] = "download"]
      /\ r.sequence >= highWater[r.pack]
      /\ UNCHANGED <<active, highWater, pointers>> /\ raced \subseteq raced'
    OBVIOUS
<1>2. ASSUME NEW b \in Apps, NEW p \in Packs, b # a, At(b, p)', At(a, p)'
      PROVE  p \in raced'
    <2>1. At(b, p)
        BY <1>1, <1>2 DEF At, TypeOK
    <2>2. p = r.pack
        BY <1>0, <1>1, <1>2 DEF At, TypeOK
    <2>3. QED
        BY <2>1, <2>2, AtIsBusy
<1>3. \A b \in Apps, p \in Packs : b # a /\ At(b, p)' => At(b, p)
    BY <1>1 DEF At, TypeOK
<1>4. Alone'
    BY <1>1, <1>2, <1>3 DEF IInv, Alone
<1>5. InstallsAhead'
    BY <1>1 DEF IInv, InstallsAhead, TypeOK
<1>6. CommitsSelected'
    BY <1>1 DEF IInv, CommitsSelected, TypeOK
<1>7. HoldsUnknown' /\ OnlyRacesRollBack'
    BY <1>1 DEF IInv, HoldsUnknown, OnlyRacesRollBack, TypeOK
<1>8. QED
    BY <1>4, <1>5, <1>6, <1>7 DEF IInv

LEMMA WritePointerKeeps ==
    ASSUME TypeOK, Placed, IInv, NEW a \in Apps, WritePointer(a)
    PROVE  IInv'
<1> USE DEF WritePointer, Goto, starting, tables, history
<1> DEFINE r == release[a]
<1>0. r \in Releases /\ r # None /\ r.pack \in Packs /\ r.sequence \in Nat
    BY ReleaseHome, NoneAssumption DEF TypeOK, InstallPC
<1>1. /\ active' = [active EXCEPT ![r.pack] = r] /\ pc' = [pc EXCEPT ![a] = "commit"]
      /\ UNCHANGED <<release, highWater, pointers>> /\ raced \subseteq raced'
    OBVIOUS
<1>2. \A b \in Apps, p \in Packs : At(b, p)' => At(b, p)
    BY <1>1 DEF At, TypeOK
<1>3. At(a, r.pack)
    BY <1>0 DEF At
<1>4. \A b \in Apps : b # a /\ At(b, r.pack) => r.pack \in raced
    BY <1>0, <1>3 DEF IInv, Alone
<1>5. \A b \in Apps : pc'[b] = "sync" => r.pack \in raced'
    BY <1>1 DEF TypeOK
<1>6. Alone' /\ InstallsAhead'
    BY <1>1, <1>2 DEF IInv, Alone, InstallsAhead
<1>7. CommitsSelected'
    <2>1. ASSUME NEW b \in Apps, NEW q \in pointers'[b], q.pack \notin raced'
          PROVE  active'[q.pack] = q
        <3>1. q \in Releases /\ q.pack \in Packs /\ pc'[b] = "sync" /\ q.pack # r.pack
            BY <1>1, <1>5, <2>1, ReleaseHome DEF TypeOK, Placed
        <3>2. QED
            BY <1>1, <2>1, <3>1 DEF IInv, CommitsSelected, TypeOK
    <2>2. ASSUME NEW b \in Apps, pc'[b] \in {"commit", "consent"},
                 release'[b].pack \notin raced'
          PROVE  active'[release'[b].pack] = release'[b]
        <3>1. CASE b = a
            BY <1>0, <1>1, <3>1 DEF TypeOK
        <3>2. CASE b # a
            <4>1. pc[b] \in {"commit", "consent"} /\ release[b] \in Releases
                  /\ release[b] # None /\ release[b].pack \in Packs
                BY <1>1, <2>2, <3>2, ReleaseHome DEF TypeOK, InstallPC
            <4>2. release[b].pack # r.pack
                BY <1>1, <1>4, <2>2, <3>2, <4>1 DEF At
            <4>3. QED
                BY <1>1, <2>2, <4>1, <4>2 DEF IInv, CommitsSelected, TypeOK
        <3>3. QED
            BY <3>1, <3>2
    <2>3. QED
        BY <2>1, <2>2 DEF CommitsSelected
<1>8. HoldsUnknown'
    BY <1>0, <1>1, <1>5 DEF IInv, HoldsUnknown, TypeOK
<1>9. OnlyRacesRollBack'
    BY <1>0, <1>1 DEF IInv, OnlyRacesRollBack, InstallsAhead, TypeOK
<1>10. QED
    BY <1>6, <1>7, <1>8, <1>9 DEF IInv

LEMMA CommitKeeps ==
    ASSUME TypeOK, Placed, IInv, NEW a \in Apps, Commit(a)
    PROVE  IInv'
<1> USE DEF Commit, CommitPackActivation, Admissible, Goto, starting, tables, history
<1> DEFINE r == release[a]
<1>0. r \in Releases /\ r # None /\ r.pack \in Packs /\ r.sequence \in Nat
    BY ReleaseHome DEF TypeOK, InstallPC
<1>1. /\ highWater' = [highWater EXCEPT ![r.pack] = r.sequence]
      /\ pc' = [pc EXCEPT ![a] = "consent"]
      /\ UNCHANGED <<release, active, pointers, raced>>
    OBVIOUS
<1>2. \A b \in Apps, p \in Packs : At(b, p)' => At(b, p)
    BY <1>1 DEF At, TypeOK
<1>3. r.pack \notin raced => active[r.pack] = r
    BY <1>0 DEF IInv, CommitsSelected
<1>4. \A b \in Apps : b # a /\ release[b] # None /\ release[b].pack = r.pack
                        => r.pack \in raced
    BY <1>0 DEF IInv, Alone, At
<1>5. Alone'
    BY <1>1, <1>2 DEF IInv, Alone
<1>6. InstallsAhead'
    BY <1>0, <1>1, <1>4 DEF IInv, InstallsAhead, TypeOK
<1>7. CommitsSelected'
    BY <1>1 DEF IInv, CommitsSelected, TypeOK
<1>8. HoldsUnknown'
    BY <1>0, <1>1, <1>3 DEF IInv, HoldsUnknown, TypeOK
<1>9. OnlyRacesRollBack'
    BY <1>0, <1>1, <1>3 DEF IInv, OnlyRacesRollBack, TypeOK
<1>10. QED
    BY <1>5, <1>6, <1>7, <1>8, <1>9 DEF IInv

LEMMA SafetyStep == TypeOK /\ Placed /\ IInv /\ [Next]_vars => IInv'
<1>1. TypeOK /\ IInv /\ UNCHANGED vars => IInv'
    <2> SUFFICES ASSUME TypeOK, IInv, UNCHANGED vars PROVE Lessens
        BY LessensKeeps
    <2> QED
        BY DEF TypeOK, Lessens, vars, starting, tables, history
<1>2. QED
    BY <1>1, MostLessen, LessensKeeps, ListPointersKeeps, SyncPointerKeeps, InstallPackKeeps,
       WritePointerKeeps, CommitKeeps DEF Next

LEMMA SafetyInit == Init => IInv
BY DEF Init, IInv, Alone, At, InstallsAhead, CommitsSelected, HoldsUnknown, OnlyRacesRollBack

\* For any number of instances and packs, a pointer file falls below the high-water
\* mark only when two instances were at that pack at the same time.
THEOREM RollBackNeedsRace == Spec => []OnlyRacesRollBack
<1>1. Init => TypeOK /\ Placed /\ IInv
    BY TypedInit, SafetyInit
<1>2. TypeOK /\ Placed /\ IInv /\ [Next]_vars => (TypeOK /\ Placed /\ IInv)'
    BY TypedStep, SafetyStep
<1>3. IInv => OnlyRacesRollBack
    BY DEF IInv
<1>4. QED
    BY <1>1, <1>2, <1>3, PTL DEF Spec

\* Only the end of a start takes an instance from its pointers to the window.
LEMMA StartEnds ==
    ASSUME TypeOK, [Next]_vars, NEW a \in Apps, pc[a] = "sync", pc'[a] = "idle"
    PROVE  pointers[a] = {}
<1>1. CASE UNCHANGED vars
    BY <1>1 DEF vars
<1>2. ASSUME NEW b \in Apps, Start(b) \/ Crash(b) PROVE pointers[a] = {}
    BY <1>2 DEF Start, Crash, Ends, TypeOK
<1>3. ASSUME NEW b \in Apps, Starts(b) PROVE pointers[a] = {}
    BY <1>3 DEF Starts, BeginDelete, EntryVanished, DeleteFile, DeleteDirectory, DirectoryMissing,
                ListPointers, SyncPointer, SyncFails, Started, Refused, Ends, TypeOK
<1>4. ASSUME NEW b \in Apps, Install(b) PROVE pointers[a] = {}
    <2>1. a # b
        BY <1>4 DEF Install, InstallPack, CreateStaging, ExtractAndVerify, KeepExisting, Finalize,
                    SelfTest, SelfTestPassed, VerifyPayload, WritePointer, Commit,
                    SavePackConsent, InstallFails, InstallPC
    <2>2. pc'[a] = pc[a]
        BY <1>4, <2>1 DEF Install, InstallPack, CreateStaging, ExtractAndVerify, KeepExisting,
                    Finalize, SelfTest, SelfTestPassed, VerifyPayload, WritePointer, Commit,
                    SavePackConsent, InstallFails, InstallEnds, Goto, TypeOK
    <2>3. QED
        BY <2>2
<1>5. QED
    BY <1>1, <1>2, <1>3, <1>4 DEF Next

\* After any crash or failed commit, a start that ends well has made every pointer file
\* known to the database, unless it raced an install.
THEOREM StartCommitsPointers == Spec => StartTakesUpPointers
<1>1. Init => TypeOK /\ Placed /\ IInv
    BY TypedInit, SafetyInit
<1>2. TypeOK /\ Placed /\ IInv /\ [Next]_vars => (TypeOK /\ Placed /\ IInv)'
    BY TypedStep, SafetyStep
<1>3. TypeOK /\ IInv /\ [Next]_vars
          => [\A a \in Apps : pc[a] = "sync" /\ pc'[a] = "idle" =>
                 \A p \in Packs :
                     active[p] # None /\ p \notin raced => active[p].sequence <= highWater[p]]_vars
    BY StartEnds DEF IInv, HoldsUnknown
<1>4. QED
    BY <1>1, <1>2, <1>3, PTL DEF Spec, StartTakesUpPointers

--------------------------------------------------------------------------------
(* Version directories and dependencies.                                   *)

\* A deletion is at work only where the start that began it met an install, and only
\* there files are missing.
DamageIsSwept ==
    /\ \A a \in Apps : deleting[a] \in Directories => versions[deleting[a]].of \in swept
    /\ \A a, b \in Apps :
          deleting[a] = b /\ pc[b] \in {"extract", "finalize"} => release[b] \in swept
    /\ \A b \in Apps : pc[b] = "finalize" /\ staging[b] = "damaged" => release[b] \in swept
    /\ \A d \in Directories :
          versions[d] # None /\ versions[d].state = "damaged" => versions[d].of \in swept

\* The directory an install works on holds its release.
HoldsRelease ==
    \A a \in Apps : pc[a] \in Finished => versions[Directory(release[a])].of = release[a]

\* What has been verified is as published, or was disturbed afterwards.
VerifiedIsWhole == \A r \in Verified : Whole(r) \/ r \in late

\* The dependency of a release is active, or may become so again.
Depends(r) ==
    \/ DependencyMet(r)
    \/ raced # {}
    \/ \E n \in Needs[r] : versions[Directory(n)] # None /\ highWater[n.pack] < n.sequence

Selected == ActivePointers \cup {release[a] : a \in {b \in Apps : pc[b] \in Finished}}

\* That holds from the lookup on.
SelectedDepends ==
    /\ \A r \in Selected : Depends(r)
    /\ \A r \in ActivePointers : versions[Directory(r)] # None

--------------------------------------------------------------------------------
(* Version directories are immutable.                                       *)

\* What VersionsImmutable says of a step.
Kept ==
    \A d \in Directories : versions[d] # None =>
        /\ versions'[d] # None
        /\ versions'[d].of = versions[d].of
        /\ versions'[d].state \in {"whole", "littered"} \/ versions'[d].of \in swept

\* A directory that no step touches is kept.
LEMMA UntouchedIsKept ==
    ASSUME TypeOK, DamageIsSwept, UNCHANGED versions
    PROVE  Kept
BY DEF TypeOK, DamageIsSwept, Kept, VersionStates

\* When files of a directory are lost or added, another state is all that changes.
Touched(d, s) ==
    /\ \A e \in Directories \ {d} : versions'[e] = versions[e]
    /\ versions'[d] # None
    /\ versions'[d].of = versions[d].of /\ versions'[d].state = s

LEMMA TouchedHolds ==
    ASSUME TypeOK, NEW d \in Directories, versions[d] # None, NEW s \in VersionStates,
           versions' = [versions EXCEPT ![d].state = s]
    PROVE  Touched(d, s)
<1>1. versions[d] \in [of : {r \in Releases : Directory(r) = d}, state : VersionStates]
    BY DEF TypeOK
<1>2. versions'[d] = [versions[d] EXCEPT !.state = s]
    BY DEF TypeOK
<1>3. versions'[d] # None
    BY <1>2, MarkedTyped
<1>4. versions'[d].of = versions[d].of /\ versions'[d].state = s
    BY <1>1, <1>2
<1>5. QED
    BY <1>3, <1>4 DEF Touched

\* So it is kept, if files are lost only where a deletion is known to be at work.
LEMMA TouchedIsKept ==
    ASSUME TypeOK, Placed, DamageIsSwept, NEW d \in Directories, versions[d] # None,
           NEW s \in VersionStates, Touched(d, s),
           s = "damaged" => versions[d].of \in swept,
           UNCHANGED <<staging, deleting, release, swept>>,
           \A b \in Apps : pc'[b] \in {"extract", "finalize"} => pc'[b] = pc[b]
    PROVE  DamageIsSwept' /\ Kept
<1>1. \A e \in Directories \ {d} : versions'[e] = versions[e]
    BY DEF Touched
<1>2. versions'[d].of = versions[d].of /\ versions'[d].state = s /\ versions'[d] # None
    BY DEF Touched
<1>3. Kept
    <2> SUFFICES ASSUME NEW e \in Directories, versions[e] # None
                 PROVE  /\ versions'[e] # None
                        /\ versions'[e].of = versions[e].of
                        /\ versions'[e].state \in {"whole", "littered"} \/ versions'[e].of \in swept
        BY DEF Kept
    <2>1. CASE e = d
        BY <1>2, <2>1 DEF VersionStates
    <2>2. CASE e # d
        BY <1>1, <2>2 DEF TypeOK, DamageIsSwept, VersionStates
    <2>3. QED
        BY <2>1, <2>2
<1>4. ASSUME NEW e \in Directories, versions'[e] # None, versions'[e].state = "damaged"
      PROVE  versions'[e].of \in swept
    BY <1>1, <1>2, <1>4 DEF DamageIsSwept
<1>5. ASSUME NEW b \in Apps, deleting[b] \in Directories
      PROVE  versions'[deleting[b]].of \in swept
    BY <1>3, <1>5 DEF DamageIsSwept, Placed, Kept
<1>6. QED
    BY <1>3, <1>4, <1>5 DEF DamageIsSwept

LEMMA StartKeeps ==
    ASSUME TypeOK, Placed, DamageIsSwept, NEW a \in Apps, Start(a) \/ Crash(a) \/ Starts(a)
    PROVE  DamageIsSwept' /\ Kept
<1> USE DEF starting, tables, history
<1>1. ASSUME Ends(a), UNCHANGED <<staging, versions, swept>> PROVE DamageIsSwept' /\ Kept
    BY <1>1, UntouchedIsKept, NoneAssumption DEF Ends, DamageIsSwept, TypeOK
<1>2. CASE Crash(a) \/ (\E r \in Releases : SyncFails(a, r)) \/ \E b \in Apps : EntryVanished(a, b)
    BY <1>1, <1>2 DEF Crash, SyncFails, EntryVanished, Refused
<1>3. CASE Start(a) \/ ListPointers(a) \/ Started(a) \/ \E r \in Releases : SyncPointer(a, r)
    BY <1>3, UntouchedIsKept DEF Start, ListPointers, Started, SyncPointer, DamageIsSwept, TypeOK
<1>4. ASSUME NEW b \in Apps, BeginDelete(a, b) PROVE DamageIsSwept' /\ Kept
    BY <1>4, UntouchedIsKept, NoneAssumption DEF BeginDelete, DamageIsSwept, TypeOK, InstallPC
<1>5. CASE DeleteFile(a)
    <2>1. CASE UNCHANGED versions
        BY <1>5, <2>1, UntouchedIsKept, NoneAssumption DEF DeleteFile, DamageIsSwept, TypeOK
    <2>2. CASE deleting[a] \in Directories /\ UNCHANGED staging
               /\ versions' = [versions EXCEPT ![deleting[a]].state = "damaged"]
        <3> DEFINE d == deleting[a]
        <3>1. versions[d] # None /\ versions[d].of \in swept /\ "damaged" \in VersionStates
            BY <2>2 DEF Placed, DamageIsSwept, VersionStates
        <3>2. UNCHANGED <<staging, deleting, release, swept, pc>>
            BY <1>5, <2>2 DEF DeleteFile
        <3>3. Touched(d, "damaged")
            BY <2>2, <3>1, TouchedHolds
        <3>4. QED
            BY <2>2, <3>1, <3>2, <3>3, TouchedIsKept
    <2>3. QED
        BY <1>5, <2>1, <2>2 DEF DeleteFile
<1>6. CASE DeleteDirectory(a)
    BY <1>6, UntouchedIsKept, NoneAssumption DEF DeleteDirectory, Moved, DamageIsSwept, TypeOK
<1>7. CASE DirectoryMissing(a)
    BY <1>1, <1>7, UntouchedIsKept, NoneAssumption
       DEF DirectoryMissing, Refused, DamageIsSwept, TypeOK
<1>8. QED
    BY <1>2, <1>3, <1>4, <1>5, <1>6, <1>7 DEF Starts

LEMMA InstallKeeps ==
    ASSUME TypeOK, Placed, DamageIsSwept, NEW a \in Apps, Install(a)
    PROVE  DamageIsSwept' /\ Kept
<1> USE DEF starting, tables, history
<1>1. ASSUME NEW r \in Releases, InstallPack(a, r) PROVE DamageIsSwept' /\ Kept
    BY <1>1, UntouchedIsKept DEF InstallPack, Goto, DamageIsSwept, TypeOK
<1>2. CASE CreateStaging(a)
    BY <1>2, UntouchedIsKept, NoneAssumption DEF CreateStaging, Goto, Moved, DamageIsSwept, TypeOK
<1>3. CASE ExtractAndVerify(a)
    BY <1>3, UntouchedIsKept DEF ExtractAndVerify, Goto, DamageIsSwept, TypeOK
<1>4. CASE KeepExisting(a)
    BY <1>4, UntouchedIsKept, NoneAssumption
       DEF KeepExisting, RemoveStaging, Goto, Moved, DamageIsSwept, TypeOK
<1>5. CASE Finalize(a)
    BY <1>5, NoneAssumption, ReleaseHome
       DEF Finalize, Goto, Moved, DamageIsSwept, Kept, TypeOK, Placed, InstallPC, StagingStates, VersionStates
<1>6. CASE SelfTest(a)
    <2> DEFINE d == Directory(release[a])
               s == IF versions[d].state = "whole" THEN "littered" ELSE versions[d].state
    <2>1. d \in Directories /\ versions[d] # None
        BY <1>6, ReleaseHome DEF SelfTest, TypeOK, Placed, InstallPC, Finished
    <2>2. s \in VersionStates /\ (s = "damaged" => versions[d].of \in swept)
        BY <2>1 DEF TypeOK, DamageIsSwept, VersionStates
    <2>3. /\ versions' = [versions EXCEPT ![d].state = s]
          /\ UNCHANGED <<staging, deleting, release, swept>>
        BY <1>6 DEF SelfTest
    <2>4. pc' = [pc EXCEPT ![a] = "testing"]
        BY <1>6 DEF SelfTest, Goto
    <2>5. \A b \in Apps : pc'[b] \in {"extract", "finalize"} => pc'[b] = pc[b]
        BY <2>4 DEF TypeOK
    <2> HIDE DEF s, d
    <2>6. Touched(d, s)
        BY <2>1, <2>2, <2>3, TouchedHolds
    <2>7. QED
        BY <2>1, <2>2, <2>3, <2>5, <2>6, TouchedIsKept
<1>7. CASE SelfTestPassed(a)
    <2> DEFINE d == Directory(release[a])
    <2>1. d \in Directories /\ versions[d] # None /\ "whole" \in VersionStates
        BY <1>7, ReleaseHome DEF SelfTestPassed, TypeOK, Placed, InstallPC, Finished, VersionStates
    <2>2. UNCHANGED <<staging, deleting, release, swept>> /\ pc' = [pc EXCEPT ![a] = "verify"]
        BY <1>7 DEF SelfTestPassed, Goto
    <2>3. \A b \in Apps : pc'[b] \in {"extract", "finalize"} => pc'[b] = pc[b]
        BY <2>2 DEF TypeOK
    <2>4. CASE UNCHANGED versions
        BY <2>2, <2>3, <2>4, UntouchedIsKept DEF DamageIsSwept
    <2>5. CASE versions' = [versions EXCEPT ![d].state = "whole"]
        <3> HIDE DEF d
        <3>1. Touched(d, "whole")
            BY <2>1, <2>5, TouchedHolds
        <3>2. QED
            BY <2>1, <2>2, <2>3, <3>1, TouchedIsKept
    <2>6. QED
        BY <1>7, <2>4, <2>5 DEF SelfTestPassed
<1>8. CASE VerifyPayload(a) \/ WritePointer(a) \/ Commit(a)
    BY <1>8, UntouchedIsKept DEF VerifyPayload, WritePointer, Commit, Goto, DamageIsSwept, TypeOK
<1>9. CASE SavePackConsent(a)
    BY <1>9, UntouchedIsKept DEF SavePackConsent, InstallEnds, Goto, DamageIsSwept, TypeOK
<1>10. CASE InstallFails(a)
    BY <1>10, UntouchedIsKept, NoneAssumption
       DEF InstallFails, InstallEnds, RemoveStaging, Goto, Moved, DamageIsSwept, TypeOK
<1>11. QED
    BY <1>1, <1>2, <1>3, <1>4, <1>5, <1>6, <1>7, <1>8, <1>9, <1>10 DEF Install

LEMMA KeepStep == TypeOK /\ Placed /\ DamageIsSwept /\ [Next]_vars => DamageIsSwept' /\ Kept
<1>1. TypeOK /\ DamageIsSwept /\ UNCHANGED vars => DamageIsSwept' /\ Kept
    BY UntouchedIsKept DEF DamageIsSwept, vars, starting, tables, history
<1>2. QED
    BY <1>1, StartKeeps, InstallKeeps DEF Next

\* A version directory keeps its release, and its files unless the start of another
\* instance deletes them, over every failure and crash.
THEOREM VersionsAreImmutable == Spec => VersionsImmutable
<1>1. Init => TypeOK /\ Placed /\ DamageIsSwept
    BY TypedInit, NoneAssumption DEF Init, DamageIsSwept
<1>2. TypeOK /\ Placed /\ DamageIsSwept /\ [Next]_vars => (TypeOK /\ Placed /\ DamageIsSwept)'
    BY TypedStep, KeepStep
<1>3. TypeOK /\ Placed /\ DamageIsSwept /\ [Next]_vars
          => [\A d \in Directories : versions[d] # None =>
                 /\ versions'[d] # None
                 /\ versions'[d].of = versions[d].of
                 /\ versions'[d].state \in {"whole", "littered"} \/ versions'[d].of \in swept]_vars
    BY KeepStep DEF Kept
<1>4. QED
    BY <1>1, <1>2, <1>3, PTL DEF Spec, VersionsImmutable

--------------------------------------------------------------------------------
(* Active packs are as published.                                           *)

\* A step that touches no version directory and verifies nothing.
Leaves ==
    /\ UNCHANGED versions
    /\ late \subseteq late'
    /\ Verified' \subseteq Verified
    /\ \A b \in Apps : pc'[b] \in Finished => pc[b] \in Finished /\ release'[b] = release[b]

LEMMA LeavesWhole ==
    ASSUME HoldsRelease, VerifiedIsWhole, Leaves
    PROVE  HoldsRelease' /\ VerifiedIsWhole'
BY DEF HoldsRelease, VerifiedIsWhole, Leaves, Whole

\* Where nothing is selected, an instance verifies what it installs only at the end.
LEMMA VerifiedShrinks ==
    ASSUME TypeOK, UNCHANGED active,
           \A b \in Apps : pc'[b] \in {"point", "commit", "consent"} =>
               pc[b] \in {"point", "commit", "consent"} /\ release'[b] = release[b]
    PROVE  Verified' \subseteq Verified
BY DEF Verified, ActivePointers

LEMMA StartLeaves ==
    ASSUME TypeOK, NEW a \in Apps, Start(a) \/ Crash(a) \/ Starts(a), ~DeleteFile(a)
    PROVE  Leaves
<1> USE DEF starting, tables, history
<1>1. /\ UNCHANGED <<versions, active>> /\ late \subseteq late'
      /\ \A b \in Apps : pc'[b] \in Finished => pc[b] \in Finished /\ pc'[b] = pc[b]
                                                /\ release'[b] = release[b]
    BY DEF Start, Crash, Starts, BeginDelete, EntryVanished, DeleteDirectory, DirectoryMissing,
           ListPointers, SyncPointer, SyncFails, Started, Refused, Ends, TypeOK, Finished
<1>2. QED
    BY <1>1, VerifiedShrinks DEF Leaves, Finished

\* A directory that is touched has become late, if it had been verified.
LEMMA TouchedWhole ==
    ASSUME TypeOK, TypeOK', HoldsRelease, VerifiedIsWhole,
           NEW d \in Directories, versions[d] # None,
           NEW s \in VersionStates, Touched(d, s), UNCHANGED <<active, release>>,
           Verified' \subseteq Verified, late \subseteq late',
           versions[d].state = "whole" /\ s # "whole"
               => {versions[d].of} \cap Verified \subseteq late',
           \A b \in Apps : pc'[b] \in Finished => pc[b] \in Finished,
           \A b \in Apps : pc[b] \in Finished => Directory(release[b]) \in Directories
    PROVE  HoldsRelease' /\ VerifiedIsWhole'
<1>1. \A e \in Directories : versions'[e].of = versions[e].of
    BY DEF Touched
<1>2. HoldsRelease'
    BY <1>1 DEF HoldsRelease
<1>3. ASSUME NEW r \in Verified', r \notin late' PROVE Whole(r)'
    <2>1. Whole(r) /\ r \in Releases
        BY <1>3, VerifiedTyped DEF VerifiedIsWhole
    <2>2. Directory(r) \in Directories
        BY <2>1, ReleaseHome
    <2>3. CASE Directory(r) # d
        BY <2>1, <2>2, <2>3 DEF Touched, Whole
    <2>4. CASE Directory(r) = d
        <3>1. versions[d] = [of |-> r, state |-> "whole"]
            BY <2>1, <2>4 DEF Whole
        <3>2. s = "whole"
            BY <1>3, <3>1
        <3>3. versions'[d] = [of |-> r, state |-> "whole"]
            BY <3>1, <3>2 DEF Touched, TypeOK
        <3>4. QED
            BY <2>4, <3>1, <3>3 DEF Whole
    <2>5. QED
        BY <2>3, <2>4
<1>4. QED
    BY <1>2, <1>3 DEF VerifiedIsWhole

LEMMA StartLeavesWhole ==
    ASSUME TypeOK, TypeOK', Placed, HoldsRelease, VerifiedIsWhole,
           NEW a \in Apps, Start(a) \/ Crash(a) \/ Starts(a)
    PROVE  HoldsRelease' /\ VerifiedIsWhole'
<1> USE DEF starting, tables, history
<1>1. CASE ~DeleteFile(a)
    BY <1>1, StartLeaves, LeavesWhole
<1>2. CASE DeleteFile(a)
    <2>0. UNCHANGED <<active, release, pc>> /\ late \subseteq late'
        BY <1>2 DEF DeleteFile
    <2>1. Verified' \subseteq Verified
        BY <2>0, VerifiedShrinks
    <2>2. CASE UNCHANGED versions
        BY <2>0, <2>1, <2>2, LeavesWhole DEF Leaves
    <2>3. CASE /\ deleting[a] \in Directories
               /\ versions' = [versions EXCEPT ![deleting[a]].state = "damaged"]
               /\ late' = late \cup ({versions[deleting[a]].of} \cap Verified)
        <3> DEFINE d == deleting[a]
        <3>1. versions[d] # None /\ "damaged" \in VersionStates
            BY <2>3 DEF Placed, VersionStates
        <3>2. Touched(d, "damaged")
            BY <2>3, <3>1, TouchedHolds
        <3>3. \A b \in Apps : pc[b] \in Finished => Directory(release[b]) \in Directories
            BY ReleaseHome DEF TypeOK, InstallPC, Finished
        <3>4. {versions[d].of} \cap Verified \subseteq late'
            BY <2>3
        <3>5. QED
            BY <2>0, <2>1, <2>3, <3>1, <3>2, <3>3, <3>4, TouchedWhole
    <2>4. QED
        BY <1>2, <2>2, <2>3 DEF DeleteFile
<1>3. QED
    BY <1>1, <1>2

LEMMA InstallLeavesWhole ==
    ASSUME TypeOK, TypeOK', Placed, HoldsRelease, VerifiedIsWhole, NEW a \in Apps, Install(a)
    PROVE  HoldsRelease' /\ VerifiedIsWhole'
<1> USE DEF starting, tables, history
<1>0. \A b \in Apps : pc[b] \in Finished => Directory(release[b]) \in Directories
                                         /\ release[b] \in Releases
    BY ReleaseHome DEF TypeOK, InstallPC, Finished
<1>1. CASE (\E r \in Releases : InstallPack(a, r)) \/ CreateStaging(a) \/ ExtractAndVerify(a)
           \/ SavePackConsent(a) \/ InstallFails(a)
    <2>1. /\ UNCHANGED <<versions, active>> /\ late \subseteq late'
          /\ \A b \in Apps : pc'[b] \in Finished => pc[b] \in Finished /\ pc'[b] = pc[b]
                                                    /\ release'[b] = release[b]
        BY <1>1 DEF InstallPack, CreateStaging, ExtractAndVerify, SavePackConsent, InstallFails,
               InstallEnds, RemoveStaging, Goto, TypeOK, Finished
    <2>2. Leaves
        BY <2>1, VerifiedShrinks DEF Leaves, Finished
    <2>3. QED
        BY <2>2, LeavesWhole
<1>2. CASE KeepExisting(a)
    <2>1. /\ UNCHANGED <<versions, active, release, late>>
          /\ pc' = [pc EXCEPT ![a] = "self_test"]
          /\ versions[Directory(release[a])].of = release[a]
        BY <1>2 DEF KeepExisting, Goto
    <2>2. Verified' \subseteq Verified
        BY <2>1, VerifiedShrinks DEF TypeOK
    <2>3. QED
        BY <2>1, <2>2 DEF HoldsRelease, VerifiedIsWhole, Whole, TypeOK, Finished
<1>3. CASE Finalize(a)
    <2> DEFINE d == Directory(release[a])
    <2>1. /\ UNCHANGED <<active, release, late>>
          /\ pc' = [pc EXCEPT ![a] = "self_test"]
          /\ versions[d] = None
          /\ versions' = [versions EXCEPT ![d] = [of |-> release[a], state |-> staging[a]]]
        BY <1>3 DEF Finalize, Goto
    <2>2. Verified' \subseteq Verified
        BY <2>1, VerifiedShrinks DEF TypeOK
    <2>3. d \in Directories
        BY <1>3, ReleaseHome DEF Finalize, TypeOK, InstallPC
    <2>4. HoldsRelease'
        BY <2>1, <2>3, <1>0 DEF HoldsRelease, Placed, TypeOK, Finished
    <2>5. \A r \in Verified : Whole(r) => Whole(r)'
        <3> SUFFICES ASSUME NEW r \in Verified, Whole(r) PROVE Whole(r)'
            OBVIOUS
        <3>1. Directory(r) \in Directories /\ r \in Releases
            BY VerifiedTyped, ReleaseHome
        <3>2. versions[Directory(r)] # None
            BY <3>1, NoneAssumption DEF Whole, VersionStates
        <3>3. QED
            BY <2>1, <3>1, <3>2 DEF Whole, TypeOK
    <2>6. QED
        BY <2>1, <2>2, <2>4, <2>5 DEF VerifiedIsWhole
<1>4. CASE SelfTest(a)
    <2> DEFINE d == Directory(release[a])
               s == IF versions[d].state = "whole" THEN "littered" ELSE versions[d].state
    <2>1. /\ UNCHANGED <<active, release>>
          /\ pc' = [pc EXCEPT ![a] = "testing"] /\ pc[a] = "self_test"
          /\ versions' = [versions EXCEPT ![d].state = s]
          /\ late' = late \cup ({release[a]} \cap Verified)
        BY <1>4 DEF SelfTest, Goto
    <2>2. d \in Directories /\ versions[d] # None /\ versions[d].of = release[a]
        BY <1>0, <2>1 DEF HoldsRelease, Placed, Finished
    <2>3. s \in VersionStates
        BY <2>2 DEF TypeOK, VersionStates
    <2>4. Verified' \subseteq Verified
        BY <2>1, VerifiedShrinks DEF TypeOK
    <2>5. \A b \in Apps : pc'[b] \in Finished => pc[b] \in Finished
        BY <2>1 DEF TypeOK, Finished
    <2>6. {versions[d].of} \cap Verified \subseteq late' /\ late \subseteq late'
        BY <2>1, <2>2
    <2> HIDE DEF s, d
    <2>7. Touched(d, s)
        BY <2>1, <2>2, <2>3, TouchedHolds
    <2>8. QED
        BY <1>0, <2>1, <2>2, <2>3, <2>4, <2>5, <2>6, <2>7, TouchedWhole
<1>5. CASE SelfTestPassed(a)
    <2> DEFINE d == Directory(release[a])
    <2>1. /\ UNCHANGED <<active, release, late>>
          /\ pc' = [pc EXCEPT ![a] = "verify"] /\ pc[a] = "testing"
        BY <1>5 DEF SelfTestPassed, Goto
    <2>2. d \in Directories /\ versions[d] # None /\ "whole" \in VersionStates
        BY <1>0, <2>1 DEF Placed, Finished, VersionStates
    <2>3. Verified' \subseteq Verified
        BY <2>1, VerifiedShrinks DEF TypeOK
    <2>4. \A b \in Apps : pc'[b] \in Finished => pc[b] \in Finished
        BY <2>1 DEF TypeOK, Finished
    <2>5. CASE UNCHANGED versions
        BY <2>1, <2>3, <2>4, <2>5, LeavesWhole DEF Leaves
    <2>6. CASE versions' = [versions EXCEPT ![d].state = "whole"]
        <3> HIDE DEF d
        <3>1. Touched(d, "whole")
            BY <2>2, <2>6, TouchedHolds
        <3>2. QED
            BY <1>0, <2>1, <2>2, <2>3, <2>4, <3>1, TouchedWhole
    <2>7. QED
        BY <1>5, <2>5, <2>6 DEF SelfTestPassed
<1>6. CASE VerifyPayload(a)
    <2>1. /\ UNCHANGED <<versions, active, release, late>> /\ Whole(release[a])
          /\ pc' = [pc EXCEPT ![a] = "point"] /\ pc[a] = "verify"
        BY <1>6 DEF VerifyPayload, Goto
    <2>2. Verified' \subseteq Verified \cup {release[a]}
        BY <2>1 DEF Verified, ActivePointers, TypeOK
    <2>3. QED
        BY <2>1, <2>2 DEF HoldsRelease, VerifiedIsWhole, Whole, TypeOK, Finished
<1>7. CASE WritePointer(a)
    <2>1. /\ UNCHANGED <<versions, release, late>>
          /\ active' = [active EXCEPT ![release[a].pack] = release[a]]
          /\ pc' = [pc EXCEPT ![a] = "commit"] /\ pc[a] = "point"
        BY <1>7 DEF WritePointer, Goto
    <2>2. Verified' \subseteq Verified
        BY <2>1 DEF Verified, ActivePointers, TypeOK
    <2>3. QED
        BY <2>1, <2>2 DEF HoldsRelease, VerifiedIsWhole, Whole, TypeOK, Finished
<1>8. CASE Commit(a)
    <2>1. /\ UNCHANGED <<versions, active, release, late>>
          /\ pc' = [pc EXCEPT ![a] = "consent"] /\ pc[a] = "commit"
        BY <1>8 DEF Commit, Goto
    <2>2. Verified' \subseteq Verified
        BY <2>1 DEF Verified, ActivePointers, TypeOK
    <2>3. QED
        BY <2>1, <2>2 DEF HoldsRelease, VerifiedIsWhole, Whole, TypeOK, Finished
<1>9. QED
    BY <1>1, <1>2, <1>3, <1>4, <1>5, <1>6, <1>7, <1>8 DEF Install

LEMMA WholeStep ==
    TypeOK /\ TypeOK' /\ Placed /\ HoldsRelease /\ VerifiedIsWhole /\ [Next]_vars
        => HoldsRelease' /\ VerifiedIsWhole'
<1>1. HoldsRelease /\ VerifiedIsWhole /\ UNCHANGED vars => HoldsRelease' /\ VerifiedIsWhole'
    BY DEF HoldsRelease, VerifiedIsWhole, Whole, Verified, ActivePointers, vars, history
<1>2. QED
    BY <1>1, StartLeavesWhole, InstallLeavesWhole DEF Next

\* An active pack is as published, whatever was deleted and tested beside it, unless
\* that happened when it had been verified.
THEOREM ActivePacksAreWhole == Spec => []ActiveIsWhole
<1>1. Init => TypeOK /\ Placed /\ HoldsRelease /\ VerifiedIsWhole
    BY TypedInit DEF Init, HoldsRelease, VerifiedIsWhole, Verified, ActivePointers, Finished
<1>2. TypeOK /\ Placed /\ HoldsRelease /\ VerifiedIsWhole /\ [Next]_vars
          => (TypeOK /\ Placed /\ HoldsRelease /\ VerifiedIsWhole)'
    BY TypedStep, WholeStep
<1>3. VerifiedIsWhole => ActiveIsWhole
    BY DEF VerifiedIsWhole, ActiveIsWhole, Verified, ActivePointers
<1>4. QED
    BY <1>1, <1>2, <1>3, PTL DEF Spec

--------------------------------------------------------------------------------
(* Dependencies.                                                            *)

\* A release whose dependency is met keeps it, through every step of everybody: what
\* replaces it is not older, and a published range has no upper end.
LEMMA DependsStays ==
    ASSUME TypeOK, TypeOK', Placed, IInv, IInv', Kept, NEW r \in Releases, Depends(r),
           \A n \in ActivePointers : versions[Directory(n)] # None,
           raced \subseteq raced',
           UNCHANGED <<active, highWater>>
           \/ \E m \in Releases :
                 \/ /\ active' = [active EXCEPT ![m.pack] = m] /\ UNCHANGED highWater
                    /\ m.pack \notin raced => m.sequence >= highWater[m.pack]
                 \/ /\ highWater' = [highWater EXCEPT ![m.pack] = m.sequence]
                    /\ UNCHANGED active
                    /\ m.pack \notin raced => active[m.pack] = m
    PROVE  Depends(r)'
<1> SUFFICES ASSUME raced' = {}, Needs[r] # {} PROVE Depends(r)'
    BY DEF Depends, DependencyMet
<1>0. raced = {}
    OBVIOUS
<1>1. Needs[r] \subseteq Releases
    BY ReleasesAssumption
<1>2. \A n \in Needs[r] : /\ n.pack \in Packs /\ n.sequence \in Nat
                          /\ Directory(n) \in Directories
    BY <1>1, ReleaseHome
<1>3. \A n \in Needs[r] : versions[Directory(n)] # None => versions'[Directory(n)] # None
    BY <1>2 DEF Kept
<1>4. \A n \in ActivePointers : n \in Releases /\ n.pack \in Packs /\ active[n.pack] = n
                                 /\ n.sequence >= highWater[n.pack]
    <2>1. \A p \in Packs : active[p] # None =>
              active[p] \in Releases /\ active[p].pack = p /\ active[p].sequence >= highWater[p]
        BY <1>0, ReleaseHome DEF TypeOK, IInv, OnlyRacesRollBack
    <2>2. QED
        BY <2>1, ReleaseHome DEF ActivePointers
<1>5. PICK n \in Needs[r] : \/ n \in ActivePointers
                            \/ versions[Directory(n)] # None /\ highWater[n.pack] < n.sequence
    BY <1>0 DEF Depends, DependencyMet
<1>6. versions[Directory(n)] # None
    BY <1>5
<1>7. CASE UNCHANGED <<active, highWater>>
    BY <1>3, <1>5, <1>7 DEF Depends, DependencyMet, ActivePointers
<1>8. ASSUME NEW m \in Releases, active' = [active EXCEPT ![m.pack] = m], UNCHANGED highWater,
             m.sequence >= highWater[m.pack]
      PROVE  Depends(r)'
    <2>0. m.pack \in Packs /\ m.sequence \in Nat /\ m # None
        BY ReleaseHome, NoneAssumption
    <2>1. CASE highWater[n.pack] < n.sequence
        BY <1>3, <1>6, <1>8, <2>1 DEF Depends
    <2>2. CASE n \in ActivePointers /\ n.pack # m.pack
        <3>1. active'[n.pack] = n /\ n # None
            BY <1>2, <1>4, <1>8, <2>2 DEF TypeOK, ActivePointers
        <3>2. QED
            BY <1>2, <3>1 DEF Depends, DependencyMet, ActivePointers
    <2>3. CASE n \in ActivePointers /\ n.pack = m.pack /\ ~(highWater[n.pack] < n.sequence)
        <3>1. m.sequence >= n.sequence
            BY <1>2, <1>4, <1>8, <2>0, <2>3 DEF TypeOK
        <3>2. m \in Needs[r]
            BY <1>1, <2>3, <3>1, RangesAssumption
        <3>3. m \in ActivePointers'
            BY <1>8, <2>0 DEF ActivePointers, TypeOK
        <3>4. QED
            BY <3>2, <3>3 DEF Depends, DependencyMet
    <2>4. QED
        BY <1>5, <2>1, <2>2, <2>3
<1>9. ASSUME NEW m \in Releases, highWater' = [highWater EXCEPT ![m.pack] = m.sequence],
             UNCHANGED active, active[m.pack] = m
      PROVE  Depends(r)'
    <2>0. m.pack \in Packs /\ m.sequence \in Nat /\ m # None
        BY ReleaseHome, NoneAssumption
    <2>1. CASE n \in ActivePointers
        BY <1>9, <2>1 DEF Depends, DependencyMet, ActivePointers
    <2>2. CASE highWater[n.pack] < n.sequence /\ highWater'[n.pack] < n.sequence
        BY <1>3, <1>6, <2>2 DEF Depends
    <2>3. CASE highWater[n.pack] < n.sequence /\ ~(highWater'[n.pack] < n.sequence)
        <3>1. n.pack = m.pack /\ m.sequence >= n.sequence
            BY <1>2, <1>9, <2>0, <2>3 DEF TypeOK
        <3>2. m \in Needs[r]
            BY <1>1, <3>1, RangesAssumption
        <3>3. m \in ActivePointers'
            BY <1>9, <2>0 DEF ActivePointers
        <3>4. QED
            BY <3>2, <3>3 DEF Depends, DependencyMet
    <2>4. QED
        BY <1>5, <2>1, <2>2, <2>3
<1>10. QED
    BY <1>0, <1>7, <1>8, <1>9

\* How a step changes pointer files and marks: not, or one of them for one release that
\* the other admits, but for races.
Advances ==
    /\ raced \subseteq raced'
    /\ \/ UNCHANGED <<active, highWater>>
       \/ \E m \in Releases :
             \/ /\ active' = [active EXCEPT ![m.pack] = m] /\ UNCHANGED highWater
                /\ m.pack \notin raced => m.sequence >= highWater[m.pack]
             \/ /\ highWater' = [highWater EXCEPT ![m.pack] = m.sequence]
                /\ UNCHANGED active
                /\ m.pack \notin raced => active[m.pack] = m

LEMMA StepAdvances ==
    ASSUME TypeOK, Placed, IInv, [Next]_vars
    PROVE  Advances
<1> USE DEF starting, tables, history
<1>1. CASE UNCHANGED vars
    BY <1>1 DEF Advances, vars
<1>2. ASSUME NEW a \in Apps, Start(a) \/ Crash(a) PROVE Advances
    BY <1>2 DEF Start, Crash, Advances
<1>3. ASSUME NEW a \in Apps, NEW r \in Releases, SyncPointer(a, r) PROVE Advances
    BY <1>3 DEF SyncPointer, CommitPackActivation, Advances, IInv, CommitsSelected
<1>4. ASSUME NEW a \in Apps, Starts(a), \A r \in Releases : ~SyncPointer(a, r) PROVE Advances
    BY <1>4 DEF Starts, BeginDelete, EntryVanished, DeleteFile, DeleteDirectory,
                DirectoryMissing, ListPointers, SyncFails, Started, Refused, Advances
<1>5. ASSUME NEW a \in Apps, WritePointer(a) \/ Commit(a) PROVE Advances
    <2>1. release[a] \in Releases /\ release[a] # None
        BY <1>5 DEF WritePointer, Commit, TypeOK, InstallPC
    <2>2. CASE WritePointer(a)
        BY <2>1, <2>2 DEF WritePointer, Advances, IInv, InstallsAhead
    <2>3. CASE Commit(a)
        BY <2>1, <2>3 DEF Commit, CommitPackActivation, Advances, IInv, CommitsSelected
    <2>4. QED
        BY <1>5, <2>2, <2>3
<1>6. ASSUME NEW a \in Apps, Install(a), ~WritePointer(a), ~Commit(a) PROVE Advances
    BY <1>6 DEF Install, InstallPack, CreateStaging, ExtractAndVerify, KeepExisting, Finalize,
                SelfTest, SelfTestPassed, VerifyPayload, SavePackConsent, InstallFails, Advances
<1>7. QED
    BY <1>1, <1>2, <1>3, <1>4, <1>5, <1>6 DEF Next

\* What a step selects was selected before, or has its dependency met.
LEMMA SelectedGrows ==
    ASSUME TypeOK, [Next]_vars, NEW r \in Selected'
    PROVE  r \in Selected \/ DependencyMet(r)
<1> USE DEF starting, tables, history
<1>1. ASSUME UNCHANGED active,
             \A b \in Apps : pc'[b] \in Finished => pc[b] \in Finished /\ release'[b] = release[b]
      PROVE  r \in Selected
    BY <1>1 DEF Selected, ActivePointers
<1>2. CASE UNCHANGED vars
    BY <1>1, <1>2 DEF vars
<1>3. ASSUME NEW a \in Apps, Start(a) \/ Crash(a) \/ Starts(a) PROVE r \in Selected
    BY <1>1, <1>3
       DEF Start, Crash, Starts, BeginDelete, EntryVanished, DeleteFile, DeleteDirectory,
           DirectoryMissing, ListPointers, SyncPointer, SyncFails, Started, Refused, Ends,
           TypeOK, Finished
<1>4. ASSUME NEW a \in Apps, KeepExisting(a) \/ Finalize(a)
      PROVE  r \in Selected \/ DependencyMet(r)
    <2>1. /\ UNCHANGED <<active, release>> /\ DependencyMet(release[a])
          /\ pc' = [pc EXCEPT ![a] = "self_test"]
        BY <1>4 DEF KeepExisting, Finalize, Goto
    <2>2. r \in Selected \cup {release[a]}
        BY <2>1 DEF Selected, ActivePointers, TypeOK
    <2>3. QED
        BY <2>1, <2>2
<1>5. ASSUME NEW a \in Apps, WritePointer(a) PROVE r \in Selected
    <2>1. /\ UNCHANGED release /\ pc[a] = "point"
          /\ active' = [active EXCEPT ![release[a].pack] = release[a]]
          /\ pc' = [pc EXCEPT ![a] = "commit"]
        BY <1>5 DEF WritePointer, Goto
    <2>2. ActivePointers' \subseteq ActivePointers \cup {release[a]}
        BY <2>1 DEF ActivePointers, TypeOK
    <2>3. QED
        BY <2>1, <2>2 DEF Selected, TypeOK, Finished
<1>6. ASSUME NEW a \in Apps, Install(a), ~KeepExisting(a), ~Finalize(a), ~WritePointer(a)
      PROVE  r \in Selected
    BY <1>1, <1>6
       DEF Install, InstallPack, CreateStaging, ExtractAndVerify, SelfTest, SelfTestPassed,
           VerifyPayload, Commit, SavePackConsent, InstallFails, InstallEnds, Goto, TypeOK, Finished
<1>7. QED
    BY <1>2, <1>3, <1>4, <1>5, <1>6 DEF Next

\* Only an install that has its directory selects a release.
LEMMA PointersGrow ==
    ASSUME TypeOK, [Next]_vars, NEW r \in ActivePointers'
    PROVE  r \in ActivePointers \/ \E a \in Apps : pc'[a] \in Finished /\ release'[a] = r
<1> USE DEF starting, tables, history
<1>1. CASE UNCHANGED active
    BY <1>1 DEF ActivePointers
<1>2. ASSUME NEW a \in Apps, WritePointer(a)
      PROVE  r \in ActivePointers \/ (pc'[a] \in Finished /\ release'[a] = r)
    BY <1>2 DEF WritePointer, Goto, ActivePointers, TypeOK, Finished
<1>3. ASSUME NEW a \in Apps, Start(a) \/ Crash(a) \/ Starts(a) PROVE UNCHANGED active
    BY <1>3
       DEF Start, Crash, Starts, BeginDelete, EntryVanished, DeleteFile, DeleteDirectory,
           DirectoryMissing, ListPointers, SyncPointer, SyncFails, Started, Refused
<1>4. ASSUME NEW a \in Apps, Install(a), ~WritePointer(a) PROVE UNCHANGED active
    BY <1>4 DEF Install, InstallPack, CreateStaging, ExtractAndVerify, KeepExisting, Finalize,
                SelfTest, SelfTestPassed, VerifyPayload, Commit, SavePackConsent, InstallFails
<1>5. QED
    BY <1>1, <1>2, <1>3, <1>4 DEF Next, vars

LEMMA DependsStep ==
    ASSUME TypeOK, TypeOK', Placed, Placed', IInv, IInv', Kept, SelectedDepends, [Next]_vars
    PROVE  SelectedDepends'
<1>1. ASSUME NEW r \in Selected' PROVE r \in Releases /\ Depends(r)
    <2>1. r \in Releases
        BY PointersTyped DEF Selected, ActivePointers, TypeOK, InstallPC, Finished
    <2>2. QED
        BY <2>1, SelectedGrows DEF SelectedDepends, Depends
<1>2. \A r \in Selected' : Depends(r)'
    BY <1>1, StepAdvances, DependsStays DEF Advances, SelectedDepends
<1>3. ASSUME NEW r \in ActivePointers' PROVE versions'[Directory(r)] # None
    <2>1. CASE r \in ActivePointers
        <3>1. Directory(r) \in Directories
            BY <2>1, PointersTyped, ReleaseHome
        <3>2. QED
            BY <2>1, <3>1 DEF SelectedDepends, Kept
    <2>2. CASE \E a \in Apps : pc'[a] \in Finished /\ release'[a] = r
        BY <2>2 DEF Placed
    <2>3. QED
        BY <1>3, <2>1, <2>2, PointersGrow
<1>4. QED
    BY <1>2, <1>3 DEF SelectedDepends

\* An active pack has its dependency active, but for races and lost commits.
THEOREM ActivePacksHaveDependencies == Spec => []DependenciesActive
<1>1. Init => /\ TypeOK /\ Placed /\ IInv
              /\ DamageIsSwept /\ SelectedDepends
    BY TypedInit, SafetyInit, NoneAssumption
       DEF Init, DamageIsSwept, SelectedDepends, Selected, ActivePointers, Finished
<1>2. TypeOK /\ Placed /\ IInv /\ DamageIsSwept /\ SelectedDepends /\ [Next]_vars
          => (TypeOK /\ Placed /\ IInv /\ DamageIsSwept /\ SelectedDepends)'
    BY TypedStep, SafetyStep, KeepStep, DependsStep
<1>3. SelectedDepends => DependenciesActive
    BY DEF SelectedDepends, Selected, Depends, DependenciesActive, ActivePointers
<1>4. QED
    BY <1>1, <1>2, <1>3, PTL DEF Spec

================================================================================
