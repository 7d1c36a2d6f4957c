------------------------------ MODULE PackInstall ------------------------------
(***************************************************************************)
(* Installing and activating engine packs: PackService::install and the    *)
(* pack part of AppState::initialize (src-tauri/src/lib.rs), PackLayout    *)
(* and PackInstaller (fmd-core/src/pack.rs), and the pack tables of        *)
(* fmd-core/src/storage.rs.                                                *)
(*                                                                         *)
(* Program instances share the engines directory and the database, and     *)
(* nothing else keeps them apart.  Each runs one install at a time, as the *)
(* window disables every install button meanwhile (App.svelte:604), and    *)
(* each may end anywhere.  An action is what an instance does between two  *)
(* effects that another instance, or a later start, can see.               *)
(***************************************************************************)
EXTENDS Naturals, FiniteSets

CONSTANTS
    Apps,         \* places for program instances: how many may run at once
    Releases,     \* signed releases: [pack, version, sequence, build]
    Needs,        \* releases that satisfy the dependency of a release; {} if none
    Installs,     \* bound: how many installs are begun
    None,         \* no release, directory or deletion
    Gone          \* the directory a deletion was at is no longer there

Packs == {r.pack : r \in Releases}
\* The directory of a version (the target is always the running one).
Directory(r) == [pack |-> r.pack, version |-> r.version]
Directories == {Directory(r) : r \in Releases}

StagingStates == {"absent", "part", "whole", "damaged"}
VersionStates == {"whole", "damaged", "littered"}

ASSUME AppsAssumption == IsFiniteSet(Apps)
ASSUME ReleasesAssumption ==
    /\ IsFiniteSet(Releases)
    /\ \A r \in Releases :
          DOMAIN r = {"pack", "version", "sequence", "build"} /\ r.sequence \in Nat
    /\ Needs \in [Releases -> SUBSET Releases]
\* The published packs ask for a lowest version of their dependency, and versions
\* grow with their sequences (packs/recipes/video-core.json:5).  The code would take
\* a range with an upper end as well, which any later install may leave.
ASSUME RangesAssumption ==
    \A r, m \in Releases : \A n \in Needs[r] :
        m.pack = n.pack /\ m.sequence >= n.sequence => m \in Needs[r]
ASSUME InstallsAssumption == Installs \in Nat
ASSUME NoneAssumption ==
    /\ None # Gone
    /\ {None, Gone} \cap (Apps \cup Releases \cup Directories) = {}
    /\ Apps \cap Directories = {}
    /\ None \notin [of : Releases, state : VersionStates]

VARIABLES
    pc,          \* where an instance stands: its start, or its install
    release,     \* the release it installs
    staging,     \* its directory under engines/staging: absent, part, whole, damaged
    seen,        \* at a start: the staging directories listed and not yet deleted
    deleting,    \* at a start: the instance whose staging directory, or the
                 \* version directory that one became, is being deleted
    pointers,    \* at a start: the activation pointers still to be committed
    versions,    \* version directories: [of, state], or None
    begun,       \* installs begun so far
    active,      \* the pointer files under engines/active
    highWater,   \* table pack_security_high_water
    row,         \* table pack_active
    consent,     \* table pack_consents
    raced,       \* history: packs that two instances were at at the same time,
                 \* an install and another, or an install and a start
    swept,       \* history: releases whose staging directory a start deleted
                 \* while an install was using it
    late         \* history: releases whose version directory lost a file, or was
                 \* used for a self test, when it had been verified

starting == <<seen, deleting, pointers>>
tables == <<highWater, row, consent>>
history == <<raced, swept, late>>
vars == <<pc, release, staging, starting, versions, active, tables, begun, history>>

InstallPC == {"download", "extract", "finalize", "self_test", "testing", "verify",
              "point", "commit", "consent"}
AppPC == {"down", "sweep", "sync", "idle"} \cup InstallPC

Init ==
    /\ pc = [a \in Apps |-> "down"]
    /\ release = [a \in Apps |-> None]
    /\ staging = [a \in Apps |-> "absent"]
    /\ seen = [a \in Apps |-> {}]
    /\ deleting = [a \in Apps |-> None]
    /\ pointers = [a \in Apps |-> {}]
    /\ versions = [d \in Directories |-> None]
    /\ begun = 0
    /\ active = [p \in Packs |-> None]
    /\ highWater = [p \in Packs |-> 0]
    /\ row = [p \in Packs |-> None]
    /\ consent = [p \in Packs |-> None]
    /\ raced = {}
    /\ swept = {}
    /\ late = {}

-----------------------------------------------------------------------------
(* JobStore::commit_pack_activation: one transaction. *)

Admissible(r) == r.sequence >= highWater[r.pack]

\* Mutant of CommitPackActivation: without the comparison.
CommitUnchecked(r) ==
    /\ highWater' = [highWater EXCEPT ![r.pack] = r.sequence]
    /\ row' = [row EXCEPT ![r.pack] = r]
    /\ UNCHANGED consent

CommitPackActivation(r) ==
    /\ Admissible(r)
    /\ highWater' = [highWater EXCEPT ![r.pack] = r.sequence]
    /\ row' = [row EXCEPT ![r.pack] = r]
    /\ UNCHANGED consent

-----------------------------------------------------------------------------
(* The end of a process takes its install and its start with it; what it had *)
(* on disk stays.                                                            *)

Ends(a) ==
    /\ pc' = [pc EXCEPT ![a] = "down"]
    /\ release' = [release EXCEPT ![a] = None]
    /\ seen' = [seen EXCEPT ![a] = {}]
    /\ deleting' = [deleting EXCEPT ![a] = None]
    /\ pointers' = [pointers EXCEPT ![a] = {}]

\* The user quits, or the process dies.
Crash(a) ==
    /\ pc[a] # "down"
    /\ Ends(a)
    /\ UNCHANGED <<begun, staging, versions, active, tables, history>>

-----------------------------------------------------------------------------
(* The start of an instance: PackLayout::recover_staging, then every pointer  *)
(* file is committed.  An error of either refuses the start.                  *)

Refused(a) ==
    /\ Ends(a)
    /\ UNCHANGED <<begun, staging, versions, active, tables, history>>

Start(a) ==
    /\ pc[a] = "down"
    /\ pc' = [pc EXCEPT ![a] = "sweep"]
    /\ seen' = [seen EXCEPT ![a] = {b \in Apps : staging[b] # "absent"}]
    /\ UNCHANGED <<begun, release, staging, deleting, pointers, versions, active, tables, history>>

BeginDelete(a, b) ==
    /\ pc[a] = "sweep" /\ deleting[a] = None /\ b \in seen[a]
    /\ staging[b] # "absent"
    /\ seen' = [seen EXCEPT ![a] = @ \ {b}]
    /\ deleting' = [deleting EXCEPT ![a] = b]
    /\ swept' = IF pc[b] \in InstallPC THEN swept \cup {release[b]} ELSE swept
    /\ UNCHANGED <<begun, pc, release, staging, pointers, versions, active, tables, raced, late>>

\* symlink_metadata of an entry that was listed and has been renamed or removed.
EntryVanished(a, b) ==
    /\ pc[a] = "sweep" /\ deleting[a] = None /\ b \in seen[a]
    /\ staging[b] = "absent"
    /\ Refused(a)

ActivePointers == {active[p] : p \in Packs} \ {None}

\* Releases an install has verified, or a pointer selects.
Verified ==
    ActivePointers \cup
        {release[a] : a \in {b \in Apps : pc[b] \in {"point", "commit", "consent"}}}

\* Files go one by one.  remove_dir_all holds the directory open, so that the
\* deletion goes on in it when it is renamed.
DeleteFile(a) ==
    /\ \/ /\ deleting[a] \in Apps
          /\ staging' = [staging EXCEPT ![deleting[a]] = "damaged"]
          /\ UNCHANGED <<versions, late>>
       \/ /\ deleting[a] \in Directories
          /\ versions' = [versions EXCEPT ![deleting[a]].state = "damaged"]
          /\ late' = late \cup ({versions[deleting[a]].of} \cap Verified)
          /\ UNCHANGED staging
    /\ UNCHANGED <<begun, pc, release, starting, active, tables, raced, swept>>

\* The directory of instance b is no longer where a deletion found it.
Moved(b, to) == [a \in Apps |-> IF deleting[a] = b THEN to ELSE deleting[a]]

DeleteDirectory(a) ==
    /\ deleting[a] \in Apps
    /\ staging' = [staging EXCEPT ![deleting[a]] = "absent"]
    /\ deleting' = [Moved(deleting[a], Gone) EXCEPT ![a] = None]
    /\ UNCHANGED <<begun, pc, release, seen, pointers, versions, active, tables, history>>

\* The directory is missing when its own turn comes: an error of remove_dir_all,
\* or none if nothing was left to remove.
DirectoryMissing(a) ==
    /\ deleting[a] \in Directories \cup {Gone}
    /\ \/ Refused(a)
       \/ /\ deleting[a] = Gone
          /\ deleting' = [deleting EXCEPT ![a] = None]
          /\ UNCHANGED <<begun, pc, release, staging, seen, pointers, versions, active, tables, history>>

BusyWith(p) ==
    \E a \in Apps : p \in {r.pack : r \in pointers[a] \cup ({release[a]} \ {None})}

\* Mutant of ListPointers: the start leaves the pointers alone.
ListNoPointers(a) ==
    /\ pc[a] = "sweep" /\ seen[a] = {} /\ deleting[a] = None
    /\ pc' = [pc EXCEPT ![a] = "sync"]
    /\ UNCHANGED <<begun, release, staging, starting, versions, active, tables, history>>

ListPointers(a) ==
    /\ pc[a] = "sweep" /\ seen[a] = {} /\ deleting[a] = None
    /\ pc' = [pc EXCEPT ![a] = "sync"]
    /\ pointers' = [pointers EXCEPT ![a] = ActivePointers]
    /\ raced' = raced \cup {p \in {r.pack : r \in ActivePointers} : BusyWith(p)}
    /\ UNCHANGED <<begun, release, staging, seen, deleting, versions, active, tables, swept, late>>

SyncPointer(a, r) ==
    /\ pc[a] = "sync" /\ r \in pointers[a]
    /\ CommitPackActivation(r)
    /\ pointers' = [pointers EXCEPT ![a] = @ \ {r}]
    /\ UNCHANGED <<begun, pc, release, staging, seen, deleting, versions, active, history>>

\* The pointer is below the high-water mark, or the database fails.
SyncFails(a, r) ==
    /\ pc[a] = "sync" /\ r \in pointers[a]
    /\ Refused(a)

Started(a) ==
    /\ pc[a] = "sync" /\ pointers[a] = {}
    /\ pc' = [pc EXCEPT ![a] = "idle"]
    /\ UNCHANGED <<begun, release, staging, starting, versions, active, tables, history>>

-----------------------------------------------------------------------------
(* PackService::install. *)

Goto(a, to) == pc' = [pc EXCEPT ![a] = to]

\* PackManifestV1::verify_payload of the version directory.
Whole(r) == versions[Directory(r)] = [of |-> r, state |-> "whole"]

\* Mutant of InstallPack: without the comparison.
InstallAny(a, r) ==
    /\ pc[a] = "idle"
    /\ begun < Installs
    /\ begun' = begun + 1
    /\ Goto(a, "download")
    /\ release' = [release EXCEPT ![a] = r]
    /\ raced' = raced \cup {p \in {r.pack} : BusyWith(p)}
    /\ UNCHANGED <<staging, starting, versions, active, tables, swept, late>>

\* The high-water mark is compared before the download is awaited.
InstallPack(a, r) ==
    /\ pc[a] = "idle"
    /\ Admissible(r)
    /\ begun < Installs
    /\ begun' = begun + 1
    /\ Goto(a, "download")
    /\ release' = [release EXCEPT ![a] = r]
    /\ raced' = raced \cup {p \in {r.pack} : BusyWith(p)}
    /\ UNCHANGED <<staging, starting, versions, active, tables, swept, late>>

\* The archive has arrived and its length and hash are right.
CreateStaging(a) ==
    /\ pc[a] = "download"
    /\ Goto(a, "extract")
    /\ staging' = [staging EXCEPT ![a] = "part"]
    /\ deleting' = Moved(a, Gone)
    /\ UNCHANGED <<begun, release, seen, pointers, versions, active, tables, history>>

\* Each entry creates the directories above it, so that an extraction outlives
\* the deletion of an empty directory; a file that is lost fails verify_payload.
ExtractAndVerify(a) ==
    /\ pc[a] = "extract"
    /\ staging[a] \in {"part", "absent"}
    /\ Goto(a, "finalize")
    /\ staging' = [staging EXCEPT ![a] = "whole"]
    /\ UNCHANGED <<begun, release, starting, versions, active, tables, history>>

DependencyMet(r) == Needs[r] = {} \/ Needs[r] \cap ActivePointers # {}

\* install_archive_inner removes the staging directory when it is done.
RemoveStaging(a) ==
    /\ staging' = [staging EXCEPT ![a] = "absent"]
    /\ deleting' = Moved(a, Gone)

\* The version is there already: the same manifest, or it is refused (InstallFails).
KeepExisting(a) ==
    LET d == Directory(release[a]) IN
    /\ pc[a] = "finalize" /\ DependencyMet(release[a])
    /\ versions[d] # None /\ versions[d].of = release[a]
    /\ Goto(a, "self_test")
    /\ RemoveStaging(a)
    /\ UNCHANGED <<begun, release, seen, pointers, versions, active, tables, history>>

\* Mutant of Finalize: a version that is there is replaced.
FinalizeOver(a) ==
    LET d == Directory(release[a]) IN
    /\ pc[a] = "finalize" /\ DependencyMet(release[a])
    /\ staging[a] # "absent"
    /\ Goto(a, "self_test")
    /\ versions' = [versions EXCEPT ![d] = [of |-> release[a], state |-> staging[a]]]
    /\ staging' = [staging EXCEPT ![a] = "absent"]
    /\ deleting' = Moved(a, d)
    /\ UNCHANGED <<begun, release, seen, pointers, active, tables, history>>

\* Mutant of Finalize: the dependency is not looked up.
FinalizeAlone(a) ==
    LET d == Directory(release[a]) IN
    /\ pc[a] = "finalize"
    /\ versions[d] = None
    /\ staging[a] # "absent"
    /\ Goto(a, "self_test")
    /\ versions' = [versions EXCEPT ![d] = [of |-> release[a], state |-> staging[a]]]
    /\ staging' = [staging EXCEPT ![a] = "absent"]
    /\ deleting' = Moved(a, d)
    /\ UNCHANGED <<begun, release, seen, pointers, active, tables, history>>

\* The staging directory becomes the version directory, and a deletion that was
\* at work in it goes on there.
Finalize(a) ==
    LET d == Directory(release[a]) IN
    /\ pc[a] = "finalize" /\ DependencyMet(release[a])
    /\ versions[d] = None
    /\ staging[a] # "absent"
    /\ Goto(a, "self_test")
    /\ versions' = [versions EXCEPT ![d] = [of |-> release[a], state |-> staging[a]]]
    /\ staging' = [staging EXCEPT ![a] = "absent"]
    /\ deleting' = Moved(a, d)
    /\ UNCHANGED <<begun, release, seen, pointers, active, tables, history>>

\* Each engine is run in a directory .self-test inside the version directory, which
\* is also where its temporary files, home and cache go (process.rs:132-149).
SelfTest(a) ==
    LET d == Directory(release[a]) IN
    /\ pc[a] = "self_test"
    /\ Goto(a, "testing")
    /\ versions' = [versions EXCEPT ![d].state = IF @ = "whole" THEN "littered" ELSE @]
    /\ late' = late \cup ({release[a]} \cap Verified)
    /\ UNCHANGED <<begun, release, staging, starting, active, tables, raced, swept>>

\* An engine that ends by itself removes its files, or leaves some; one that times
\* out, or whose program ends, leaves them all (InstallFails, Crash).
SelfTestPassed(a) ==
    LET d == Directory(release[a]) IN
    /\ pc[a] = "testing"
    /\ Goto(a, "verify")
    /\ \/ /\ versions[d].state = "littered"
          /\ versions' = [versions EXCEPT ![d].state = "whole"]
       \/ UNCHANGED versions
    /\ UNCHANGED <<begun, release, staging, starting, active, tables, history>>

\* Mutant of VerifyPayload: the self test is enough.
VerifyNothing(a) ==
    /\ pc[a] = "verify"
    /\ Goto(a, "point")
    /\ UNCHANGED <<begun, release, staging, starting, versions, active, tables, history>>

\* PackLayout::activate: verify_payload, then the pointer file.
VerifyPayload(a) ==
    /\ pc[a] = "verify"
    /\ Whole(release[a])
    /\ Goto(a, "point")
    /\ UNCHANGED <<begun, release, staging, starting, versions, active, tables, history>>

WritePointer(a) ==
    /\ pc[a] = "point"
    /\ Goto(a, "commit")
    /\ active' = [active EXCEPT ![release[a].pack] = release[a]]
    /\ raced' = IF \E b \in Apps : pc[b] = "sync" THEN raced \cup {release[a].pack} ELSE raced
    /\ UNCHANGED <<begun, release, staging, starting, versions, tables, swept, late>>

Commit(a) ==
    /\ pc[a] = "commit"
    /\ CommitPackActivation(release[a])
    /\ Goto(a, "consent")
    /\ UNCHANGED <<begun, release, staging, starting, versions, active, history>>

InstallEnds(a) ==
    /\ Goto(a, "idle")
    /\ release' = [release EXCEPT ![a] = None]

SavePackConsent(a) ==
    /\ pc[a] = "consent"
    /\ InstallEnds(a)
    /\ consent' = [consent EXCEPT ![release[a].pack] = release[a]]
    /\ UNCHANGED <<begun, staging, starting, versions, active, highWater, row, history>>

\* Every step may fail: network, disk, database, or the checks above.  What has
\* been written stays; only the staging directory goes.
InstallFails(a) ==
    /\ pc[a] \in InstallPC
    /\ InstallEnds(a)
    /\ RemoveStaging(a)
    /\ UNCHANGED <<begun, seen, pointers, versions, active, tables, history>>

-----------------------------------------------------------------------------
Starts(a) ==
    \/ \E b \in Apps : BeginDelete(a, b) \/ EntryVanished(a, b)
    \/ DeleteFile(a) \/ DeleteDirectory(a) \/ DirectoryMissing(a)
    \/ ListPointers(a)
    \/ \E r \in Releases : SyncPointer(a, r) \/ SyncFails(a, r)
    \/ Started(a)

Install(a) ==
    \/ \E r \in Releases : InstallPack(a, r)
    \/ CreateStaging(a) \/ ExtractAndVerify(a)
    \/ KeepExisting(a) \/ Finalize(a)
    \/ SelfTest(a) \/ SelfTestPassed(a) \/ VerifyPayload(a) \/ WritePointer(a)
    \/ Commit(a) \/ SavePackConsent(a)
    \/ InstallFails(a)

Next == \E a \in Apps : Start(a) \/ Crash(a) \/ Starts(a) \/ Install(a)

Spec == Init /\ [][Next]_vars

=============================================================================
