------------------------------ MODULE PackArchive ------------------------------
(***************************************************************************)
(* The way of a pack from an upstream archive to its version directory:    *)
(* fmd-packager takes an engine out of the archive (extract-tar-gz-entry,  *)
(* extract-zip-entry), the assembly scripts put a payload together,        *)
(* fmd-packager writes it to an archive (package), and the program         *)
(* downloads, extracts, verifies and places that archive (pack.rs).        *)
(*                                                                         *)
(* PackInstall follows several installs through version directories,       *)
(* pointers and tables and takes an archive as good or bad; here it is     *)
(* made, entry by entry, by the same code base that reads it.  One         *)
(* instance installs it.  Others start meanwhile, and what their starts    *)
(* delete they may delete of the version directory too, which the self     *)
(* test writes to as well.                                                 *)
(***************************************************************************)
EXTENDS Naturals, Sequences, FiniteSets

CONSTANTS
    Upstreams,  \* upstream archives: sequences of entries
    Payloads,   \* payload directories: functions from paths to what is there
    Listing,    \* the paths of all payloads in the order of their bytes
    Lower,      \* collision_key of every name a path may have
    Required,   \* the names of the metadata files a pack has to have
    MaxFiles,   \* entries of an archive the installer takes (20,000 in the code)
    MaxManifest,  \* size of a manifest it takes (4 MiB in the code), in names
    None        \* no directory

\* The directories a path goes through.
Above(path) == {SubSeq(path, 1, n) : n \in 1..(Len(path) - 1)}

\* What is at a path of a directory: a file, one the system may execute, one that
\* compresses beyond the installer's ratio or expands beyond its limit, a link, or a
\* directory with nothing in it.
Kind == {"file", "exec", "dense", "huge", "link", "dir"}

Name == {"wanted", "other", "unsafe"}
EntryKind == {"file", "dir", "link", "huge", "corrupt"}

ASSUME UpstreamsAssumption == Upstreams \subseteq Seq([name : Name, kind : EntryKind])

ASSUME LimitsAssumption == MaxFiles \in Nat /\ MaxManifest \in Nat

ASSUME ListingAssumption ==
    /\ "manifest.json" \in DOMAIN Lower
    /\ Listing \in Seq(Seq(DOMAIN Lower) \ {<<>>})
    /\ \A i, k \in DOMAIN Listing : Listing[i] = Listing[k] => i = k

\* A payload is a tree: there is nothing below what is listed at a path.
ASSUME PayloadsAssumption ==
    \A tree \in Payloads : \A path \in DOMAIN tree :
        /\ \E i \in DOMAIN Listing : Listing[i] = path
        /\ tree[path] \in Kind
        /\ path \notin UNION {Above(other) : other \in DOMAIN tree}

VARIABLES
    stage,        \* how far the build is
    format,       \* of the upstream archive
    upstream,
    next,         \* the entry the tar reader is at
    output,       \* the output file of the extraction
    payload,      \* what the assembly has put together
    insensitive,  \* whether names differ by more than their case where it is installed
    archive,      \* the paths of the entries written to the pack's archive
    pc,           \* where the program stands that installs it
    at,           \* the entry it extracts
    staging,      \* its staging directory
    version,      \* the version directory
    outcome,      \* of the latest install
    swept,        \* directories of the install that another instance's start deletes in
    leavings,     \* the version directory has temporary files of a self test
    stale,        \* staging directories of earlier installs are left
    strays        \* downloaded archives of earlier installs are left

fetch == <<format, upstream, next, output>>
build == <<payload, insensitive, archive>>
disturbed == <<swept, leavings>>
install == <<pc, at, staging, version, outcome, swept, leavings, stale, strays>>
vars == <<stage, fetch, build, install>>

Init ==
    /\ stage = "fetching"
    /\ format \in {"tar", "zip"}
    /\ upstream \in Upstreams
    /\ next = 1
    /\ output = FALSE
    /\ payload = <<>>
    /\ insensitive = FALSE
    /\ archive = <<>>
    /\ pc = "off"
    /\ at = 1
    /\ staging = None
    /\ version = None
    /\ outcome = "none"
    /\ swept = {}
    /\ leavings = FALSE
    /\ stale = FALSE /\ strays = FALSE

--------------------------------------------------------------------------------
(* Directories.  Their files are listed; what is above a file is there.     *)

FilesOf(tree) == {path \in DOMAIN tree : tree[path] # "dir"}
DirsOf(tree) ==
    UNION {Above(path) : path \in DOMAIN tree} \cup (DOMAIN tree \ FilesOf(tree))

CollisionKey(path) == [i \in DOMAIN path |-> Lower[path[i]]]

\* Two paths name the same thing in the file system of the installing machine.
Same(path, other) ==
    IF insensitive THEN CollisionKey(path) = CollisionKey(other) ELSE path = other

IsDir(tree, path) == \E dir \in DirsOf(tree) : Same(dir, path)
IsFile(tree, path) == \E file \in FilesOf(tree) : Same(file, path)

Manifest == <<"manifest.json">>
Entrypoint == <<"bin", "tool">>

--------------------------------------------------------------------------------
(* An engine is taken out of an upstream archive.                           *)

Refuses == stage' = "unfetched" /\ UNCHANGED <<next, output>>

\* What ends extract_tar_gz_entry wherever it comes in the archive: a path that leaves it,
\* and what is neither a directory nor a regular file within the limit whose data can be read.
TarRefuses(entry) == entry.name = "unsafe" \/ entry.kind \in {"link", "huge", "corrupt"}

IsWantedFile(entry) == entry.name = "wanted" /\ entry.kind = "file"

\* Mutant of TarEntry: a second entry of the wanted name is passed over.
TarFirstEntry ==
    /\ stage = "fetching" /\ format = "tar" /\ next <= Len(upstream)
    /\ LET entry == upstream[next] IN
       \/ TarRefuses(entry) /\ Refuses
       \/ /\ ~TarRefuses(entry)
          /\ next' = next + 1
          /\ output' = (output \/ IsWantedFile(entry))
          /\ UNCHANGED stage
    /\ UNCHANGED <<format, upstream, build, install>>

\* extract_tar_gz_entry reads the archive as it comes: every entry is looked at, and the
\* wanted one is written as soon as it is met.  If its data cannot be read its output is
\* removed again.
TarEntry ==
    /\ stage = "fetching" /\ format = "tar" /\ next <= Len(upstream)
    /\ LET entry == upstream[next] IN
       \/ /\ TarRefuses(entry) \/ (IsWantedFile(entry) /\ output)
          /\ Refuses
       \/ /\ ~TarRefuses(entry) /\ ~(IsWantedFile(entry) /\ output)
          /\ next' = next + 1
          /\ output' = (output \/ IsWantedFile(entry))
          /\ UNCHANGED stage
    /\ UNCHANGED <<format, upstream, build, install>>

TarEnds ==
    /\ stage = "fetching" /\ format = "tar" /\ next > Len(upstream)
    /\ stage' = IF output THEN "fetched" ELSE "unfetched"
    /\ UNCHANGED <<fetch, build, install>>

Wanted == {i \in DOMAIN upstream : upstream[i].name = "wanted"}

\* The index has one entry of the wanted name, of one of these kinds, and no path that leaves
\* the archive.
ZipHasOne(kinds) ==
    /\ \A i \in DOMAIN upstream : upstream[i].name # "unsafe"
    /\ \E i \in Wanted : Wanted = {i} /\ upstream[i].kind \in kinds

\* extract_zip_entry goes through the index before it writes anything.
ZipExtract ==
    /\ stage = "fetching" /\ format = "zip"
    /\ \/ ~ZipHasOne({"file"}) /\ Refuses
       \/ ZipHasOne({"file"}) /\ stage' = "fetched" /\ output' = TRUE /\ UNCHANGED next
    /\ UNCHANGED <<format, upstream, build, install>>

--------------------------------------------------------------------------------
(* The payload is put together and packaged.                                *)

\* A script whose extraction was refused ends; otherwise it adds what else there is.
\* The upstream archive is not read again.
AssemblePayload ==
    /\ stage = "fetched"
    /\ stage' = "assembled"
    /\ payload' \in Payloads
    /\ insensitive' \in BOOLEAN
    /\ upstream' = <<>>
    /\ next' = 1
    /\ UNCHANGED <<format, output, archive, install>>

\* describe: only what is under bin/ is executable.
Executable(path) == path[1] = "bin" /\ payload[path] = "exec"

\* Mutant of ManifestValid: paths may differ by their case alone.
EntrypointDeclared ==
    Entrypoint \in FilesOf(payload) /\ Executable(Entrypoint)

\* PackManifestV1::validate of what describe has found.
ManifestValid ==
    /\ Entrypoint \in FilesOf(payload) /\ Executable(Entrypoint)
    /\ \A file, other \in FilesOf(payload) :
          CollisionKey(file) = CollisionKey(other) => file = other

\* require_pack_metadata asks for something of that name.
HasMetadata ==
    \A name \in Required \cup {"LICENSES"} : <<name>> \in DOMAIN payload \cup DirsOf(payload)

\* collect_files, which refuses links and a file in the manifest's place.
Collected ==
    /\ \A path \in DOMAIN payload : payload[path] # "link"
    /\ Manifest \notin FilesOf(payload)

\* The files of the payload by their place in the order of the names.
Places == {i \in DOMAIN Listing : Listing[i] \in FilesOf(payload)}
UpTo(i) == Cardinality({k \in Places : k <= i})
File(n) == Listing[CHOOSE i \in Places : UpTo(i) = n]

\* The manifest first, then the files in that order; directories have no entry of their
\* own.
Entries == <<Manifest>> \o [n \in 1..Cardinality(Places) |-> File(n)]

\* package; what it has written when a write fails is left, and the script ends.
Package ==
    /\ stage = "assembled"
    /\ \/ /\ ~(Collected /\ ManifestValid /\ HasMetadata)
          /\ stage' = "unpackaged"
          /\ UNCHANGED archive
       \/ /\ Collected /\ ManifestValid /\ HasMetadata
          /\ stage' = "built"
          /\ archive' = Entries
       \/ /\ Collected /\ ManifestValid /\ HasMetadata
          /\ stage' = "unpackaged"
          /\ \E n \in 0..(Len(Entries) - 1) : archive' = SubSeq(Entries, 1, n)
    /\ UNCHANGED <<fetch, payload, insensitive, install>>

--------------------------------------------------------------------------------
(* The program installs the archive.                                        *)

\* recover_staging; nothing looks for archives in updates/pack-staging.
Start ==
    /\ pc = "off"
    /\ pc' = "up"
    /\ stale' = FALSE
    /\ UNCHANGED <<stage, fetch, build, at, staging, version, outcome, disturbed, strays>>

\* PackService::install, whose checks of metadata and marks are PackInstall's.
InstallPack ==
    /\ pc = "up" /\ stage = "built"
    /\ pc' = "downloading"
    /\ outcome' = "none"
    /\ UNCHANGED <<stage, fetch, build, at, staging, version, disturbed, stale, strays>>

\* The downloaded archive is removed, whatever the outcome and whether or not it works.
RemoveArchive == strays' \in {strays, TRUE}

\* download_artifact either gives the archive that was built or fails.
Download ==
    /\ pc = "downloading"
    /\ \/ /\ pc' = "extracting" /\ at' = 1 /\ staging' = <<>>
          /\ swept' = swept \ {"staging"}
          /\ UNCHANGED <<outcome, strays>>
       \/ /\ pc' = "up" /\ outcome' = "failed"
          /\ RemoveArchive
          /\ UNCHANGED <<at, staging, swept>>
    /\ UNCHANGED <<stage, fetch, build, version, leavings, stale>>

\* Mutant of Ends: the staging directory is removed only by what succeeds.
EndsKeeping(result) ==
    /\ pc' = "up" /\ outcome' = result /\ at' = 1
    /\ staging' = IF result = "refused" THEN staging ELSE None
    /\ RemoveArchive
    /\ UNCHANGED stale

\* install_archive_inner removes the staging directory if there is one, and does not ask
\* whether that worked.
Ends(result) ==
    /\ pc' = "up" /\ outcome' = result /\ at' = 1 /\ staging' = None
    /\ stale' \in {stale, TRUE}
    /\ RemoveArchive

\* The number of entries of the archive.
TooManyEntries == Len(archive) > MaxFiles

\* The size and the compression of the entry, and of all before it.
WithinLimits(path) == path = Manifest \/ payload[path] \notin {"dense", "huge"}

\* A name that an earlier entry had.
Collides(path) ==
    \E i \in 1..(at - 1) : CollisionKey(archive[i]) = CollisionKey(path)

\* The directories above the path cannot be created, or it is one.
Blocked(path) ==
    \/ IsDir(staging, path)
    \/ \E dir \in Above(path) : IsFile(staging, dir)

Written(path) ==
    IF path # Manifest /\ Executable(path) THEN "exec" ELSE "file"

\* How many of the directories above the path are there.
Reached(path) ==
    LET there == {n \in 1..(Len(path) - 1) : IsDir(staging, SubSeq(path, 1, n))}
    IN CHOOSE n \in there \cup {0} : \A m \in there : m <= n

\* Where the file system puts what is created at a path: the directories that are there
\* keep the spelling they were created with.
Landing(path) ==
    LET n == Reached(path)
        dir == CHOOSE d \in DirsOf(staging) : Same(d, SubSeq(path, 1, n))
    IN IF n = 0 THEN path ELSE dir \o SubSeq(path, n + 1, Len(path))

\* extract_and_verify, one entry; their number is looked at before the first.
EntryRefused(path) == TooManyEntries \/ Collides(path) \/ ~WithinLimits(path) \/ Blocked(path)

ExtractEntry ==
    /\ pc = "extracting" /\ at <= Len(archive)
    /\ LET path == archive[at] IN
       \/ EntryRefused(path) /\ Ends("refused")
       \/ /\ ~EntryRefused(path)
          /\ staging' = [file \in DOMAIN staging \cup {Landing(path)} |-> "file"]
          /\ at' = at + 1
          /\ UNCHANGED <<pc, outcome, stale, strays>>
       \/ Ends("failed")
    /\ UNCHANGED <<stage, fetch, build, version, disturbed>>

\* The manifest lists every file by the names of its path.
ManifestFits ==
    Cardinality(UNION {{path} \X DOMAIN path : path \in FilesOf(payload)}) <= MaxManifest

\* verify_payload: the files there are those the manifest declares.  Their contents are
\* those of the archive, whose hash was compared.
Declared(tree) == FilesOf(tree) \ {Manifest} = FilesOf(payload)

\* The manifest, what else a pack has to have, and verify_payload.
PackVerified ==
    /\ IsFile(staging, Manifest) /\ ManifestFits
    /\ IsDir(staging, <<"LICENSES">>)
    /\ \A name \in Required : IsFile(staging, <<name>>)
    /\ Declared(staging)

\* Mutant of WithPermissions: what is under bin/ is made executable.
WithBinExecutable ==
    [path \in DOMAIN staging |-> IF path[1] = "bin" THEN "exec" ELSE "file"]

\* apply_manifest_permissions.
WithPermissions == [path \in DOMAIN staging |-> Written(path)]

VerifyStaging ==
    /\ pc = "extracting" /\ at > Len(archive)
    /\ \/ /\ PackVerified
          /\ pc' = "placing"
          /\ staging' = WithPermissions
          /\ UNCHANGED <<at, outcome, stale, strays>>
       \/ ~PackVerified /\ Ends("refused")
       \/ Ends("failed")
    /\ UNCHANGED <<stage, fetch, build, version, disturbed>>

\* install_staged is through, and the archive removed before the self test.
Placed ==
    /\ pc' = "testing" /\ at' = 1 /\ staging' = None
    /\ RemoveArchive
    /\ UNCHANGED <<outcome, leavings>>

\* install_staged: a version that exists is kept, as it has the same manifest; otherwise
\* the staging directory becomes the version directory, and a deletion at work in the one
\* goes on in the other.
PlaceVersion ==
    /\ pc = "placing"
    /\ \/ /\ version # None /\ Manifest \in DOMAIN version
          /\ Placed
          /\ stale' \in {stale, TRUE}
          /\ UNCHANGED <<version, swept>>
       \/ /\ version = None
          /\ version' = staging
          /\ Placed
          /\ swept' = IF "staging" \in swept THEN {"version"} ELSE {}
          /\ UNCHANGED stale
       \/ Ends("failed") /\ UNCHANGED <<version, disturbed>>
    /\ UNCHANGED <<stage, fetch, build>>

\* PackService::install: each engine is run in a directory of the version directory, where
\* its temporary files may stay; then activate verifies it once more.
TestVersion ==
    /\ pc = "testing"
    /\ pc' = "up"
    /\ leavings' \in {leavings, TRUE}
    /\ \/ /\ Declared(version) /\ Manifest \in DOMAIN version /\ ~leavings'
          /\ outcome' = "installed"
       \/ outcome' = "failed"
    /\ UNCHANGED <<stage, fetch, build, at, staging, version, swept, stale, strays>>

\* The program ends, in the middle of an install or not.
Stop ==
    /\ pc # "off"
    /\ pc' = "off" /\ at' = 1 /\ staging' = None /\ outcome' = "none"
    /\ leavings' \in IF pc = "testing" THEN {leavings, TRUE} ELSE {leavings}
    /\ stale' = (stale \/ staging # None)
    /\ strays' = (strays \/ pc \notin {"up", "testing"})
    /\ UNCHANGED <<stage, fetch, build, version, swept>>

\* recover_staging of another instance finds the staging directory.
AnotherStarts ==
    /\ staging # None
    /\ swept' = swept \cup {"staging"}
    /\ UNCHANGED <<stage, fetch, build, pc, at, staging, version, outcome, leavings, stale,
                   strays>>

Without(tree, file) == [path \in DOMAIN tree \ {file} |-> tree[path]]

\* remove_dir_all deletes file by file, and a directory with the last of its files.
AnotherDeletes ==
    /\ \/ /\ "staging" \in swept /\ staging # None
          /\ \E file \in DOMAIN staging : staging' = Without(staging, file)
          /\ UNCHANGED version
       \/ /\ "version" \in swept /\ version # None
          /\ \E file \in DOMAIN version : version' = Without(version, file)
          /\ UNCHANGED staging
    /\ UNCHANGED <<stage, fetch, build, pc, at, outcome, disturbed, stale, strays>>

Build == TarEntry \/ TarEnds \/ ZipExtract \/ AssemblePayload \/ Package
Program ==
    Start \/ InstallPack \/ Download \/ ExtractEntry \/ VerifyStaging \/ PlaceVersion
        \/ TestVersion \/ Stop
Another == AnotherStarts \/ AnotherDeletes

Next == Build \/ Program \/ Another

Spec == Init /\ [][Next]_vars

================================================================================
