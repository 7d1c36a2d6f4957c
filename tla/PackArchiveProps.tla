---------------------------- MODULE PackArchiveProps ----------------------------
(* What the way of a pack from an upstream archive to its directory promises. *)
EXTENDS PackArchive

Paths == {Listing[i] : i \in DOMAIN Listing} \cup {Manifest}

\* A directory with what has been planned for it.
Tree(tree) == DOMAIN tree \subseteq Paths /\ \A path \in DOMAIN tree : tree[path] \in Kind

\* One that is being filled: its file system may spell a path in its own way.
Filling(tree) == \A path \in DOMAIN tree : path \in Seq(DOMAIN Lower) /\ tree[path] = "file"

\* The types of the variables; a staging directory is there while one is worked on.
TypeOK ==
    /\ stage \in {"fetching", "fetched", "assembled", "built",
                 "unfetched", "unpackaged"}
    /\ format \in {"tar", "zip"}
    /\ upstream \in Seq([name : Name, kind : EntryKind])
    /\ next \in 1..(Len(upstream) + 1)
    /\ output \in BOOLEAN
    /\ Tree(payload)
    /\ insensitive \in BOOLEAN
    /\ archive \in Seq(Paths)
    /\ pc \in {"off", "up", "downloading", "extracting", "placing", "testing"}
    /\ at \in 1..(Len(archive) + 1)
    /\ pc = "extracting" => Filling(staging)
    /\ pc = "placing" => Tree(staging)
    /\ pc \notin {"extracting", "placing"} => staging = None
    /\ version # None => Tree(version)
    /\ outcome \in {"none", "installed", "refused", "failed"}
    /\ swept \subseteq {"staging", "version"}
    /\ leavings \in BOOLEAN
    /\ stale \in BOOLEAN
    /\ strays \in BOOLEAN

\* The tar reader met what it refuses after it had written the wanted entry; the zip reader
\* would have seen it before (main.rs:49-85).
RefusedLate ==
    /\ format = "tar"
    /\ \E i \in 1..(next - 1) : IsWantedFile(upstream[i])

\* The engine a pack is built with is the only regular file of its name in an archive none
\* of whose paths leaves it, whichever of the two readers took it out; and an extraction
\* that is refused leaves no output, as the tests of both readers expect (main.rs:369,
\* :426), unless what is wrong comes after the wanted entry of a tar archive.
FetchedIsTheOne ==
    /\ stage = "fetched" =>
           /\ \A i \in DOMAIN upstream : upstream[i].name # "unsafe"
           /\ \E i \in Wanted : /\ upstream[i].kind = "file"
                                /\ \A k \in Wanted \ {i} : upstream[k].kind = "dir"
    /\ stage = "unfetched" /\ output => RefusedLate

\* A directory has the files of the payload and the manifest, each as executable as there.
AsBuilt(tree) ==
    /\ FilesOf(tree) = DOMAIN tree
    /\ DOMAIN tree = FilesOf(payload) \cup {Manifest}
    /\ \A path \in FilesOf(payload) : tree[path] = "exec" <=> Executable(path)

\* A version directory has the files of the payload the pack was built from and the
\* manifest, each as executable as it was there, at whichever step earlier installs failed
\* and the program ended; empty directories are not part of a pack.  Two things disturb it:
\* the start of another instance that was deleting in the staging directory when that was
\* renamed (pack.rs:664-687), and the temporary files of self tests (adapter.rs:354), with
\* which no install succeeds, neither this one nor a later one that keeps the directory.
InstalledAsBuilt ==
    /\ version # None /\ "version" \notin swept => AsBuilt(version)
    /\ leavings => outcome # "installed"

\* The packager asks for something called LICENSES, the installer for a directory that
\* survives in the archive, which has no entries for directories (main.rs:298, pack.rs:987).
NoLicenseFile == \A path \in FilesOf(payload) : path[1] = "LICENSES" => Len(path) = 1

\* The same for the other metadata, which have to be files (pack.rs:988-990).
MetadataIsNoFile == \E name \in Required : <<name>> \notin FilesOf(payload)

\* The packager refuses a file called manifest.json in the manifest's place, but neither one
\* whose name differs in case nor, where case makes no difference, a directory of that name,
\* nor a directory called manifest.json anywhere (main.rs:223).
ClashesWithManifest ==
    \E path \in FilesOf(payload) :
        \/ CollisionKey(path) = CollisionKey(Manifest)
        \/ \E dir \in Above(path) : Same(dir, Manifest)

\* The packager knows no limits of size or compression (pack.rs:940-954).
BeyondLimits == \E path \in FilesOf(payload) : payload[path] \in {"dense", "huge"}

\* The manifest compares the paths of files without their case, but not the directories
\* above them: two spellings of a directory, or one and a file, become one name where case
\* makes no difference (engine.rs:241, pack.rs:935).
DirectorySpelledTwice ==
    \E file \in FilesOf(payload) : \E dir \in Above(file) :
        \E path \in FilesOf(payload) \cup UNION {Above(other) : other \in FilesOf(payload)} :
            dir # path /\ Same(dir, path)

\* Nor does it know limits of the number of files (pack.rs:917) and of the manifest, which
\* lists them all (pack.rs:982).
TooManyFiles == Len(Entries) > MaxFiles
ManifestTooLarge == ~ManifestFits

NotInstallable ==
    \/ NoLicenseFile \/ MetadataIsNoFile
    \/ BeyondLimits \/ TooManyFiles \/ ManifestTooLarge
    \/ ClashesWithManifest \/ DirectorySpelledTwice

\* What the packager accepts, extract_and_verify accepts, both being written to agree on
\* PackManifestV1, but for seven kinds of payload; or the start of another instance has
\* found the staging directory.
InstallableAsBuilt ==
    outcome = "refused" => NotInstallable \/ "staging" \in swept

================================================================================
