--------------------------- MODULE PackArchiveProofs ---------------------------
(***************************************************************************)
(* Proofs about the way of a pack to its version directory, for any set of *)
(* upstream archives of any length, any payloads that are trees, and any   *)
(* mapping of names to what a file system without case makes of them.      *)
(***************************************************************************)
EXTENDS PackArchiveProps, FiniteSetTheorems, SequenceTheorems, TLAPS

--------------------------------------------------------------------------------
(* The least and the largest of some numbers.                               *)

\* The initial segments of the numbers are finite sets, ordered by inclusion.
LEMMA LeastNumber ==
    ASSUME NEW S \in SUBSET Nat, S # {}
    PROVE  \E n \in S : \A m \in S : n <= m
<1> DEFINE R == StrictSubsetOrdering(Nat)
           T == {0..n : n \in S}
<1>1. \A n \in Nat : 0..n \in FiniteSubsetsOf(Nat)
    BY FS_Interval DEF FiniteSubsetsOf
<1>2. T \subseteq FiniteSubsetsOf(Nat) /\ T # {}
    BY <1>1
<1>3. IsWellFoundedOn(R, FiniteSubsetsOf(Nat))
    BY FS_StrictSubsetOrderingWellFounded
<1>4. PICK t \in T : \A u \in T : <<u, t>> \notin R
    <2> HIDE DEF R, T
    <2> QED
        BY <1>2, <1>3, WFMin
<1>5. PICK n \in S : t = 0..n
    OBVIOUS
<1>6. ASSUME NEW m \in S, m < n
      PROVE  FALSE
    <2>1. 0..m \in T /\ <<0..m, 0..n>> \notin R
        BY <1>4, <1>5
    <2>2. 0..m \subseteq 0..n /\ n \in 0..n /\ n \notin 0..m
        BY <1>6
    <2>3. QED
        BY <2>1, <2>2 DEF StrictSubsetOrdering
<1>7. QED
    BY <1>6

\* Counted from a bound downwards.
LEMMA LargestNumber ==
    ASSUME NEW L \in Nat, NEW S \in SUBSET (0..L), S # {}
    PROVE  \E n \in S : \A m \in S : m <= n
<1> DEFINE T == {k \in 0..L : L - k \in S}
<1>1. \A n \in S : L - n \in T
    OBVIOUS
<1>2. PICK k \in T : \A l \in T : k <= l
    <2>1. T \in SUBSET Nat
        OBVIOUS
    <2>2. PICK n \in S : TRUE
        OBVIOUS
    <2>3. T # {}
        BY <1>1, <2>2
    <2>4. QED
        BY <2>1, <2>3, LeastNumber
<1>3. ASSUME NEW m \in S
      PROVE  m <= L - k
    <2>1. L - m \in T /\ m \in 0..L /\ k \in 0..L
        BY <1>1
    <2>2. k <= L - m
        BY <1>2, <2>1
    <2>3. QED
        BY <2>1, <2>2
<1>4. QED
    BY <1>3

--------------------------------------------------------------------------------
(* Paths, and how many of the places of a list there are up to one.         *)

\* What every payload is, the empty one before the assembly included.
Planned ==
    \A path \in DOMAIN payload :
        /\ \E i \in DOMAIN Listing : Listing[i] = path
        /\ payload[path] \in Kind
        /\ path \notin UNION {Above(other) : other \in DOMAIN payload}

LEMMA PathsAreSequences == Paths \subseteq Seq(DOMAIN Lower) \ {<<>>}
<1>1. \A i \in DOMAIN Listing : Listing[i] \in Seq(DOMAIN Lower) \ {<<>>}
    BY ListingAssumption
<1>2. Manifest \in Seq(DOMAIN Lower) /\ Manifest # <<>>
    BY ListingAssumption DEF Manifest
<1>3. QED
    BY <1>1, <1>2 DEF Paths

LEMMA FilesArePaths ==
    ASSUME Planned
    PROVE  FilesOf(payload) \subseteq Paths
BY DEF Planned, FilesOf, Paths

LEMMA NothingAboveManifest == Above(Manifest) = {}
BY DEF Above, Manifest

LEMMA SameIsEquivalence ==
    /\ \A path : Same(path, path)
    /\ \A path, other : Same(path, other) => Same(other, path)
BY DEF Same

\* Every number up to that of the places is the number of those up to one of them.
LEMMA PlacesAreCounted ==
    /\ Cardinality(Places) \in Nat
    /\ \A n \in 1..Cardinality(Places) : \E i \in Places : UpTo(i) = n
    /\ \A i \in Places : UpTo(i) \in 1..Cardinality(Places)
    /\ \A i, k \in Places : UpTo(i) = UpTo(k) => i = k
<1> DEFINE upTo(i) == {k \in Places : k <= i}
<1>1. Places \subseteq 1..Len(Listing) /\ Len(Listing) \in Nat
    <2>1. DOMAIN Listing = 1..Len(Listing) /\ Len(Listing) \in Nat
        BY ListingAssumption
    <2>2. QED
        BY <2>1 DEF Places
<1>2. IsFiniteSet(Places)
    <2>1. IsFiniteSet(1..Len(Listing)) /\ Places \in SUBSET (1..Len(Listing))
        BY <1>1, FS_Interval
    <2>2. QED
        BY <2>1, FS_Subset
<1>3. Cardinality(Places) \in Nat
    BY <1>2, FS_CardinalityType
<1>4. ASSUME NEW i \in Places
      PROVE  IsFiniteSet(upTo(i)) /\ UpTo(i) \in 1..Cardinality(Places)
    <2>1. upTo(i) \in SUBSET Places /\ i \in upTo(i)
        BY <1>1, <1>4
    <2>2. /\ IsFiniteSet(upTo(i))
          /\ Cardinality(upTo(i)) \in Nat
          /\ Cardinality(upTo(i)) <= Cardinality(Places)
        BY <2>1, <1>2, FS_Subset, FS_CardinalityType
    <2>3. Cardinality(upTo(i)) # 0
        BY <2>1, <2>2, FS_EmptySet
    <2>4. QED
        BY <2>2, <2>3, <1>3 DEF UpTo
<1>5. ASSUME NEW i \in Places, NEW k \in Places, i < k
      PROVE  UpTo(i) # UpTo(k)
    <2>1. upTo(i) \in SUBSET upTo(k) /\ k \in upTo(k) \ upTo(i)
        <3>1. i \in Int /\ k \in Int /\ \A p \in Places : p \in Int
            BY <1>1
        <3>2. \A p \in Places : p <= i => p <= k
            BY <1>5, <3>1
        <3>3. k <= k /\ ~(k <= i)
            BY <1>5, <3>1
        <3>4. QED
            BY <3>2, <3>3
    <2>2. Cardinality(upTo(i)) # Cardinality(upTo(k))
        BY <2>1, <1>4, FS_Subset
    <2>3. QED
        BY <2>2 DEF UpTo
<1>6. \A i, k \in Places : UpTo(i) = UpTo(k) => i = k
    BY <1>1, <1>5
<1>7. DEFINE count == [i \in Places |-> UpTo(i)]
<1>8. count \in Injection(Places, 1..Cardinality(Places))
    BY <1>4, <1>6 DEF Injection, IsInjective
<1>9. count \in Surjection(Places, 1..Cardinality(Places))
    BY <1>8, <1>3, FS_Interval, FS_Injection
<1>10. \A n \in 1..Cardinality(Places) : \E i \in Places : UpTo(i) = n
    BY <1>9 DEF Surjection
<1>11. QED
    BY <1>3, <1>4, <1>6, <1>10

\* The archive of a payload starts with the manifest and has every file once.
LEMMA EntriesOfPayload ==
    ASSUME Planned
    PROVE  /\ Entries \in Seq(Paths)
           /\ Len(Entries) >= 1 /\ Entries[1] = Manifest
           /\ \A i \in 2..Len(Entries) : Entries[i] \in FilesOf(payload)
           /\ \A file \in FilesOf(payload) : \E i \in 2..Len(Entries) : Entries[i] = file
           /\ \A i, k \in 2..Len(Entries) : Entries[i] = Entries[k] => i = k
<1> DEFINE count == Cardinality(Places)
           files == [n \in 1..count |-> File(n)]
           place(n) == CHOOSE i \in Places : UpTo(i) = n
<1>1. count \in Nat
    BY PlacesAreCounted
<1>2. \A n \in 1..count : place(n) \in Places /\ UpTo(place(n)) = n /\ File(n) = Listing[place(n)]
    BY PlacesAreCounted DEF File
<1>3. files \in Seq(Paths)
    <2>1. \A n \in 1..count : File(n) \in Paths
        BY <1>2, FilesArePaths DEF Places
    <2>2. QED
        BY <1>1, <2>1
<1>4. Manifest \in Paths
    BY DEF Paths
<1>5. /\ Entries \in Seq(Paths) /\ Len(Entries) = 1 + count
      /\ Entries[1] = Manifest
      /\ \A i \in 2..Len(Entries) : Entries[i] = File(i - 1)
    <2>1. <<Manifest>> \in Seq(Paths) /\ Len(<<Manifest>>) = 1 /\ Len(files) = count
        BY <1>1, <1>3, <1>4
    <2>2. Entries = <<Manifest>> \o files
        BY DEF Entries
    <2>3. QED
        BY <1>1, <1>3, <2>1, <2>2
<1>6. \A i \in 2..Len(Entries) : i - 1 \in 1..count
    BY <1>1, <1>5
<1>7. \A i \in 2..Len(Entries) : Entries[i] \in FilesOf(payload)
    BY <1>2, <1>5, <1>6 DEF Places
<1>8. ASSUME NEW file \in FilesOf(payload)
      PROVE  \E i \in 2..Len(Entries) : Entries[i] = file
    <2>1. PICK p \in Places : Listing[p] = file
        BY <1>8 DEF Planned, FilesOf, Places
    <2>2. UpTo(p) \in 1..count /\ place(UpTo(p)) = p
        BY <1>2, PlacesAreCounted
    <2>3. UpTo(p) + 1 \in 2..Len(Entries) /\ Entries[UpTo(p) + 1] = File(UpTo(p))
        BY <1>1, <1>5, <2>2
    <2>4. QED
        BY <1>2, <2>1, <2>2, <2>3
<1>9. ASSUME NEW i \in 2..Len(Entries), NEW k \in 2..Len(Entries), Entries[i] = Entries[k]
      PROVE  i = k
    <2>1. Listing[place(i - 1)] = Listing[place(k - 1)]
        BY <1>2, <1>5, <1>6, <1>9
    <2>2. place(i - 1) = place(k - 1)
        BY <1>2, <1>6, <2>1, ListingAssumption DEF Places
    <2>3. i - 1 = k - 1
        BY <1>2, <1>6, <2>2
    <2>4. QED
        BY <1>1, <1>5, <2>3
<1>10. QED
    BY <1>1, <1>5, <1>7, <1>8, <1>9

--------------------------------------------------------------------------------
(* What the file system makes of a path.                                    *)

\* A file that is created lands at its path or at another spelling of it.
LEMMA LandingIsPath ==
    ASSUME Filling(staging), NEW path \in Paths
    PROVE  /\ Landing(path) \in Seq(DOMAIN Lower)
           /\ \/ Landing(path) = path
              \/ \E file \in DOMAIN staging : \E d \in Above(file), p \in Above(path) :
                     d # p /\ Same(d, p)
<1> DEFINE there == {n \in 1..(Len(path) - 1) : IsDir(staging, SubSeq(path, 1, n))}
           n == Reached(path)
           prefix == SubSeq(path, 1, n)
           dir == CHOOSE d \in DirsOf(staging) : Same(d, prefix)
<1>1. path \in Seq(DOMAIN Lower) /\ Len(path) \in Nat \ {0}
    <2>1. path \in Seq(DOMAIN Lower) /\ path # <<>>
        BY PathsAreSequences
    <2>2. QED
        BY <2>1
<1>2. n \in there \cup {0}
    <2>1. there \cup {0} \in SUBSET (0..Len(path)) /\ there \cup {0} # {}
        BY <1>1
    <2>2. PICK top \in there \cup {0} : \A m \in there \cup {0} : m <= top
        BY <1>1, <2>1, LargestNumber
    <2>3. QED
        BY <2>2 DEF Reached
<1>3. CASE n = 0
    BY <1>1, <1>3 DEF Landing
<1>4. CASE n \in there
    <2>1. n \in 1..(Len(path) - 1) /\ prefix \in Above(path)
        BY <1>4 DEF Above
    <2>2. dir \in DirsOf(staging) /\ Same(dir, prefix)
        BY <1>4 DEF IsDir
    <2>3. DirsOf(staging) = UNION {Above(file) : file \in DOMAIN staging}
        BY DEF DirsOf, FilesOf, Filling
    <2>4. PICK file \in DOMAIN staging : dir \in Above(file)
        BY <2>2, <2>3
    <2>5. dir \in Seq(DOMAIN Lower)
        <3>1. file \in Seq(DOMAIN Lower)
            BY DEF Filling
        <3>2. PICK m \in 1..(Len(file) - 1) : dir = SubSeq(file, 1, m)
            BY <2>4 DEF Above
        <3>3. m \in Int /\ \A i \in 1..m : file[i] \in DOMAIN Lower
            BY <3>1, <3>2
        <3>4. SubSeq(file, 1, m) \in Seq(DOMAIN Lower)
            BY <3>3, 1 \in Int, SubSeqProperties, Zenon
        <3>5. QED
            BY <3>2, <3>4
    <2>6. Landing(path) = dir \o SubSeq(path, n + 1, Len(path))
        <3>1. n # 0
            BY <2>1
        <3>2. QED
            BY <3>1, Zenon DEF Landing
    <2>7. Landing(path) \in Seq(DOMAIN Lower)
        BY <1>1, <2>1, <2>5, <2>6
    <2>8. CASE dir = prefix
        <3>1. n \in (1 - 1)..Len(path) /\ Len(path) \in n..Len(path) /\ 1 \in 1..(Len(path) + 1)
            BY <1>1, <2>1
        <3> HIDE DEF n
        <3>2. SubSeq(path, 1, n) \o SubSeq(path, n + 1, Len(path)) = SubSeq(path, 1, Len(path))
            BY <1>1, <3>1, ConcatAdjacentSubSeq, Zenon
        <3>3. prefix \o SubSeq(path, n + 1, Len(path)) = path
            BY <1>1, <3>2, SubSeqFull
        <3>4. QED
            BY <2>6, <2>7, <2>8, <3>3
    <2>9. CASE dir # prefix
        BY <2>1, <2>2, <2>4, <2>7, <2>9
    <2>10. QED
        BY <2>8, <2>9
<1>5. QED
    BY <1>2, <1>3, <1>4

--------------------------------------------------------------------------------
(* The inductive invariant.                                                 *)

\* Of the entries the tar reader has passed none is one it refuses, and the output is there
\* once it has met the only wanted one; the zip reader has not begun.
FetchState ==
    stage = "fetching" =>
        \/ /\ format = "tar"
           /\ \A i \in 1..(next - 1) : ~TarRefuses(upstream[i])
           /\ output <=> \E i \in 1..(next - 1) : IsWantedFile(upstream[i])
           /\ \A i, k \in 1..(next - 1) :
                 IsWantedFile(upstream[i]) /\ IsWantedFile(upstream[k]) => i = k
        \/ format = "zip" /\ next = 1 /\ output = FALSE

\* An archive that is built is that of a payload the packager has accepted, and nothing is
\* installed before.
BuildState ==
    /\ stage = "built" => archive = Entries /\ Collected /\ ManifestValid /\ HasMetadata
    /\ stage \notin {"built", "unpackaged"} => archive = <<>>
    /\ pc \notin {"off", "up"} \/ version # None \/ outcome # "none" => stage = "built"
    /\ pc \notin {"off", "up"} => outcome = "none"
    /\ pc \notin {"extracting", "placing"} => at = 1

\* The staging directory has what has been extracted, each file at its path unless two
\* directories fall together; once it is verified it is as the payload was.  All this holds
\* as long as no other instance's start has found it.
StagingState ==
    /\ pc = "extracting" /\ "staging" \notin swept =>
           /\ at > 1 => Manifest \in DOMAIN staging
           /\ ~DirectorySpelledTwice => DOMAIN staging = {archive[i] : i \in 1..(at - 1)}
    /\ pc = "placing" /\ "staging" \notin swept => AsBuilt(staging)

IInv ==
    /\ TypeOK
    /\ Planned
    /\ FetchState
    /\ BuildState
    /\ StagingState
    /\ FetchedIsTheOne
    /\ InstalledAsBuilt
    /\ InstallableAsBuilt

\* What is extracted is the archive of an accepted payload.
LEMMA ExtractedArchive ==
    ASSUME Planned, BuildState, pc = "extracting"
    PROVE  /\ archive \in Seq(Paths)
           /\ Len(archive) \in Nat /\ Len(archive) >= 1 /\ archive[1] = Manifest
           /\ \A i \in 2..Len(archive) : archive[i] \in FilesOf(payload)
           /\ \A file \in FilesOf(payload) : \E i \in 2..Len(archive) : archive[i] = file
           /\ \A i, k \in 2..Len(archive) : archive[i] = archive[k] => i = k
           /\ Collected /\ ManifestValid /\ HasMetadata
<1>1. archive = Entries /\ Collected /\ ManifestValid /\ HasMetadata
    BY DEF BuildState
<1>2. Len(Entries) \in Nat
    BY EntriesOfPayload
<1>3. QED
    BY <1>1, <1>2, EntriesOfPayload

\* Where no two directories fall together every entry lands at its path; the manifest
\* always does.
LEMMA EntryLandsAtPath ==
    ASSUME TypeOK, Planned, BuildState, StagingState,
           pc = "extracting", at <= Len(archive),
           at = 1 \/ (~DirectorySpelledTwice /\ "staging" \notin swept)
    PROVE  Landing(archive[at]) = archive[at]
<1> DEFINE path == archive[at]
<1>1. Filling(staging) /\ at \in 1..Len(archive) /\ path \in Paths
    <2>1. at \in 1..Len(archive)
        BY ExtractedArchive DEF TypeOK
    <2>2. QED
        BY <2>1, ExtractedArchive DEF TypeOK
<1>2. SUFFICES ASSUME NEW file \in DOMAIN staging, NEW d \in Above(file),
                      NEW p \in Above(path), d # p, Same(d, p)
               PROVE  FALSE
    BY <1>1, LandingIsPath
<1>3. path # Manifest
    BY NothingAboveManifest
<1>4. /\ at # 1 /\ path \in FilesOf(payload)
      /\ ~DirectorySpelledTwice /\ "staging" \notin swept
    BY <1>1, <1>3, ExtractedArchive
<1>5. PICK i \in 1..(at - 1) : file = archive[i]
    BY <1>4 DEF StagingState
<1>6. file \in FilesOf(payload)
    <2>1. i = 1 \/ i \in 2..Len(archive)
        BY <1>1, <1>5, ExtractedArchive
    <2>2. QED
        BY <1>2, <1>5, <2>1, ExtractedArchive, NothingAboveManifest
<1>7. DirectorySpelledTwice
    BY <1>2, <1>4, <1>6 DEF DirectorySpelledTwice
<1>8. QED
    BY <1>4, <1>7

\* No entry is refused of an archive whose payload is none of the known seven kinds.
LEMMA EntryIsTaken ==
    ASSUME TypeOK, Planned, BuildState, StagingState, ~NotInstallable,
           pc = "extracting", at <= Len(archive), "staging" \notin swept
    PROVE  ~EntryRefused(archive[at])
<1> DEFINE path == archive[at]
           F == FilesOf(payload)
<1>1. at \in 1..Len(archive)
    BY ExtractedArchive DEF TypeOK
<1>2. \/ path = Manifest /\ at = 1
      \/ path \in F /\ at \in 2..Len(archive)
    <2>1. at = 1 \/ at \in 2..Len(archive)
        BY <1>1, ExtractedArchive
    <2>2. QED
        BY <2>1, ExtractedArchive
<1>3. ASSUME NEW i \in 1..(at - 1)
      PROVE  /\ path \in F
             /\ \/ archive[i] = Manifest
                \/ archive[i] \in F /\ i \in 2..Len(archive)
    <2>1. at # 1 /\ (i = 1 \/ i \in 2..Len(archive))
        BY <1>1, ExtractedArchive
    <2>2. path \in F
        BY <1>2, <2>1
    <2>3. QED
        BY <2>1, <2>2, ExtractedArchive
<1>4. ASSUME NEW file \in DOMAIN staging
      PROVE  path \in F /\ file \in F \cup {Manifest}
    <2>1. PICK i \in 1..(at - 1) : file = archive[i]
        BY DEF StagingState, NotInstallable
    <2>2. QED
        BY <1>3, <2>1
<1>5. \A file, other \in F : \A dir \in Above(file) : ~Same(dir, other)
    <2>1. SUFFICES ASSUME NEW file \in F, NEW other \in F, NEW dir \in Above(file),
                          Same(dir, other)
                   PROVE  FALSE
        OBVIOUS
    <2>2. dir # other
        BY DEF Planned, FilesOf
    <2>3. QED
        BY <2>1, <2>2 DEF NotInstallable, DirectorySpelledTwice
<1>6. ~Collides(path)
    <2>1. SUFFICES ASSUME NEW i \in 1..(at - 1), CollisionKey(archive[i]) = CollisionKey(path)
                   PROVE  FALSE
        BY DEF Collides
    <2>2. archive[i] # Manifest
        BY <1>3, <2>1 DEF NotInstallable, ClashesWithManifest
    <2>3. archive[i] = path
        BY <1>3, <2>1, <2>2, ExtractedArchive DEF ManifestValid
    <2>4. i = at
        BY <1>1, <1>3, <2>2, <2>3, ExtractedArchive
    <2>5. QED
        BY <1>1, <2>4
<1>7. WithinLimits(path)
    BY <1>2 DEF WithinLimits, NotInstallable, BeyondLimits
<1>8. ~IsDir(staging, path)
    <2>1. SUFFICES ASSUME NEW dir \in DirsOf(staging), Same(dir, path)
                   PROVE  FALSE
        BY DEF IsDir
    <2>2. PICK file \in DOMAIN staging : dir \in Above(file)
        BY DEF DirsOf, FilesOf, TypeOK, Filling
    <2>3. file \in F /\ path \in F
        BY <1>4, <2>2, NothingAboveManifest
    <2>4. QED
        BY <1>5, <2>1, <2>2, <2>3
<1>9. \A dir \in Above(path) : ~IsFile(staging, dir)
    <2>1. SUFFICES ASSUME NEW dir \in Above(path), NEW file \in FilesOf(staging), Same(file, dir)
                   PROVE  FALSE
        BY DEF IsFile
    <2>2. path \in F /\ file \in F \cup {Manifest} /\ Same(dir, file)
        BY <1>4, <2>1, SameIsEquivalence DEF FilesOf
    <2>3. file # Manifest
        BY <2>2 DEF NotInstallable, ClashesWithManifest
    <2>4. QED
        BY <1>5, <2>2, <2>3
<1>10. ~TooManyEntries
    <2>1. archive = Entries /\ ~(Len(Entries) > MaxFiles)
        BY DEF BuildState, NotInstallable, TooManyFiles
    <2>2. QED
        BY <2>1 DEF TooManyEntries
<1>11. QED
    BY <1>6, <1>7, <1>8, <1>9, <1>10 DEF Blocked, EntryRefused

\* A staging directory that is complete is that of a pack, with the same exceptions.
LEMMA CompleteIsVerified ==
    ASSUME TypeOK, Planned, BuildState, StagingState, ~NotInstallable,
           pc = "extracting", at > Len(archive), "staging" \notin swept
    PROVE  PackVerified
<1> DEFINE F == FilesOf(payload)
<1>1. DOMAIN staging = F \cup {Manifest} /\ FilesOf(staging) = DOMAIN staging
    <2>1. at - 1 = Len(archive)
        BY ExtractedArchive DEF TypeOK
    <2>2. DOMAIN staging = {archive[i] : i \in 1..Len(archive)}
        BY <2>1 DEF StagingState, NotInstallable
    <2>3. \A i \in 1..Len(archive) : i = 1 \/ i \in 2..Len(archive)
        BY ExtractedArchive
    <2>4. 1 \in 1..Len(archive) /\ 2..Len(archive) \subseteq 1..Len(archive)
        BY ExtractedArchive
    <2>5. DOMAIN staging = F \cup {Manifest}
        BY <2>2, <2>3, <2>4, ExtractedArchive
    <2>6. QED
        BY <2>5 DEF FilesOf, TypeOK, Filling
<1>2. Declared(staging)
    BY <1>1, ExtractedArchive DEF Collected, Declared
<1>3. \A name \in Required : IsFile(staging, <<name>>)
    BY <1>1, SameIsEquivalence DEF IsFile, NotInstallable, MetadataIsNoFile
<1>4. IsDir(staging, <<"LICENSES">>)
    <2>1. PICK path \in F : path[1] = "LICENSES" /\ Len(path) # 1
        BY DEF NotInstallable, NoLicenseFile
    <2>2. path \in Seq(DOMAIN Lower) /\ path # <<>>
        BY <2>1, FilesArePaths, PathsAreSequences
    <2>3. Len(path) \in Nat /\ Len(path) >= 2 /\ 1 \in 1..(Len(path) - 1)
        <3>1. Len(path) \in Nat \ {0}
            BY <2>2, EmptySeq
        <3>2. Len(path) # 1
            BY <2>1
        <3>3. \A l \in Nat \ {0} : l # 1 => l >= 2 /\ 1 \in 1..(l - 1)
            OBVIOUS
        <3>4. QED
            BY <3>1, <3>2, <3>3
    <2>4. SubSeq(path, 1, 1) = <<path[1]>>
        <3>1. 1 \in Int /\ path[1] \in DOMAIN Lower
            BY <2>2, <2>3
        <3>2. /\ SubSeq(path, 1, 1) \in Seq(DOMAIN Lower)
              /\ Len(SubSeq(path, 1, 1)) = 1
              /\ SubSeq(path, 1, 1)[1] = path[1]
            <4>1. \A i \in 1..1 : path[i] \in DOMAIN Lower
                BY <3>1
            <4>2. QED
                BY <3>1, <4>1, SubSeqProperties
        <3>3. <<path[1]>> \in Seq(DOMAIN Lower) /\ Len(<<path[1]>>) = 1 /\ <<path[1]>>[1] = path[1]
            BY <3>1
        <3>4. \A i \in 1..1 : SubSeq(path, 1, 1)[i] = <<path[1]>>[i]
            BY <3>2, <3>3
        <3>5. QED
            BY <3>2, <3>3, <3>4, SeqEqual, Zenon
    <2>5. <<"LICENSES">> \in Above(path)
        BY <2>1, <2>3, <2>4 DEF Above
    <2>6. <<"LICENSES">> \in DirsOf(staging)
        BY <1>1, <2>1, <2>5 DEF DirsOf
    <2>7. QED
        BY <2>6, SameIsEquivalence DEF IsDir
<1>5. IsFile(staging, Manifest)
    BY <1>1, SameIsEquivalence DEF IsFile
<1>6. ManifestFits
    BY DEF NotInstallable, ManifestTooLarge
<1>7. QED
    BY <1>2, <1>3, <1>4, <1>5, <1>6 DEF PackVerified

--------------------------------------------------------------------------------
(* The build of the pack.                                                   *)

LEMMA InitIInv == Init => IInv
<1> SUFFICES ASSUME Init PROVE IInv
    OBVIOUS
<1>1. TypeOK
    <2>1. upstream \in Seq([name : Name, kind : EntryKind])
        BY UpstreamsAssumption DEF Init
    <2>2. Len(upstream) \in Nat /\ archive \in Seq(Paths) /\ Len(archive) = 0
        BY <2>1, EmptySeq DEF Init
    <2>3. Tree(payload)
        BY DEF Init, Tree
    <2>4. QED
        <3>1. next \in 1..(Len(upstream) + 1) /\ at \in 1..(Len(archive) + 1)
            BY <2>2 DEF Init
        <3>2. /\ stage = "fetching" /\ format \in {"tar", "zip"} /\ output \in BOOLEAN
              /\ insensitive \in BOOLEAN /\ pc = "off" /\ staging = None /\ version = None
              /\ outcome = "none" /\ swept = {} /\ leavings = FALSE
              /\ stale \in BOOLEAN /\ strays \in BOOLEAN
            BY DEF Init
        <3>3. QED
            BY <2>1, <2>2, <2>3, <3>1, <3>2 DEF TypeOK
<1>2. Planned /\ FetchState /\ BuildState /\ StagingState
    BY DEF Init, Planned, FetchState, BuildState, StagingState
<1>3. FetchedIsTheOne /\ InstalledAsBuilt /\ InstallableAsBuilt
    BY DEF Init, FetchedIsTheOne, InstalledAsBuilt, InstallableAsBuilt
<1>4. QED
    BY <1>1, <1>2, <1>3 DEF IInv

\* What is installed does not change while nothing is built.
LEMMA NotBuiltYet ==
    ASSUME IInv, stage \notin {"built", "unpackaged"}, UNCHANGED install
    PROVE  /\ pc \in {"off", "up"} /\ version = None /\ outcome = "none" /\ at = 1
           /\ StagingState' /\ InstalledAsBuilt' /\ InstallableAsBuilt'
<1>1. pc \in {"off", "up"} /\ version = None /\ outcome = "none" /\ at = 1
    BY DEF IInv, BuildState, TypeOK
<1>2. QED
    BY <1>1 DEF install, StagingState, InstalledAsBuilt, InstallableAsBuilt

\* A step of the extraction of the engine.
LEMMA FetchStep ==
    ASSUME IInv, TarEntry \/ TarEnds \/ ZipExtract
    PROVE  IInv'
<1>1. stage = "fetching" /\ UNCHANGED <<format, upstream, build, install>>
    BY DEF TarEntry, TarEnds, ZipExtract, fetch
<1>2. upstream \in Seq([name : Name, kind : EntryKind]) /\ Len(upstream) \in Nat
    BY DEF IInv, TypeOK
<1>3. TypeOK'
    <2>1. stage' \in {"fetching", "fetched", "unfetched"}
        BY <1>1, <1>2 DEF TarEntry, TarEnds, ZipExtract, Refuses
    <2>2. next' \in 1..(Len(upstream) + 1)
        BY <1>1, <1>2 DEF TarEntry, TarEnds, ZipExtract, Refuses, fetch, IInv, TypeOK
    <2>3. output' \in BOOLEAN
        <3>1. output \in BOOLEAN
            BY DEF IInv, TypeOK
        <3>2. \/ output' = output \/ output' = TRUE
              \/ output' = (output \/ IsWantedFile(upstream[next]))
            BY DEF TarEntry, TarEnds, ZipExtract, Refuses, fetch
        <3>3. QED
            BY <3>1, <3>2, Zenon
    <2>4. QED
        BY <1>1, <2>1, <2>2, <2>3 DEF IInv, TypeOK, build, install, Tree, Filling
<1>4. Planned'
    BY <1>1 DEF IInv, Planned, build
<1>5. BuildState'
    <2>1. stage' \in {"fetching", "fetched", "unfetched"}
        BY <1>1 DEF TarEntry, TarEnds, ZipExtract, Refuses
    <2>2. QED
        BY <1>1, <2>1, NotBuiltYet DEF IInv, BuildState, build, install
<1>6. StagingState' /\ InstalledAsBuilt' /\ InstallableAsBuilt'
    BY <1>1, NotBuiltYet
<1>7. FetchState' /\ FetchedIsTheOne'
    <2>1. CASE TarEntry
        <3>1. /\ format = "tar" /\ next \in 1..Len(upstream)
              /\ \A i \in 1..(next - 1) : ~TarRefuses(upstream[i])
              /\ output <=> \E i \in 1..(next - 1) : IsWantedFile(upstream[i])
              /\ \A i, k \in 1..(next - 1) :
                    IsWantedFile(upstream[i]) /\ IsWantedFile(upstream[k]) => i = k
            BY <1>1, <2>1 DEF TarEntry, IInv, FetchState, TypeOK
        <3>2. CASE Refuses
            <4>1. output => \E i \in 1..(next - 1) : IsWantedFile(upstream[i])
                BY <3>1
            <4>2. QED
                BY <1>1, <3>1, <3>2, <4>1
                   DEF Refuses, FetchState, FetchedIsTheOne, RefusedLate
        <3>3. CASE ~Refuses
            <4> DEFINE entry == upstream[next]
            <4>1. /\ ~TarRefuses(entry) /\ ~(IsWantedFile(entry) /\ output)
                  /\ next' = next + 1
                  /\ output' = (output \/ IsWantedFile(entry))
                  /\ stage' = stage
                BY <2>1, <3>3 DEF TarEntry
            <4>2. \A i \in 1..(next' - 1) : i \in 1..(next - 1) \/ i = next
                BY <3>1, <4>1
            <4>3. 1..(next - 1) \subseteq 1..(next' - 1) /\ next \in 1..(next' - 1)
                BY <3>1, <4>1
            <4>4. \A i \in 1..(next' - 1) : ~TarRefuses(upstream[i])
                BY <3>1, <4>1, <4>2
            <4>5. output' <=> \E i \in 1..(next' - 1) : IsWantedFile(upstream[i])
                BY <3>1, <4>1, <4>2, <4>3
            <4>6. \A i, k \in 1..(next' - 1) :
                     IsWantedFile(upstream[i]) /\ IsWantedFile(upstream[k]) => i = k
                BY <3>1, <4>1, <4>2
            <4>7. QED
                BY <1>1, <3>1, <4>1, <4>4, <4>5, <4>6
                   DEF FetchState, FetchedIsTheOne, TarRefuses, IsWantedFile
        <3>4. QED
            BY <3>2, <3>3
    <2>2. CASE TarEnds
        <3>1. /\ format = "tar" /\ 1..(next - 1) = DOMAIN upstream
              /\ \A i \in DOMAIN upstream : ~TarRefuses(upstream[i])
              /\ output <=> \E i \in DOMAIN upstream : IsWantedFile(upstream[i])
              /\ \A i, k \in DOMAIN upstream :
                    IsWantedFile(upstream[i]) /\ IsWantedFile(upstream[k]) => i = k
            <4>1. 1..(next - 1) = DOMAIN upstream /\ format = "tar"
                BY <1>2, <2>2 DEF TarEnds, IInv, TypeOK
            <4>2. QED
                BY <1>1, <4>1 DEF IInv, FetchState
        <3>2. /\ stage' = IF output THEN "fetched" ELSE "unfetched"
              /\ output' = output
            BY <2>2 DEF TarEnds, fetch
        <3>3. CASE output
            <4>1. PICK i \in DOMAIN upstream : IsWantedFile(upstream[i])
                BY <3>1, <3>3
            <4>2. ASSUME NEW k \in Wanted \ {i}
                  PROVE  upstream[k].kind = "dir"
                <5>1. k \in DOMAIN upstream /\ upstream[k].kind \in EntryKind
                    <6>1. k \in DOMAIN upstream
                        BY <4>2 DEF Wanted
                    <6>2. DOMAIN upstream = 1..Len(upstream)
                        BY <1>2
                    <6>3. upstream[k] \in [name : Name, kind : EntryKind]
                        BY <1>2, <6>1, <6>2, ElementOfSeq
                    <6>4. QED
                        BY <6>1, <6>3
                <5>2. ~TarRefuses(upstream[k]) /\ ~IsWantedFile(upstream[k])
                    BY <3>1, <4>1, <4>2, <5>1
                <5>3. QED
                    BY <4>2, <5>1, <5>2 DEF Wanted, TarRefuses, IsWantedFile, EntryKind
            <4>3. i \in Wanted /\ upstream[i].kind = "file"
                BY <4>1 DEF Wanted, IsWantedFile
            <4>4. \A n \in DOMAIN upstream : upstream[n].name # "unsafe"
                BY <3>1 DEF TarRefuses
            <4>5. QED
                BY <1>1, <3>2, <3>3, <4>2, <4>3, <4>4 DEF FetchState, FetchedIsTheOne, Wanted
        <3>4. CASE ~output
            BY <1>1, <3>2, <3>4 DEF FetchState, FetchedIsTheOne
        <3>5. QED
            BY <3>3, <3>4
    <2>3. CASE ZipExtract
        <3>1. format = "zip" /\ output = FALSE
            BY <1>1, <2>3 DEF ZipExtract, IInv, FetchState
        <3>2. CASE ZipHasOne({"file"})
            <4>1. stage' = "fetched"
                BY <2>3, <3>2 DEF ZipExtract
            <4>2. /\ \A i \in DOMAIN upstream : upstream[i].name # "unsafe"
                  /\ \E i \in Wanted : Wanted = {i} /\ upstream[i].kind = "file"
                BY <3>2 DEF ZipHasOne
            <4>3. QED
                BY <1>1, <4>1, <4>2 DEF FetchState, FetchedIsTheOne, Wanted
        <3>3. CASE ~ZipHasOne({"file"})
            BY <1>1, <2>3, <3>1, <3>3 DEF ZipExtract, Refuses, FetchState, FetchedIsTheOne
        <3>4. QED
            BY <3>2, <3>3
    <2>4. QED
        BY <2>1, <2>2, <2>3
<1>8. QED
    BY <1>3, <1>4, <1>5, <1>6, <1>7 DEF IInv

\* The assembly puts a payload together that is a tree.
LEMMA AssembleStep ==
    ASSUME IInv, AssemblePayload
    PROVE  IInv'
<1>1. /\ stage = "fetched" /\ stage' = "assembled" /\ payload' \in Payloads
      /\ insensitive' \in BOOLEAN /\ upstream' = <<>> /\ next' = 1
      /\ UNCHANGED <<format, output, archive, install>>
    BY DEF AssemblePayload
<1>2. Planned'
    BY <1>1, PayloadsAssumption DEF Planned
<1>3. TypeOK'
    <2>1. Tree(payload)'
        BY <1>2 DEF Planned, Tree, Paths
    <2>2. upstream' \in Seq([name : Name, kind : EntryKind]) /\ next' \in 1..(Len(upstream') + 1)
        BY <1>1, EmptySeq
    <2>3. pc \in {"off", "up"} /\ version = None
        BY <1>1, NotBuiltYet
    <2>4. QED
        BY <1>1, <2>1, <2>2, <2>3 DEF IInv, TypeOK, install
<1>4. BuildState'
    BY <1>1, NotBuiltYet DEF IInv, BuildState, install
<1>5. StagingState' /\ InstalledAsBuilt' /\ InstallableAsBuilt'
    BY <1>1, NotBuiltYet
<1>6. FetchState' /\ FetchedIsTheOne'
    BY <1>1 DEF FetchState, FetchedIsTheOne
<1>7. QED
    BY <1>2, <1>3, <1>4, <1>5, <1>6 DEF IInv

\* An archive is finished only for a payload the packager accepts.
LEMMA PackageStep ==
    ASSUME IInv, Package
    PROVE  IInv'
<1>1. /\ stage = "assembled" /\ stage' \in {"built", "unpackaged"}
      /\ UNCHANGED <<fetch, payload, insensitive, install>>
    BY DEF Package
<1>2. stage' = "built" => /\ archive' = Entries
                          /\ Collected /\ ManifestValid /\ HasMetadata
    BY DEF Package
<1>3. archive' \in Seq(Paths) /\ Len(archive') \in Nat
    <2>1. Entries \in Seq(Paths)
        BY EntriesOfPayload DEF IInv
    <2>2. ASSUME NEW n \in 0..(Len(Entries) - 1)
          PROVE  SubSeq(Entries, 1, n) \in Seq(Paths)
        <3>1. 1 \in Int /\ n \in Int /\ \A i \in 1..n : Entries[i] \in Paths
            BY <2>1, <2>2
        <3>2. QED
            BY <3>1, SubSeqProperties, Zenon
    <2>3. archive \in Seq(Paths)
        BY DEF IInv, TypeOK
    <2>4. archive' \in Seq(Paths)
        BY <2>1, <2>2, <2>3 DEF Package
    <2>5. QED
        BY <2>4
<1>4. TypeOK'
    <2>1. at = 1
        BY <1>1, NotBuiltYet
    <2>2. QED
        BY <1>1, <1>3, <2>1 DEF IInv, TypeOK, fetch, install, Tree, Filling
<1>5. Planned'
    BY <1>1 DEF IInv, Planned
<1>6. BuildState'
    <2>1. Entries' = Entries
        BY <1>1 DEF Entries, File, Places, UpTo, FilesOf
    <2>2. Collected' = Collected /\ ManifestValid' = ManifestValid /\ HasMetadata' = HasMetadata
        BY <1>1 DEF Collected, ManifestValid, HasMetadata, FilesOf, DirsOf, Executable
    <2>3. QED
        BY <1>1, <1>2, <2>1, <2>2, NotBuiltYet DEF BuildState, install
<1>7. StagingState' /\ InstalledAsBuilt' /\ InstallableAsBuilt'
    BY <1>1, NotBuiltYet
<1>8. FetchState' /\ FetchedIsTheOne'
    BY <1>1 DEF IInv, fetch, FetchState, FetchedIsTheOne, RefusedLate, IsWantedFile, Wanted
<1>9. QED
    BY <1>4, <1>5, <1>6, <1>7, <1>8 DEF IInv

--------------------------------------------------------------------------------
(* The installing program.                                                  *)

\* It changes neither the payload nor the archive, and what is said of them stays true.
LEMMA InstallKeepsBuild ==
    ASSUME IInv, UNCHANGED <<stage, fetch, build>>
    PROVE  /\ Planned' /\ FetchState' /\ FetchedIsTheOne'
           /\ stage' = "built" =>
                 archive' = Entries' /\ Collected' /\ ManifestValid' /\ HasMetadata'
           /\ stage' \notin {"built", "unpackaged"} => archive' = <<>>
           /\ NotInstallable' <=> NotInstallable
           /\ DirectorySpelledTwice' <=> DirectorySpelledTwice
           /\ \A tree : AsBuilt(tree)' <=> AsBuilt(tree)
<1>1. UNCHANGED <<payload, insensitive, archive, stage>>
    BY DEF build
<1>2. Planned' /\ FetchState' /\ FetchedIsTheOne'
    BY DEF IInv, fetch, build, Planned, FetchState, FetchedIsTheOne, RefusedLate, IsWantedFile,
           TarRefuses, Wanted
<1>3. Entries' = Entries
    BY <1>1 DEF Entries, File, Places, UpTo, FilesOf
<1>4. Collected' = Collected /\ ManifestValid' = ManifestValid /\ HasMetadata' = HasMetadata
    BY <1>1 DEF Collected, ManifestValid, HasMetadata, FilesOf, DirsOf, Executable
<1>5. DirectorySpelledTwice' <=> DirectorySpelledTwice
    BY <1>1 DEF DirectorySpelledTwice, FilesOf, Same
<1>6. NotInstallable' <=> NotInstallable
    <2>1. TooManyFiles' <=> TooManyFiles
        BY <1>3 DEF TooManyFiles
    <2>2. ManifestTooLarge' <=> ManifestTooLarge
        BY <1>1 DEF ManifestTooLarge, ManifestFits, FilesOf
    <2>3. QED
        BY <1>1, <1>5, <2>1, <2>2
           DEF NotInstallable, NoLicenseFile, MetadataIsNoFile, BeyondLimits,
               ClashesWithManifest, FilesOf, Same
<1>7. \A tree : AsBuilt(tree)' <=> AsBuilt(tree)
    BY <1>1 DEF AsBuilt, FilesOf, Executable
<1>8. QED
    BY <1>1, <1>2, <1>3, <1>4, <1>5, <1>6, <1>7 DEF IInv, BuildState

\* The types that a step of the program may disturb.
LEMMA InstallTypes ==
    ASSUME IInv, UNCHANGED <<stage, fetch, build>>,
           pc' \in {"off", "up", "downloading", "extracting", "placing", "testing"},
           at' \in 1..(Len(archive) + 1),
           pc' = "extracting" => Filling(staging'),
           pc' = "placing" => Tree(staging'),
           pc' \notin {"extracting", "placing"} => staging' = None,
           version' # None => Tree(version'),
           outcome' \in {"none", "installed", "refused", "failed"},
           swept' \subseteq {"staging", "version"},
           leavings' \in BOOLEAN, stale' \in BOOLEAN, strays' \in BOOLEAN
    PROVE  TypeOK'
BY DEF IInv, TypeOK, fetch, build, Tree, Filling

LEMMA ArchiveLength ==
    ASSUME IInv
    PROVE  Len(archive) \in Nat /\ 1 \in 1..(Len(archive) + 1)
<1>1. Len(archive) \in Nat
    BY DEF IInv, TypeOK
<1>2. QED
    BY <1>1

\* An install that ends leaves the version directory alone.
LEMMA EndStep ==
    ASSUME IInv, UNCHANGED <<stage, fetch, build, version, disturbed>>, pc \notin {"off", "up"},
           NEW result \in {"refused", "failed"}, Ends(result),
           result = "refused" => NotInstallable \/ "staging" \in swept
    PROVE  IInv'
<1>1. /\ pc' = "up" /\ outcome' = result /\ at' = 1 /\ staging' = None
      /\ stale' \in BOOLEAN /\ strays' \in BOOLEAN /\ UNCHANGED <<swept, leavings>>
    BY DEF Ends, RemoveArchive, IInv, TypeOK, disturbed
<1>2. stage = "built"
    BY DEF IInv, BuildState
<1>3. TypeOK'
    BY <1>1, ArchiveLength, InstallTypes DEF IInv, TypeOK
<1>4. BuildState'
    BY <1>1, <1>2, InstallKeepsBuild DEF BuildState
<1>5. StagingState'
    BY <1>1 DEF StagingState
<1>6. InstalledAsBuilt' /\ InstallableAsBuilt'
    BY <1>1, InstallKeepsBuild DEF IInv, InstalledAsBuilt, InstallableAsBuilt
<1>7. QED
    BY <1>3, <1>4, <1>5, <1>6, InstallKeepsBuild DEF IInv

LEMMA StartStep ==
    ASSUME IInv, Start \/ InstallPack \/ Stop
    PROVE  IInv'
<1>1. /\ UNCHANGED <<stage, fetch, build, version>> /\ at' = 1 /\ staging' = None
      /\ pc' \in {"off", "up", "downloading"} /\ (pc' = "downloading" => stage = "built")
      /\ stale' \in BOOLEAN /\ strays' \in BOOLEAN /\ leavings' \in BOOLEAN /\ swept' = swept
      /\ pc' = "downloading" => outcome' = "none"
      /\ outcome' = "none" \/ (outcome' = outcome /\ leavings' = leavings)
    BY DEF Start, InstallPack, Stop, IInv, TypeOK, BuildState, disturbed
<1>2. TypeOK'
    <2>1. /\ outcome' \in {"none", "installed", "refused", "failed"}
          /\ swept' \subseteq {"staging", "version"} /\ version' # None => Tree(version')
        BY <1>1 DEF IInv, TypeOK, Tree
    <2>2. at' \in 1..(Len(archive) + 1)
        BY <1>1, ArchiveLength
    <2>3. QED
        BY <1>1, <2>1, <2>2, InstallTypes DEF IInv, TypeOK
<1>3. BuildState'
    BY <1>1, InstallKeepsBuild DEF IInv, BuildState
<1>4. StagingState'
    BY <1>1 DEF StagingState
<1>5. InstalledAsBuilt' /\ InstallableAsBuilt'
    BY <1>1, InstallKeepsBuild DEF IInv, InstalledAsBuilt, InstallableAsBuilt
<1>6. QED
    BY <1>1, <1>2, <1>3, <1>4, <1>5, InstallKeepsBuild DEF IInv

LEMMA DownloadStep ==
    ASSUME IInv, Download
    PROVE  IInv'
<1>1. /\ UNCHANGED <<stage, fetch, build, version, leavings, stale>> /\ at' = 1
      /\ stage = "built" /\ strays' \in BOOLEAN
      /\ swept' \subseteq swept /\ ("version" \in swept' <=> "version" \in swept)
      /\ \/ pc' = "extracting" /\ staging' = <<>> /\ outcome' = "none"
         \/ pc' = "up" /\ staging' = None /\ outcome' = "failed"
    <2>1. pc = "downloading" /\ stage = "built" /\ at = 1 /\ staging = None /\ outcome = "none"
        BY DEF Download, IInv, TypeOK, BuildState
    <2>2. strays \in BOOLEAN
        BY DEF IInv, TypeOK
    <2>3. QED
        BY <2>1, <2>2 DEF Download, RemoveArchive
<1>2. TypeOK'
    <2>1. Filling(<<>>)
        BY DEF Filling
    <2>2. /\ swept' \subseteq {"staging", "version"} /\ version' # None => Tree(version')
          /\ leavings' \in BOOLEAN /\ stale' \in BOOLEAN
        BY <1>1 DEF IInv, TypeOK, Tree
    <2>3. at' \in 1..(Len(archive) + 1)
        BY <1>1, ArchiveLength
    <2>4. QED
        BY <1>1, <2>1, <2>2, <2>3, InstallTypes DEF IInv, TypeOK
<1>3. BuildState'
    BY <1>1, InstallKeepsBuild DEF IInv, BuildState
<1>4. StagingState'
    <2>1. ~(at' > 1) /\ pc' # "placing"
        BY <1>1
    <2>2. pc' = "extracting" => DOMAIN staging' = {archive'[i] : i \in 1..(at' - 1)}
        BY <1>1
    <2>3. (pc = "extracting" /\ "staging" \notin swept =>
               /\ at > 1 => Manifest \in DOMAIN staging
               /\ ~DirectorySpelledTwice => DOMAIN staging = {archive[i] : i \in 1..(at - 1)})'
        BY <2>1, <2>2
    <2>4. QED
        BY <2>1, <2>3 DEF StagingState
<1>5. InstalledAsBuilt' /\ InstallableAsBuilt'
    BY <1>1, InstallKeepsBuild DEF IInv, InstalledAsBuilt, InstallableAsBuilt
<1>6. QED
    BY <1>1, <1>2, <1>3, <1>4, <1>5, InstallKeepsBuild DEF IInv

\* An entry is refused only of a payload of the known kinds, or it lands in the staging
\* directory.
LEMMA ExtractStep ==
    ASSUME IInv, ExtractEntry
    PROVE  IInv'
<1> DEFINE path == archive[at]
<1>1. /\ UNCHANGED <<stage, fetch, build, version, disturbed>>
      /\ pc = "extracting" /\ at <= Len(archive)
      /\ TypeOK /\ Planned /\ BuildState /\ StagingState
    BY DEF ExtractEntry, IInv
<1>2. CASE EntryRefused(path) /\ Ends("refused")
    BY <1>1, <1>2, EntryIsTaken, EndStep
<1>3. CASE Ends("failed")
    BY <1>1, <1>3, EndStep
<1>4. CASE /\ staging' = [file \in DOMAIN staging \cup {Landing(path)} |-> "file"]
           /\ at' = at + 1
           /\ UNCHANGED <<pc, outcome, stale, strays>>
    <2>1. at \in 1..Len(archive) /\ path \in Paths /\ Filling(staging)
        <3>1. at \in 1..Len(archive) /\ Filling(staging)
            BY <1>1, ArchiveLength DEF TypeOK
        <3>2. QED
            BY <1>1, <3>1, ExtractedArchive
    <2>2. Landing(path) \in Seq(DOMAIN Lower)
        BY <2>1, LandingIsPath
    <2>3. Filling(staging')
        BY <1>4, <2>1, <2>2 DEF Filling
    <2>4. at' \in 1..(Len(archive) + 1) /\ 1..(at' - 1) = 1..(at - 1) \cup {at}
        BY <1>4, <2>1, ArchiveLength
    <2>5. TypeOK'
        BY <1>1, <1>4, <2>3, <2>4, InstallTypes DEF TypeOK, disturbed
    <2>6. BuildState'
        BY <1>1, <1>4, InstallKeepsBuild DEF BuildState
    <2>7. StagingState'
        <3> SUFFICES ASSUME "staging" \notin swept
                     PROVE  StagingState'
            BY <1>1, <1>4 DEF StagingState, disturbed
        <3>1. Manifest \in DOMAIN staging'
            <4>1. CASE at = 1
                BY <1>1, <1>4, <4>1, EntryLandsAtPath, ExtractedArchive
            <4>2. CASE at # 1
                BY <1>1, <1>4, <2>1, <4>2 DEF StagingState
            <4>3. QED
                BY <4>1, <4>2
        <3>2. ASSUME ~DirectorySpelledTwice
              PROVE  DOMAIN staging' = {archive[i] : i \in 1..(at' - 1)}
            <4>1. DOMAIN staging' = DOMAIN staging \cup {path}
                BY <1>1, <1>4, <3>2, EntryLandsAtPath
            <4>2. QED
                BY <1>1, <2>4, <3>2, <4>1 DEF StagingState
        <3>3. archive' = archive
            BY <1>1 DEF build
        <3>4. QED
            BY <1>1, <1>4, <3>1, <3>2, <3>3, InstallKeepsBuild DEF StagingState
    <2>8. InstalledAsBuilt' /\ InstallableAsBuilt'
        BY <1>1, <1>4, InstallKeepsBuild
           DEF IInv, InstalledAsBuilt, InstallableAsBuilt, disturbed
    <2>9. QED
        BY <1>1, <2>5, <2>6, <2>7, <2>8, InstallKeepsBuild DEF IInv
<1>5. QED
    BY <1>2, <1>3, <1>4 DEF ExtractEntry

\* A staging directory that is found right is the payload's, with its permissions.
LEMMA VerifyStep ==
    ASSUME IInv, VerifyStaging
    PROVE  IInv'
<1>1. /\ UNCHANGED <<stage, fetch, build, version, disturbed>>
      /\ pc = "extracting" /\ at > Len(archive)
      /\ TypeOK /\ Planned /\ BuildState /\ StagingState
    BY DEF VerifyStaging, IInv
<1>2. CASE ~PackVerified /\ Ends("refused")
    BY <1>1, <1>2, CompleteIsVerified, EndStep
<1>3. CASE Ends("failed")
    BY <1>1, <1>3, EndStep
<1>4. CASE /\ PackVerified /\ pc' = "placing" /\ staging' = WithPermissions
           /\ UNCHANGED <<at, outcome, stale, strays>>
    <2> DEFINE F == FilesOf(payload)
    <2>1. Filling(staging) /\ FilesOf(staging) = DOMAIN staging
        BY <1>1 DEF TypeOK, Filling, FilesOf
    <2>2. DOMAIN staging \ {Manifest} = F /\ Manifest \notin F
        <3>1. Manifest \notin F
            BY <1>1, ExtractedArchive DEF Collected
        <3>2. QED
            BY <1>4, <2>1, <3>1 DEF PackVerified, Declared
    <2>3. /\ DOMAIN staging' = DOMAIN staging
          /\ \A path \in DOMAIN staging' : staging'[path] = Written(path)
        BY <1>4 DEF WithPermissions
    <2>4. AsBuilt(staging') \/ "staging" \in swept
        <3> SUFFICES ASSUME "staging" \notin swept PROVE AsBuilt(staging')
            OBVIOUS
        <3>1. Manifest \in DOMAIN staging
            BY <1>1, ExtractedArchive DEF StagingState, TypeOK
        <3>2. DOMAIN staging' = F \cup {Manifest}
            BY <2>2, <2>3, <3>1
        <3>3. \A path \in DOMAIN staging' : staging'[path] \in {"exec", "file"}
            BY <2>3 DEF Written
        <3>4. \A path \in F : staging'[path] = "exec" <=> Executable(path)
            BY <2>2, <2>3, <3>2 DEF Written
        <3>5. QED
            BY <3>2, <3>3, <3>4 DEF AsBuilt, FilesOf
    <2>5. Tree(staging')
        <3>1. F \subseteq Paths /\ Manifest \in Paths
            BY <1>1, FilesArePaths DEF Paths
        <3>2. QED
            BY <2>2, <2>3, <3>1 DEF Tree, Written, Kind
    <2>6. TypeOK'
        BY <1>1, <1>4, <2>5, InstallTypes DEF TypeOK, disturbed
    <2>7. BuildState'
        BY <1>1, <1>4, InstallKeepsBuild DEF BuildState
    <2>8. StagingState'
        <3>1. AsBuilt(staging)' \/ "staging" \in swept
            BY <1>1, <2>4 DEF AsBuilt, FilesOf, Executable, build
        <3>2. QED
            BY <1>1, <1>4, <3>1 DEF StagingState, disturbed
    <2>9. InstalledAsBuilt' /\ InstallableAsBuilt'
        BY <1>1, <1>4, InstallKeepsBuild
           DEF IInv, InstalledAsBuilt, InstallableAsBuilt, disturbed
    <2>10. QED
        BY <1>1, <2>6, <2>7, <2>8, <2>9, InstallKeepsBuild DEF IInv
<1>5. QED
    BY <1>2, <1>3, <1>4 DEF VerifyStaging

\* What becomes the version directory is as it was built.
LEMMA PlaceStep ==
    ASSUME IInv, PlaceVersion
    PROVE  IInv'
<1>1. /\ UNCHANGED <<stage, fetch, build>> /\ pc = "placing" /\ stage = "built"
      /\ TypeOK /\ Planned /\ BuildState /\ StagingState /\ outcome = "none"
    BY DEF PlaceVersion, IInv, BuildState
<1>2. CASE Ends("failed") /\ UNCHANGED <<version, disturbed>>
    BY <1>1, <1>2, EndStep
<1>3. ASSUME Placed,
             \/ UNCHANGED <<version, swept>>
             \/ /\ version' = staging
                /\ swept' = IF "staging" \in swept THEN {"version"} ELSE {},
             stale' \in BOOLEAN
      PROVE  IInv'
    <2>1. /\ pc' = "testing" /\ at' = 1 /\ staging' = None /\ strays' \in BOOLEAN
          /\ outcome' = "none" /\ leavings' \in BOOLEAN /\ UNCHANGED leavings
        BY <1>1, <1>3 DEF Placed, RemoveArchive, TypeOK
    <2>2. /\ version' # None => Tree(version')
          /\ swept' \subseteq {"staging", "version"}
        BY <1>1, <1>3 DEF TypeOK
    <2>3. TypeOK'
        BY <1>1, <1>3, <2>1, <2>2, ArchiveLength, InstallTypes DEF TypeOK
    <2>4. BuildState'
        BY <1>1, <2>1, InstallKeepsBuild DEF BuildState
    <2>5. StagingState' /\ InstallableAsBuilt'
        BY <2>1 DEF StagingState, InstallableAsBuilt
    <2>6. InstalledAsBuilt'
        <3>1. CASE UNCHANGED <<version, swept>>
            BY <1>1, <2>1, <3>1, InstallKeepsBuild DEF IInv, InstalledAsBuilt
        <3>2. CASE version' = staging /\ ("version" \notin swept' => "staging" \notin swept)
            BY <1>1, <2>1, <3>2
               DEF InstalledAsBuilt, StagingState, AsBuilt, FilesOf, Executable, build
        <3>3. QED
            BY <1>3, <3>1, <3>2
    <2>7. QED
        BY <1>1, <2>3, <2>4, <2>5, <2>6, InstallKeepsBuild DEF IInv
<1>4. CASE version # None /\ Placed /\ stale' \in {stale, TRUE} /\ UNCHANGED <<version, swept>>
    BY <1>1, <1>3, <1>4 DEF TypeOK
<1>5. CASE /\ version' = staging /\ Placed /\ UNCHANGED stale
           /\ swept' = IF "staging" \in swept THEN {"version"} ELSE {}
    BY <1>1, <1>3, <1>5 DEF TypeOK
<1>6. QED
    BY <1>2, <1>4, <1>5 DEF PlaceVersion

\* The self test leaves the files of the version directory, and what it may leave beside
\* them is not passed over.
LEMMA TestStep ==
    ASSUME IInv, TestVersion
    PROVE  IInv'
<1>1. /\ UNCHANGED <<stage, fetch, build, at, staging, version, swept, stale, strays>>
      /\ pc = "testing" /\ pc' = "up" /\ leavings' \in BOOLEAN
      /\ outcome' \in {"installed", "failed"} /\ (leavings' => outcome' # "installed")
      /\ stage = "built" /\ at = 1 /\ staging = None
    BY DEF TestVersion, IInv, TypeOK, BuildState
<1>2. TypeOK'
    BY <1>1, ArchiveLength, InstallTypes DEF IInv, TypeOK
<1>3. BuildState'
    BY <1>1, InstallKeepsBuild DEF BuildState
<1>4. StagingState' /\ InstallableAsBuilt'
    BY <1>1 DEF StagingState, InstallableAsBuilt
<1>5. InstalledAsBuilt'
    BY <1>1, InstallKeepsBuild DEF IInv, InstalledAsBuilt
<1>6. QED
    BY <1>1, <1>2, <1>3, <1>4, <1>5, InstallKeepsBuild DEF IInv

\* The start of another instance takes files only from directories it has found.
LEMMA AnotherStep ==
    ASSUME IInv, Another
    PROVE  IInv'
<1>1. /\ UNCHANGED <<stage, fetch, build, pc, at, outcome, leavings, stale, strays>>
      /\ TypeOK
    BY DEF Another, AnotherStarts, AnotherDeletes, disturbed, IInv
<1>2. CASE AnotherStarts
    <2>1. /\ UNCHANGED <<staging, version>> /\ swept' = swept \cup {"staging"}
        BY <1>2 DEF AnotherStarts
    <2>2. TypeOK'
        BY <1>1, <2>1, InstallTypes DEF TypeOK
    <2>3. BuildState' /\ StagingState'
        BY <1>1, <2>1, InstallKeepsBuild DEF IInv, BuildState, StagingState
    <2>4. InstalledAsBuilt' /\ InstallableAsBuilt'
        BY <1>1, <2>1, InstallKeepsBuild DEF IInv, InstalledAsBuilt, InstallableAsBuilt
    <2>5. QED
        BY <1>1, <2>2, <2>3, <2>4, InstallKeepsBuild DEF IInv
<1>3. CASE /\ "staging" \in swept /\ staging # None /\ UNCHANGED <<version, swept>>
           /\ \E file \in DOMAIN staging : staging' = Without(staging, file)
    <2>1. /\ pc \in {"extracting", "placing"}
          /\ Filling(staging) => Filling(staging')
          /\ Tree(staging) => Tree(staging')
        BY <1>1, <1>3 DEF TypeOK, Without, Filling, Tree
    <2>2. TypeOK'
        BY <1>1, <1>3, <2>1, InstallTypes DEF TypeOK
    <2>3. BuildState' /\ StagingState'
        BY <1>1, <1>3, InstallKeepsBuild DEF IInv, BuildState, StagingState
    <2>4. InstalledAsBuilt' /\ InstallableAsBuilt'
        BY <1>1, <1>3, InstallKeepsBuild DEF IInv, InstalledAsBuilt, InstallableAsBuilt
    <2>5. QED
        BY <1>1, <2>2, <2>3, <2>4, InstallKeepsBuild DEF IInv
<1>4. CASE /\ "version" \in swept /\ version # None /\ UNCHANGED <<staging, swept>>
           /\ \E file \in DOMAIN version : version' = Without(version, file)
    <2>1. Tree(version')
        BY <1>1, <1>4 DEF TypeOK, Without, Tree
    <2>2. TypeOK'
        BY <1>1, <1>4, <2>1, InstallTypes DEF TypeOK
    <2>3. BuildState' /\ StagingState'
        <3>1. stage = "built"
            BY <1>4 DEF IInv, BuildState
        <3>2. BuildState'
            BY <1>1, <1>4, <3>1, InstallKeepsBuild DEF IInv, BuildState
        <3>3. StagingState'
            BY <1>1, <1>4, InstallKeepsBuild DEF IInv, StagingState, build
        <3>4. QED
            BY <3>2, <3>3
    <2>4. InstalledAsBuilt' /\ InstallableAsBuilt'
        BY <1>1, <1>4, InstallKeepsBuild DEF IInv, InstalledAsBuilt, InstallableAsBuilt
    <2>5. QED
        BY <1>1, <2>2, <2>3, <2>4, InstallKeepsBuild DEF IInv
<1>5. QED
    BY <1>2, <1>3, <1>4 DEF Another, AnotherDeletes, disturbed

--------------------------------------------------------------------------------
(* The theorems.                                                            *)

LEMMA Inductive == IInv /\ [Next]_vars => IInv'
<1> SUFFICES ASSUME IInv, [Next]_vars PROVE IInv'
    OBVIOUS
<1>1. CASE Build
    BY <1>1, FetchStep, AssembleStep, PackageStep DEF Build
<1>2. CASE Program
    BY <1>2, StartStep, DownloadStep, ExtractStep, VerifyStep, PlaceStep, TestStep DEF Program
<1>3. CASE Another
    BY <1>3, AnotherStep
<1>4. CASE UNCHANGED vars
    <2>1. UNCHANGED <<stage, fetch, build, install>>
        BY <1>4 DEF vars
    <2>2. TypeOK'
        BY <2>1, InstallTypes DEF install, IInv, TypeOK
    <2>3. BuildState' /\ StagingState'
        BY <2>1, InstallKeepsBuild DEF install, build, IInv, BuildState, StagingState, AsBuilt,
           FilesOf, Executable
    <2>4. InstalledAsBuilt' /\ InstallableAsBuilt'
        BY <2>1, InstallKeepsBuild DEF install, IInv, InstalledAsBuilt, InstallableAsBuilt
    <2>5. QED
        BY <2>1, <2>2, <2>3, <2>4, InstallKeepsBuild DEF IInv
<1>5. QED
    BY <1>1, <1>2, <1>3, <1>4 DEF Next

\* The inductive invariant always holds.
LEMMA Invariant == Spec => []IInv
BY InitIInv, Inductive, PTL DEF Spec

\* Every variable always has its type, and a staging directory is there exactly while the
\* program works on it.
THEOREM ArchiveTypeCorrect == Spec => []TypeOK
BY Invariant, PTL DEF IInv

\* Whatever an upstream archive holds, in whatever order, the engine that is taken out is
\* the one regular file of its name, and only the tar reader can leave one it then refuses.
THEOREM OneEngineFetched == Spec => []FetchedIsTheOne
BY Invariant, PTL DEF IInv

\* For every payload, a version directory is exactly what was packaged, over failing and
\* repeated installs and the end of the program at every step, unless the start of another
\* instance was deleting in it when it was placed; and no install succeeds with a directory
\* in which a self test has left files.
THEOREM VersionsAreAsBuilt == Spec => []InstalledAsBuilt
BY Invariant, PTL DEF IInv

\* For every payload the packager accepts, and whatever the limits of the installer are, it
\* refuses the archive only for one of the seven known reasons, or because the start of
\* another instance found the staging directory.
THEOREM AcceptedIsInstallable == Spec => []InstallableAsBuilt
BY Invariant, PTL DEF IInv

================================================================================
