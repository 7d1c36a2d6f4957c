--------------------------- MODULE PackInstallProps ---------------------------
(* What PackInstall promises. *)
EXTENDS PackInstall

\* Every variable holds what its table, file or directory can hold.
TypeOK ==
    /\ pc \in [Apps -> AppPC]
    /\ release \in [Apps -> Releases \cup {None}]
    /\ \A a \in Apps : release[a] # None <=> pc[a] \in InstallPC
    /\ staging \in [Apps -> StagingStates]
    /\ seen \in [Apps -> SUBSET Apps]
    /\ deleting \in [Apps -> Apps \cup Directories \cup {None, Gone}]
    /\ pointers \in [Apps -> SUBSET Releases]
    /\ DOMAIN versions = Directories
    /\ \A d \in Directories : versions[d] # None =>
          versions[d] \in [of : {r \in Releases : Directory(r) = d}, state : VersionStates]
    /\ DOMAIN active = Packs /\ DOMAIN row = Packs /\ DOMAIN consent = Packs
    /\ \A p \in Packs :
          {active[p], row[p], consent[p]} \subseteq {r \in Releases : r.pack = p} \cup {None}
    /\ highWater \in [Packs -> Nat]
    /\ begun \in 0 .. Installs
    /\ raced \subseteq Packs /\ swept \cup late \subseteq Releases

\* No install and no start makes the database forget a security sequence it has
\* seen, and the pack it names as active is the one that sequence came with: the
\* mark was read long before the commit (lib.rs:259-268), so that only the
\* transaction of commit_pack_activation stands between two racing installs.
HighWaterOnlyRises ==
    [][\A p \in Packs :
          /\ highWater'[p] >= highWater[p]
          /\ row'[p] # None => row'[p].sequence = highWater'[p]]_vars

\* The release the pointer file selects, which jobs run and every start commits
\* (lib.rs:1032-1034), is older than the high-water mark only after two instances
\* installed that pack at the same time, whatever fails or crashes; every later start of
\* the program is refused then.
OnlyRacesRollBack ==
    \A p \in Packs :
        active[p] # None /\ active[p].sequence < highWater[p] => p \in raced

\* A version directory keeps the release it was created with, and all its files,
\* through crashes, failed and repeated installs, unless the start of another instance
\* deleted the staging directory it came from (docs/engine-packs.md:29).
VersionsImmutable ==
    [][\A d \in Directories : versions[d] # None =>
          /\ versions'[d] # None
          /\ versions'[d].of = versions[d].of
          /\ versions'[d].state \in {"whole", "littered"} \/ versions'[d].of \in swept]_vars

\* An active pack can be run: its directory is as published, whatever a start of
\* another instance deleted and a self test left in it, unless that happened when it
\* had been verified.  One active pack that is not stops the engines of all
\* (pack.rs:599-640).
ActiveIsWhole ==
    \A p \in Packs : active[p] # None => Whole(active[p]) \/ active[p] \in late

\* An active pack has its dependency active, in a version it accepts, although the
\* dependency is looked up when the pack is installed and then moves on.  Two ways
\* back exist: a race, and an activation whose commit failed or was lost in a crash,
\* so that an older release still passes the comparison with the high-water mark.
DependenciesActive ==
    \A p \in Packs : active[p] # None =>
        \/ DependencyMet(active[p])
        \/ raced # {}
        \/ \E r \in Needs[active[p]] :
              /\ versions[Directory(r)] # None
              /\ highWater[r.pack] < r.sequence

\* The start of an instance makes every pointer file known to the database that a
\* crash or a failed commit had left unknown, unless it raced an install.
StartTakesUpPointers ==
    [][\A a \in Apps : pc[a] = "sync" /\ pc'[a] = "idle" =>
          \A p \in Packs :
              active[p] # None /\ p \notin raced => active[p].sequence <= highWater[p]]_vars

\* A version directory is as published whenever nobody installs from or into it.
VersionsAsPublished ==
    \A r \in Releases :
        Directory(r) \in {d \in Directories : versions[d] # None /\ versions[d].of = r}
        /\ r \notin {release[a] : a \in Apps} => Whole(r)

=============================================================================
