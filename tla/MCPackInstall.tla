----------------------------- MODULE MCPackInstall -----------------------------
(* PackInstall on small instances, given by the .cfg files. *)
EXTENDS PackInstallProps, TLC

CONSTANTS a1, a2, core, ffmpeg

(* Two releases of a pack, the second published twice with different content,  *)
(* and a pack that needs the second of them.                                   *)
F1 == [pack |-> ffmpeg, version |-> 1, sequence |-> 1, build |-> 1]
F2 == [pack |-> ffmpeg, version |-> 2, sequence |-> 2, build |-> 1]
F2Again == [pack |-> ffmpeg, version |-> 2, sequence |-> 2, build |-> 2]
Core == [pack |-> core, version |-> 1, sequence |-> 1, build |-> 1]

MCReleases == {F1, F2, F2Again, Core}
MCNeeds == [r \in MCReleases |-> IF r = Core THEN {F2, F2Again} ELSE {}]

Symmetry == Permutations(Apps)

=============================================================================
