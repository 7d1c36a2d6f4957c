----------------------------- MODULE MCPackArchive -----------------------------
(* The instance TLC checks: every short upstream archive, and a payload of each    *)
(* combination of what the packager and the installer might judge differently.     *)
EXTENDS PackArchiveProps, FiniteSets

CONSTANT MaxEntries  \* of an upstream archive

MCUpstreams ==
    UNION {[1..n -> [name : Name, kind : EntryKind]] : n \in 0..MaxEntries}

MCRequired == {"sbom"}

\* Byte order: capitals before small letters, and "/" before both.
MCListing ==
    << <<"LICENSES">>, <<"LICENSES", "empty">>, <<"LICENSES", "mit">>,
       <<"Bin">>, <<"Bin", "doc">>,
       <<"Manifest.JSON">>, <<"Manifest.JSON", "part">>,
       <<"bin", "TOOL">>, <<"bin", "doc">>, <<"bin", "tool">>,
       <<"data">>, <<"data", "deep", "deeper">>,
       <<"manifest.json">>, <<"manifest.json", "part">>, <<"more">>,
       <<"sbom">>, <<"sbom", "part">> >>

Spelled == UNION {{path[i] : i \in DOMAIN path} : path \in {MCListing[n] : n \in DOMAIN MCListing}}

MCLower ==
    [name \in Spelled |->
        CASE name = "Manifest.JSON" -> "manifest.json"
          [] name = "TOOL" -> "tool"
          [] name = "Bin" -> "bin"
          [] OTHER -> name]

\* A payload from its parts.
Joined(a, b) == [path \in DOMAIN a \cup DOMAIN b |-> IF path \in DOMAIN a THEN a[path] ELSE b[path]]
One(path, kind) == [p \in {path} |-> kind]

Licenses ==
    {<<>>, One(<<"LICENSES">>, "dir"), One(<<"LICENSES">>, "file"),
     One(<<"LICENSES", "empty">>, "dir"), One(<<"LICENSES", "mit">>, "file")}
Sboms == {<<>>, One(<<"sbom">>, "file"), One(<<"sbom">>, "dir"), One(<<"sbom", "part">>, "file")}
Tools == {<<>>, One(<<"bin", "tool">>, "exec"), One(<<"bin", "tool">>, "file")}
Extras ==
    {<<>>, One(<<"Bin">>, "file"), One(<<"Bin", "doc">>, "file"),
     One(<<"bin", "TOOL">>, "file"), One(<<"bin", "doc">>, "file"),
     One(<<"data">>, "exec"), One(<<"data">>, "dense"), One(<<"data">>, "huge"),
     One(<<"data">>, "link"), One(<<"data">>, "dir"),
     Joined(One(<<"data">>, "file"), One(<<"more">>, "file")),
     One(<<"data", "deep", "deeper">>, "file"),
     One(<<"manifest.json">>, "file"), One(<<"manifest.json">>, "dir"),
     One(<<"manifest.json", "part">>, "file"),
     One(<<"Manifest.JSON">>, "file"), One(<<"Manifest.JSON">>, "dir"),
     One(<<"Manifest.JSON", "part">>, "file")}

MCPayloads ==
    {Joined(Joined(l, s), Joined(t, x)) : l \in Licenses, s \in Sboms, t \in Tools, x \in Extras}

================================================================================
