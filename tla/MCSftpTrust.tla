------------------------------ MODULE MCSftpTrust ------------------------------
(* SftpTrust for TLC. *)
EXTENDS SftpTrustProps

CONSTANTS k1, k2

\* Each of two jobs belongs to an instance of its own, so that all commands interleave.
MCOwner == [j \in Jobs |-> j]

\* A new key, and the old one again.
MCRotation == <<k1, k2, k1>>

================================================================================
