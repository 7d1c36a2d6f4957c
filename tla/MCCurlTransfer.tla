----------------------------- MODULE MCCurlTransfer -----------------------------
(* CurlTransfer for TLC. *)
EXTENDS CurlTransferProps

\* A file that changes twice, to a shorter one and back to its length.
MCLengths == <<3, 2, 3>>

================================================================================
