--------------------------- MODULE MCLogPipeline ---------------------------
(* Small instances of LogPipeline for TLC.                                 *)
EXTENDS LogPipeline

CONSTANTS r1, r2, r3, r4

FourRecords == {r1, r2, r3, r4}
=============================================================================
