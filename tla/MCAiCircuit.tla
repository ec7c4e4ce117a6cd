---------------------------- MODULE MCAiCircuit ----------------------------
(* Small instances of AiCircuit for TLC.                                   *)
EXTENDS AiCircuit

CONSTANTS a1, a2, a3, a4

FourCalls == {a1, a2, a3, a4}
=============================================================================
