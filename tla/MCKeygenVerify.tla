--------------------------- MODULE MCKeygenVerify ---------------------------
(* Six steps, three mismatches at most, any two faults of the device. *)
EXTENDS KeygenVerify
=============================================================================
