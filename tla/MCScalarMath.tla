---------------------------- MODULE MCScalarMath ----------------------------
(* ScalarMath with all scalars of three octal bytes and all two-byte deltas. *)
EXTENDS ScalarMath
=============================================================================
