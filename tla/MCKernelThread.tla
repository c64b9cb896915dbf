--------------------------- MODULE MCKernelThread ---------------------------
(***************************************************************************)
(* A base point of order 13 on a curve over the field of 101 elements.     *)
(* Every scalar of two bytes up to 134 * 256 + 255 is multiplied; chains of two batches of four  *)
(* are walked from every residue modulo the order.  Chains have no match,  *)
(* one, or several, in either batch; 40 and 68 each belong to two points   *)
(* that differ in the sign of x only.                                      *)
(***************************************************************************)
EXTENDS KernelThread, SmallCurves

MCInputs == 0 .. 135 * 256 - 1
MCStarts == {64 + 8 * k : k \in 0 .. 12}
MCWantedSets == {{40}, {68, 9, 1}, {}}
=============================================================================
