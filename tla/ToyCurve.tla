------------------------------ MODULE ToyCurve ------------------------------
(***************************************************************************)
(* A small stand-in for the curve, the prefixes and the random source in   *)
(* the instances TLC checks.  The scalars of 2^256 become 256 values with  *)
(* the clamped range 64..127, and the group has 37 elements: prime, so     *)
(* that multiplication keeps the scalars of a chain apart.                 *)
(*                                                                         *)
(* Chains start at 64 and 88, which reach the hit at 104 at different      *)
(* places of a batch, and at 112.  Key 104 matches both prefixes; key 144  *)
(* matches B, lies beyond the clamped range and is in reach of a GPU only, *)
(* whose launch of five candidates from 112 ends with it: a CPU worker is  *)
(* stopped by the bound before.  Key 80 would match A but is reserved.     *)
(***************************************************************************)
EXTENDS Integers

CONSTANTS A, B

MCPrefixes == <<A, B>>

MCMult(s) == s % 37

MCAdd8B(p) == (p + 8) % 37

MCShouldSkip(key) == key = MCMult(80)

MCMatches(p, key) ==
  key \in IF p = A THEN {MCMult(80), MCMult(104)} ELSE {MCMult(104), MCMult(144)}

\* Raw draws, two of them not clamped.
MCRandomDraws == {67, 216, 112}
=============================================================================
