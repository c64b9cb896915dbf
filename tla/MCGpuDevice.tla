---------------------------- MODULE MCGpuDevice ----------------------------
(***************************************************************************)
(* Instances of GpuDevice: a grid of two threads with four candidates      *)
(* each, so a launch covers 8 candidates, 64 scalars apart.  Of the four   *)
(* launches that start at 2048, 2112, 4072 and 4136, the first has a hit   *)
(* in either thread, the third none, and the others one.  Clamped scalars  *)
(* end at 4096, the reach of the comb at 4320 (2^255 and 2^255 + 7 * 2^248 *)
(* on this scale): the last two launches cross the first and stay below    *)
(* the second.                                                             *)
(***************************************************************************)
EXTENDS GpuDevice

MCRandomDraws == {5, 4072}

MCMult(s) == s % 149

MCAdd8B(p) == (p + 8) % 149

MCHit(key) == key \in {MCMult(s) : s \in {2064, 2096, 2136, 4184}}

BothBackends == {"cuda", "metal"}
=============================================================================
