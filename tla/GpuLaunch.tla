----------------------------- MODULE GpuLaunch -----------------------------
(***************************************************************************)
(* What one launch of a GpuSearcher covers (the doc comments of            *)
(* search_batch in src/src/gpu.rs and of start_scalar in CudaSearcher):    *)
(* the next block of consecutive candidates of the device's chain.  It is  *)
(* what the devices (GpuDevice, through GpuContract) and the engine that   *)
(* drives them (Search) agree on.                                          *)
(***************************************************************************)
EXTENDS Integers

CONSTANTS
  Keys,        \* keys_checked: candidates per launch
  ScalarMod,   \* 2^256
  Mult(_),     \* scalar |-> scalar * B
  Hit(_)       \* is this key worth reporting?

Block(start) == {(start + 8 * i) % ScalarMod : i \in 0..(Keys - 1)}

HitsFrom(start) == {s \in Block(start) : Hit(Mult(s))}
=============================================================================
