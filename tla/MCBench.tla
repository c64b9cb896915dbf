------------------------------ MODULE MCBench ------------------------------
(***************************************************************************)
(* Instances of Bench: two logical cores on one physical core beside a     *)
(* CUDA device, one core beside a Metal device, and one core of an unknown *)
(* physical number beside no GPU, with as many threads as cores or two.    *)
(***************************************************************************)
EXTENDS Bench

CONSTANT All

MCMachines == {[logical |-> 2, physical |-> 1, gpus |-> 1, metal |-> FALSE],
               [logical |-> 1, physical |-> 1, gpus |-> 1, metal |-> TRUE],
               [logical |-> 1, physical |-> 0, gpus |-> 0, metal |-> FALSE]}

MCModes == {"cpuN", "gpu", "all"}

ThreadChoices == {All, 2}
=============================================================================
