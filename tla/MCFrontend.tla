----------------------------- MODULE MCFrontend -----------------------------
(* Instances of Frontend over the toy curve. *)
EXTENDS Frontend, ToyCurve

\* A build without GPU code, a device that does not open, and an open device
\* of either kind; on one core, or on one core with SMT.
MCMachines ==
  {[logical |-> 2, physical |-> 1, build |-> "cpu", opens |-> FALSE],
   [logical |-> 2, physical |-> 1, build |-> "cuda", opens |-> FALSE],
   [logical |-> 1, physical |-> 1, build |-> "cuda", opens |-> TRUE],
   [logical |-> 2, physical |-> 1, build |-> "metal", opens |-> TRUE]}

\* Every legal combination of flags, with -t 0, -t 1 or no -t, with a valid or
\* an invalid prefix, with and without --verify, and the bench subcommand.
MCClis ==
  {c \in [command : {"search", "verify"}, valid : BOOLEAN, json : BOOLEAN,
          cpu_only : BOOLEAN, gpu_only : BOOLEAN, threads : {0, 1, AllCores}] :
     ~(c.cpu_only /\ c.gpu_only)}
  \cup {[command |-> "bench", valid |-> FALSE, json |-> FALSE, cpu_only |-> FALSE,
         gpu_only |-> FALSE, threads |-> AllCores]}

\* An interactive GPU-only search on one device.
GpuOnlyCli ==
  {[command |-> "search", valid |-> TRUE, json |-> FALSE, cpu_only |-> FALSE,
    gpu_only |-> TRUE, threads |-> AllCores]}

\* A chain that hits at its third candidate and one that never does.
FewDraws == {216, 240}

OneGpu == {[logical |-> 2, physical |-> 1, build |-> "cuda", opens |-> TRUE]}

MCRequests ==
  {r \in [cpu : 0..2, gpu : 0..1, metal : BOOLEAN] : r.cpu + r.gpu <= 2}
=============================================================================
