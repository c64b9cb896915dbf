-------------------------- MODULE CoresBesideGpus --------------------------
(***************************************************************************)
(* How many CPU workers a hybrid search or measurement runs beside its     *)
(* GPUs: default_hybrid_cpu_threads (src/src/search.rs).  A record m says  *)
(* what the computer reports: m.logical and m.physical are its cores,      *)
(* m.physical is 0 when the number is unknown.                             *)
(***************************************************************************)
EXTENDS Integers, FiniteSetsExt

\* The cores kept for the dispatch thread of one GPU: an SMT pair, or one core.
SmtFactor(m) == IF m.physical > 0 /\ m.logical > m.physical THEN 2 ELSE 1

\* logical.saturating_sub(smt_factor * num_gpus).max(1)
default_hybrid_cpu_threads_NoMax(m, gpus) ==
  Max({m.logical - SmtFactor(m) * gpus, 0})
default_hybrid_cpu_threads(m, gpus) == Max({m.logical - SmtFactor(m) * gpus, 1})
=============================================================================
