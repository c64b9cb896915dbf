------------------------------ MODULE MCSearch ------------------------------
(* Instances of Search over the toy curve. *)
EXTENDS Search, ToyCurve

\* CPU-only, CUDA-only, Metal-only and hybrid searches, and one with no thread
\* (-t 0).  A Mac has one Metal device, the system's default.
SmallRequests ==
  {r \in [cpu : 0..2, gpu : 0..2, metal : BOOLEAN] :
     r.cpu + r.gpu <= 2 /\ (r.metal => r.gpu = 1)}
=============================================================================
