------------------------------- MODULE Bench -------------------------------
(***************************************************************************)
(* The bench command (src/src/bench.rs): run() takes the modes in turn;    *)
(* each mode starts a fresh set of workers (BenchHandle), sleeps, raises   *)
(* `stop`, joins the workers and writes one record of the shared counters. *)
(* Workers count matches and go on instead of returning at the first.      *)
(*                                                                         *)
(* Abstractions.  How many candidates of a batch match is left open; rates *)
(* and expectations are derived from the two counters by floating-point    *)
(* arithmetic and left out.  A worker meets the others only through `stop` *)
(* and the counters, so the spawning of all of them is one step.           *)
(***************************************************************************)
EXTENDS CoresBesideGpus, Sequences, Functions, Sums

CONSTANTS
  Modes,          \* the --mode arguments: "cpu1", "cpuN", ..., "all"
  Machines,       \* [logical, physical : cores, gpus : what try_init_gpu finds,
                  \*  metal : is the GPU back end the one of metal_gpu.rs?]
  AllCores,       \* the value of `threads` when --threads is not given
  ThreadArgs,     \* the --threads arguments
  GpuFeature,     \* is this a build with a GPU back end?
  WriteMayFail,   \* can the record fail to be written?
  RngMayFail,     \* can OsRng fail (it then panics the calling thread)?
  StaleReads,     \* can a Relaxed load of `stop` miss an earlier store?
  ChainBatch,     \* CHAIN_BATCH
  FlushEvery,     \* FLUSH_EVERY
  GpuBatchKeys,   \* keys_checked of one count_batch
  MaxHits,        \* bound: matches of one batch
  MaxTested,      \* bound: candidates of one CPU worker in one mode
  MaxKeys,        \* bound: keys counted in one mode when a launch starts
  MaxWorkers      \* bound: workers of one mode

ModeNames == {"cpu1", "cpuP", "cpuN", "gpu", "hybrid"}

ASSUME BenchAssumption ==
  /\ Modes \subseteq ModeNames \cup {"all"}
  /\ Machines \subseteq [logical : Nat \ {0}, physical : Nat, gpus : 0..1,
                              metal : BOOLEAN]
  /\ AllCores \notin Nat /\ ThreadArgs \subseteq Nat \cup {AllCores}
  /\ ChainBatch \in Nat \ {0} /\ FlushEvery \in Nat \ {0}
  /\ GpuBatchKeys \in Nat /\ MaxHits \in Nat /\ MaxTested \in Nat
  /\ MaxKeys \in Nat /\ MaxWorkers \in Nat
  /\ {GpuFeature, WriteMayFail, RngMayFail, StaleReads} \subseteq BOOLEAN

Workers == 1..MaxWorkers

VARIABLES
  machine, threads,        \* the machine and the --threads argument
  todo,                    \* modes still to run
  stage,                   \* where run_one_mode is
  request,                 \* CPU workers and GPUs of the current mode
  joined,                  \* workers joined so far
  stop, keys, matches,     \* the shared cells of the BenchHandle
  pc, localKeys, localMatches,   \* locals of the workers
  tested, hits,            \* history: candidates and matches of this mode,
  failed,                  \* and who had a GPU launch that did not complete
  records                  \* the records written

runVars  == <<machine, threads, todo, stage, request, joined, records>>
cellVars == <<stop, keys, matches>>
workVars == <<localKeys, localMatches, tested, hits, failed>>
vars == <<runVars, cellVars, pc, workVars>>

expand_modes(mode) ==
  IF mode = "all" THEN <<"cpu1", "cpuP", "cpuN", "gpu", "hybrid">> ELSE <<mode>>

NumThreads == IF threads = AllCores THEN machine.logical ELSE threads

\* cpu_physical_cores.unwrap_or((threads / 2).max(1)).max(1)
PhysicalThreads ==
  IF machine.physical > 0 THEN machine.physical ELSE Max({NumThreads \div 2, 1})

HybridThreads ==
  IF threads = AllCores THEN default_hybrid_cpu_threads(machine, machine.gpus)
                        ELSE threads

RequestOf(mode) ==
  CASE mode = "cpu1" -> [cpu |-> 1, gpu |-> 0]
    [] mode = "cpuN" -> [cpu |-> NumThreads, gpu |-> 0]
    [] mode = "cpuP" -> [cpu |-> PhysicalThreads, gpu |-> 0]
    [] mode = "gpu"  -> [cpu |-> 0, gpu |-> machine.gpus]
    [] mode = "hybrid" -> [cpu |-> HybridThreads, gpu |-> machine.gpus]

\* The build has no GPU back end, or try_init_gpu finds no device.
Skipped(mode) == mode \in {"gpu", "hybrid"} /\ (~GpuFeature \/ machine.gpus = 0)

IsCpu(w) == w <= request.cpu
Total == request.cpu + request.gpu

Goto(w, label) == pc' = [pc EXCEPT ![w] = label]

Zero == [w \in Workers |-> 0]
Nobody == [w \in Workers |-> FALSE]

Init ==
  /\ machine \in Machines /\ threads \in ThreadArgs
  /\ \E mode \in Modes : todo = expand_modes(mode)
  /\ stage = "validate" /\ request = [cpu |-> 0, gpu |-> 0] /\ joined = 0
  /\ stop = FALSE /\ keys = 0 /\ matches = 0
  /\ pc = [w \in Workers |-> "exited"]
  /\ localKeys = Zero /\ localMatches = Zero /\ tested = Zero /\ hits = Zero
  /\ failed = Nobody
  /\ records = <<>>

-----------------------------------------------------------------------------
(***************************************************************************)
(* run and run_one_mode.                                                   *)
(***************************************************************************)
\* validate_prefix accepts every --prefix, or run returns its error.
Validate ==
  /\ stage = "validate"
  /\ stage' \in {"pick", "failed"}
  /\ UNCHANGED <<machine, threads, todo, request, joined, records, cellVars, pc,
                 workVars>>

Skip ==
  /\ stage = "pick" /\ todo # <<>> /\ Skipped(Head(todo))
  /\ todo' = Tail(todo)
  /\ UNCHANGED <<machine, threads, stage, request, joined, records, cellVars,
                 pc, workVars>>

\* A fresh BenchHandle with its workers.
Start ==
  /\ stage = "pick" /\ todo # <<>> /\ ~Skipped(Head(todo))
  /\ request' = RequestOf(Head(todo))
  /\ request'.cpu + request'.gpu <= MaxWorkers
  /\ stage' = "measuring" /\ joined' = 0
  /\ pc' = [w \in Workers |->
              IF w <= request'.cpu + request'.gpu THEN "spawned" ELSE "exited"]
  /\ UNCHANGED <<machine, threads, todo, records, cellVars, workVars>>

\* BenchHandle::stop, after the sleep: raise `stop` ...
RaiseStop ==
  /\ stage = "measuring"
  /\ stop' = TRUE /\ stage' = "joining"
  /\ UNCHANGED <<machine, threads, todo, request, joined, records, keys,
                 matches, pc, workVars>>

\* ... join every worker, whether it returned or panicked ...
Join ==
  /\ stage = "joining" /\ joined < Total
  /\ pc[joined + 1] \in {"exited", "panicked"}
  /\ joined' = joined + 1
  /\ UNCHANGED <<machine, threads, todo, stage, request, records, cellVars, pc,
                 workVars>>

\* ... and read the counters into a record, or fail to write it.
JoinedAll_CpuOnly == joined >= request.cpu
JoinedAll == joined = Total

\* The handle is gone once its totals are taken.
Dropped ==
  /\ stop' = FALSE /\ keys' = 0 /\ matches' = 0
  /\ localKeys' = Zero /\ localMatches' = Zero /\ tested' = Zero /\ hits' = Zero
  /\ failed' = Nobody
  /\ UNCHANGED pc

Record ==
  /\ stage = "joining" /\ JoinedAll
  /\ records' = Append(records, Head(todo))
  /\ todo' = Tail(todo) /\ stage' = "pick"
  /\ Dropped
  /\ UNCHANGED <<machine, threads, request, joined>>

WriteFails ==
  /\ WriteMayFail /\ stage = "joining" /\ JoinedAll
  /\ stage' = "failed"
  /\ Dropped
  /\ UNCHANGED <<machine, threads, todo, request, joined, records>>

-----------------------------------------------------------------------------
(***************************************************************************)
(* spawn_cpu_bench_worker.                                                 *)
(***************************************************************************)
CpuStart(w) ==
  /\ IsCpu(w) /\ pc[w] = "spawned"
  /\ Goto(w, "loop")
  /\ UNCHANGED <<runVars, cellVars, workVars>>

RngPanic(w) ==
  /\ RngMayFail /\ IsCpu(w) /\ pc[w] = "spawned"
  /\ Goto(w, "panicked")
  /\ UNCHANGED <<runVars, cellVars, workVars>>

FlushDue(count) == count >= FlushEvery

\* One batch: all its candidates are compared, matches only counted.
CpuBatch(w) ==
  /\ IsCpu(w) /\ pc[w] = "loop"
  /\ ~stop \/ StaleReads
  /\ tested[w] + ChainBatch <= MaxTested
  /\ \E n \in 0..MaxHits :
       /\ localMatches' = [localMatches EXCEPT ![w] = @ + n]
       /\ hits' = [hits EXCEPT ![w] = @ + n]
  /\ localKeys' = [localKeys EXCEPT ![w] = @ + ChainBatch]
  /\ tested' = [tested EXCEPT ![w] = @ + ChainBatch]
  /\ Goto(w, IF FlushDue(localKeys'[w]) THEN "flush keys" ELSE "loop")
  /\ UNCHANGED <<runVars, cellVars, failed>>

CpuStop_Deaf(w) == IsCpu(w) /\ pc[w] = "loop" /\ stop /\ UNCHANGED vars
CpuStop(w) ==
  /\ IsCpu(w) /\ pc[w] = "loop" /\ stop
  /\ Goto(w, "drain keys")
  /\ UNCHANGED <<runVars, cellVars, workVars>>

\* The two counters are flushed one after the other, in the loop and after it.
FlushedKeys_Kept(w) == localKeys[w]
FlushedKeys(w) == 0

FlushKeys(w) ==
  /\ pc[w] \in {"flush keys", "drain keys"}
  /\ keys' = keys + localKeys[w]
  /\ localKeys' = [localKeys EXCEPT ![w] = FlushedKeys(w)]
  /\ Goto(w, IF pc[w] = "flush keys" THEN "flush matches" ELSE "drain matches")
  /\ UNCHANGED <<runVars, stop, matches, localMatches, tested, hits, failed>>

Drained_KeysOnly(w) == 0
Drained(w) == localMatches[w]

FlushMatches(w) ==
  /\ pc[w] \in {"flush matches", "drain matches"}
  /\ matches' = matches + IF pc[w] = "flush matches" THEN localMatches[w]
                                                      ELSE Drained(w)
  /\ localMatches' = [localMatches EXCEPT ![w] = 0]
  /\ Goto(w, IF pc[w] = "flush matches" THEN "loop" ELSE "exited")
  /\ UNCHANGED <<runVars, stop, keys, localKeys, tested, hits, failed>>

(***************************************************************************)
(* spawn_gpu_bench_worker.  A launch that completes is counted exactly, as *)
(* GpuDevice shows; of one that fails, any part has been compared.         *)
(***************************************************************************)
GpuDispatch(w) ==
  /\ ~IsCpu(w) /\ pc[w] \in {"spawned", "loop"}
  /\ ~stop \/ StaleReads
  /\ keys + GpuBatchKeys <= MaxKeys
  /\ Goto(w, "dispatch")
  /\ UNCHANGED <<runVars, cellVars, workVars>>

\* Matches among k candidates.
HitsAmong(k) == {n \in 0..MaxHits : n <= k}

\* The launch compared k candidates and found n matches among them.
Compared(w, k, n) ==
  /\ tested' = [tested EXCEPT ![w] = @ + k]
  /\ hits' = [hits EXCEPT ![w] = @ + n]

\* Ok((k, m)): k is added here, m in a step of its own.
Counted(w, m) ==
  /\ keys' = keys + GpuBatchKeys
  /\ localMatches' = [localMatches EXCEPT ![w] = m]
  /\ Goto(w, "flush matches")
  /\ UNCHANGED <<runVars, stop, matches, localKeys>>

GpuCount(w) ==
  /\ pc[w] = "dispatch"
  /\ \E n \in HitsAmong(GpuBatchKeys) : Compared(w, GpuBatchKeys, n) /\ Counted(w, n)
  /\ UNCHANGED failed

\* Metal's count_batch never looks at how its command ended: it answers with
\* the keys of a whole launch and with whatever tally the buffer holds.
GpuLossyCount(w) ==
  /\ machine.metal /\ pc[w] = "dispatch"
  /\ \E k \in 0..GpuBatchKeys : \E n \in HitsAmong(k) :
       Compared(w, k, n) /\ \E m \in 0..n : Counted(w, m)
  /\ failed' = [failed EXCEPT ![w] = TRUE]

\* Err, before the kernel ran or after it: the thread returns without a count,
\* and the record will still name the device.  Metal's count_batch has no Err.
GpuError(w) ==
  /\ ~machine.metal /\ pc[w] = "dispatch"
  /\ \E k \in 0..GpuBatchKeys : \E n \in HitsAmong(k) : Compared(w, k, n)
  /\ failed' = [failed EXCEPT ![w] = TRUE]
  /\ Goto(w, "exited")
  /\ UNCHANGED <<runVars, cellVars, localKeys, localMatches>>

GpuStop(w) ==
  /\ ~IsCpu(w) /\ pc[w] \in {"spawned", "loop"} /\ stop
  /\ Goto(w, "exited")
  /\ UNCHANGED <<runVars, cellVars, workVars>>

-----------------------------------------------------------------------------
WorkerStep(w) ==
  \/ CpuStart(w) \/ RngPanic(w) \/ CpuBatch(w) \/ CpuStop(w) \/ FlushKeys(w)
  \/ FlushMatches(w) \/ GpuDispatch(w) \/ GpuCount(w) \/ GpuLossyCount(w)
  \/ GpuError(w) \/ GpuStop(w)

RunStep == Validate \/ Skip \/ Start \/ RaiseStop \/ Join \/ Record \/ WriteFails

\* run() has returned: Ok when no mode is left, Err when a prefix is
\* invalid or a write failed.
Returned ==
  stage = "failed" \/ (stage = "pick" /\ todo = <<>>)

Next ==
  RunStep \/ (\E w \in Workers : WorkerStep(w)) \/ (Returned /\ UNCHANGED vars)

Spec == Init /\ [][Next]_vars

\* The main thread wakes from its sleep, workers keep being scheduled, and a
\* worker that keeps testing a raised `stop` sees it in the end.
Fairness ==
  /\ WF_vars(RunStep)
  /\ \A w \in Workers : WF_vars(WorkerStep(w)) /\ SF_vars(CpuStop(w) \/ GpuStop(w))

FairSpec == Spec /\ Fairness

-----------------------------------------------------------------------------
BTypeOK ==
  /\ machine \in Machines /\ threads \in ThreadArgs
  /\ todo \in Seq(ModeNames)
  /\ stage \in {"validate", "pick", "measuring", "joining", "failed"}
  /\ request \in [cpu : Nat, gpu : Nat] /\ joined \in 0..Total
  /\ stop \in BOOLEAN /\ keys \in Nat /\ matches \in Nat
  /\ pc \in [Workers -> {"spawned", "loop", "flush keys", "flush matches",
                         "drain keys", "drain matches", "dispatch", "exited",
                         "panicked"}]
  /\ localKeys \in [Workers -> 0..(FlushEvery + ChainBatch - 1)]
  /\ localMatches \in [Workers -> Nat]

Sum(f) == SumUpTo(f, MaxWorkers)

\* What the failed launches of CUDA devices may have compared uncounted: such a
\* device ends with its first failure.
Uncounted ==
  [w \in Workers |-> IF failed[w] /\ ~machine.metal THEN GpuBatchKeys ELSE 0]

\* gpu.rs, docs/gpu.md: observed matches can be set against the reported rate.
\* Workers flush two counters in blocks, at different moments and on the way
\* out, and may fail or panic.  If every GPU launch completed, a record still
\* holds exactly the candidates that were compared and exactly the matches among
\* them.  It never reports a match that was not found.  A failed launch makes a
\* CUDA record at most one launch per device short of the candidates compared,
\* and a Metal record hold candidates that never were.
Totals ==
  /\ (\A w \in Workers : ~failed[w]) => keys = Sum(tested) /\ matches = Sum(hits)
  /\ matches <= Sum(hits)
  /\ Sum(tested) <= keys + Sum(Uncounted)
  /\ ~machine.metal => keys <= Sum(tested)

TotalsExact == [][records' # records => Totals]_vars

Gone(w) == pc[w] \in {"exited", "panicked"}

\* No worker of one mode runs on while the next is measured.
ModesIsolated ==
  stage \in {"validate", "pick", "failed"} => \A w \in Workers : Gone(w)

\* What a worker may still hold: nothing before its loop, in a dispatch and once
\* it is gone, and no keys between the two flushes, so that whoever finds every
\* worker gone reads counters that lack nothing.
HandsOK(w) ==
  /\ pc[w] \in {"spawned", "dispatch"} \/ Gone(w) \/ (pc[w] = "loop" /\ ~IsCpu(w)) =>
       localKeys[w] = 0 /\ localMatches[w] = 0
  /\ pc[w] \in {"flush matches", "drain matches"} => localKeys[w] = 0
  /\ pc[w] \in {"flush keys", "drain keys", "drain matches"} => IsCpu(w)
  /\ pc[w] = "loop" => localKeys[w] < FlushEvery

\* A mode is measured while it is first in `todo`, stop() has joined workers that
\* are gone, and only the workers of the current mode can be anything else.
StagesOK ==
  /\ BTypeOK /\ ModesIsolated
  /\ stage \in {"measuring", "joining"} => todo # <<>>
  /\ \A w \in Workers : HandsOK(w) /\ (w <= joined \/ w > Total => Gone(w))

\* What the workers hold makes up for what the shared counters lack, but for
\* the launches that failed: only GPUs have those, CUDA devices at most one.
CountsBalance ==
  /\ tested \in [Workers -> Nat] /\ hits \in [Workers -> Nat]
  /\ failed \in [Workers -> BOOLEAN]
  /\ stage \in {"validate", "pick", "failed"} => failed = Nobody
  /\ \A w \in Workers : failed[w] => machine.metal \/ Gone(w)
  /\ (\A w \in Workers : ~failed[w]) =>
       /\ keys + Sum(localKeys) = Sum(tested)
       /\ matches + Sum(localMatches) = Sum(hits)
  /\ matches + Sum(localMatches) <= Sum(hits)
  /\ Sum(tested) <= keys + Sum(localKeys) + Sum(Uncounted)
  /\ ~machine.metal => keys + Sum(localKeys) <= Sum(tested)

\* The inductive invariant.
BInv == StagesOK /\ CountsBalance

\* bench ends, whatever becomes of its workers.
BenchEnds == <>Returned
=============================================================================
