----------------------------- MODULE GpuDevice -----------------------------
(***************************************************************************)
(* One GpuSearcher (CudaSearcher in src/src/gpu.rs, MetalSearcher in       *)
(* src/src/metal_gpu.rs) with the kernel it launches (vanity_search and    *)
(* vanity_count_matches in src/cuda/vanity_kernel.cu; the Metal kernels    *)
(* are the same but for their atomics).  The host thread zeroes a buffer,  *)
(* launches one grid of threads, waits for them, and reads the buffer;     *)
(* the kernel threads walk disjoint stretches of one chain of scalars and  *)
(* race for the single result slot.                                        *)
(*                                                                         *)
(* Abstractions.  A key is tested for Hit, which stands for the reserved   *)
(* bytes and the packed prefixes (module PrefixMatch).  The batched        *)
(* inversion yields the same affine points as inverting one at a time      *)
(* (module KernelThread), so a candidate is the current point.             *)
(***************************************************************************)
EXTENDS Integers, FiniteSetsExt, Functions

CONSTANTS
  Backends,       \* subset of {"cuda", "metal"}
  NumThreads,     \* threads of a grid
  Iters,          \* ITERS_PER_THREAD
  Batch,          \* VANITY_BATCH: candidates between two looks at the flag
  MaxLaunches,    \* bound: launches of one searcher
  ScalarMod,      \* 2^256
  ClampBase,      \* 2^254
  CombReach,      \* 2^255 + 7 * 2^248: the kernel multiplies scalars below it
  RandomDraws,    \* what OsRng may return for the start scalar
  Kernels,        \* subset of BOOLEAN: TRUE, one that may report wrong pairs
  Mult(_), Add8B(_), Hit(_)

Threads == 0..(NumThreads - 1)

ASSUME GridAssumption ==
  /\ Backends \subseteq {"cuda", "metal"} /\ Kernels \subseteq BOOLEAN
  /\ NumThreads \in Nat \ {0} /\ Iters \in Nat \ {0} /\ MaxLaunches \in Nat
  /\ Batch \in Nat \ {0} /\ Iters % Batch = 0

ASSUME DeviceScalarAssumption ==
  /\ ClampBase \in Nat \ {0} /\ ClampBase % 8 = 0 /\ ScalarMod = 4 * ClampBase
  /\ RandomDraws \subseteq 0..(ScalarMod - 1)
  /\ CombReach \in 2 * ClampBase .. ScalarMod
  /\ 8 * NumThreads * Iters * MaxLaunches <= CombReach - 2 * ClampBase

\* Scalar multiplication is a homomorphism (on integers, before the wrap).
ASSUME DeviceGroupAssumption ==
  \A s \in 0..(ScalarMod - 1) :
    /\ Mult(s) \in Nat /\ Hit(Mult(s)) \in BOOLEAN
    /\ Mult(s + 8) = Add8B(Mult(s))

VARIABLES
  backend,        \* which searcher this is
  faulty,         \* may its kernel report wrong pairs?
  mode,           \* "search" or "count": the method its owner calls
  host,           \* "unopened", "idle", "waiting" for the grid, "synced", "dead"
  start_scalar,   \* first candidate of the next launch
  launches,       \* launches so far (bounded)
  buf,            \* the device buffer: flag, key, scalar, or the tally
  reply,          \* what the last call returned
  lossy,          \* history: the current grid was cut short unnoticed
  kpc, my_scalar, A, iter, local,   \* locals of the kernel threads
  tested,         \* history: scalars compared with the prefixes
  retested        \* history: was any scalar compared twice?

hostVars == <<backend, faulty, mode, host, start_scalar, launches, reply,
              lossy>>
threadVars == <<my_scalar, A, iter, local>>
vars == <<hostVars, buf, kpc, threadVars, tested, retested>>

\* total_threads * ITERS_PER_THREAD
keys_checked == NumThreads * Iters

clamp_scalar(s) == ((s - (s % 8)) % ClampBase) + ClampBase

advance_scalar(s, delta) == (s + delta) % ScalarMod

\* A zeroed buffer; its key bytes are no encoding of a multiple of B.
ZeroBuffer == [flag |-> 0, public |-> -1, scalar |-> 0, tally |-> 0]

\* What a call returns: an error, Ok(None), Ok with a pair, or a tally.
Plain(kind) == [kind |-> kind, scalar |-> 0, public |-> 0, count |-> 0]

Goto(t, label) == kpc' = [kpc EXCEPT ![t] = label]

-----------------------------------------------------------------------------
(***************************************************************************)
(* The host: new, search_batch and count_batch.                            *)
(***************************************************************************)
Init ==
  /\ backend \in Backends /\ faulty \in Kernels /\ mode \in {"search", "count"}
  /\ host = "unopened" /\ launches = 0 /\ lossy = FALSE /\ start_scalar = 0
  /\ buf = ZeroBuffer /\ reply = Plain("none")
  /\ kpc = [t \in Threads |-> "exited"]
  /\ my_scalar = [t \in Threads |-> 0] /\ A = [t \in Threads |-> Mult(0)]
  /\ iter = [t \in Threads |-> 0] /\ local = [t \in Threads |-> 0]
  /\ tested = {} /\ retested = FALSE

\* A device is there, the kernels compile, the buffers are allocated: the
\* searcher draws and clamps its start scalar.
Starts == {clamp_scalar(r) : r \in RandomDraws}

\* The candidates of a searcher's chain, as far as the bound lets it go.
Chain(r) == {r + 8 * i : i \in 0..(keys_checked * MaxLaunches - 1)}

\* 8B is not the neutral element, and no chain of this length reaches it: on
\* the curve, the first multiple of 8 past the clamped range that does lies
\* 2^127 beyond it.
ASSUME NeutralAssumption ==
  \A r \in Starts : \A s \in Chain(r) : Mult(s) # Mult(0) /\ Add8B(Mult(s)) # Mult(s)

Opened ==
  /\ host = "unopened" /\ host' = "idle"
  /\ start_scalar' \in Starts
  /\ UNCHANGED <<backend, faulty, mode, launches, reply, lossy, buf, kpc,
                 threadVars, tested, retested>>

CudaNew == backend = "cuda" /\ Opened
MetalNew == backend = "metal" /\ Opened

\* No device, a kernel that does not compile, a function it does not have:
\* new returns Err on either back end.
NewFails ==
  /\ host = "unopened" /\ host' = "dead" /\ reply' = Plain("error")
  /\ UNCHANGED <<backend, faulty, mode, start_scalar, launches, lossy, buf,
                 kpc, threadVars, tested, retested>>

Cleared_Stale == buf
Cleared == ZeroBuffer

\* Zero the buffer, upload the start scalar, launch the grid.
Launch(method) ==
  /\ mode = method /\ host = "idle" /\ launches < MaxLaunches
  /\ host' = "waiting" /\ launches' = launches + 1 /\ lossy' = FALSE
  /\ buf' = Cleared
  /\ kpc' = [t \in Threads |-> "launched"]
  /\ UNCHANGED <<backend, faulty, mode, start_scalar, reply, threadVars,
                 tested, retested>>

LaunchSearch == Launch("search")
LaunchCount == Launch("count")

\* Any CUDA call, before or after the launch, may fail: search_batch returns
\* Err, and its caller drops the searcher.
DriverError ==
  /\ backend = "cuda" /\ host \in {"unopened", "idle", "waiting", "synced"}
  /\ host' = "dead" /\ reply' = Plain("error")
  /\ UNCHANGED <<backend, faulty, mode, start_scalar, launches, lossy, buf,
                 kpc, threadVars, tested, retested>>

\* A Metal command buffer that fails stops the grid; wait_until_completed
\* returns all the same and the status of the command is not looked at.
CommandFails ==
  /\ backend = "metal" /\ host = "waiting"
  /\ \E t \in Threads : kpc[t] # "exited"
  /\ kpc' = [t \in Threads |-> "exited"]
  /\ lossy' = TRUE
  /\ UNCHANGED <<backend, faulty, mode, host, start_scalar, launches, reply,
                 buf, threadVars, tested, retested>>

\* stream.synchronize, wait_until_completed
Sync ==
  /\ host = "waiting" /\ \A t \in Threads : kpc[t] = "exited"
  /\ host' = "synced"
  /\ UNCHANGED <<backend, faulty, mode, start_scalar, launches, reply, lossy,
                 buf, kpc, threadVars, tested, retested>>

\* The host's defensive check of a reported pair, by curve25519-dalek.
Validated_Trusting(b) == TRUE
Validated(b) == Mult(b.scalar) = b.public

\* Ok: the next launch starts where this one ended.
Return(call) ==
  /\ host = "synced" /\ reply' = call
  /\ start_scalar' = advance_scalar(start_scalar, 8 * keys_checked)
  /\ UNCHANGED <<backend, faulty, mode, launches, lossy, buf, kpc, threadVars,
                 tested, retested>>

ReturnCount ==
  /\ mode = "count" /\ host' = "idle"
  /\ Return([Plain("count") EXCEPT !.count = buf.tally])

ReturnMiss ==
  /\ mode = "search" /\ buf.flag = 0 /\ host' = "idle"
  /\ Return(Plain("miss"))

\* The dispatch loop publishes the pair and drops the searcher.
ReturnKey ==
  /\ mode = "search" /\ buf.flag # 0 /\ Validated(buf) /\ host' = "dead"
  /\ Return([Plain("key") EXCEPT !.scalar = buf.scalar, !.public = buf.public])

\* Err: "GPU match validation failed"; the start scalar is not advanced.
Reject ==
  /\ host = "synced" /\ mode = "search" /\ buf.flag # 0 /\ ~Validated(buf)
  /\ host' = "dead" /\ reply' = Plain("invalid")
  /\ UNCHANGED <<backend, faulty, mode, start_scalar, launches, lossy, buf,
                 kpc, threadVars, tested, retested>>

-----------------------------------------------------------------------------
(***************************************************************************)
(* The kernel threads, while the host waits.                               *)
(***************************************************************************)
\* start + 8 * tid * iters_per_thread
ThreadStart_EightPerThread(t) == advance_scalar(start_scalar, 8 * t)
ThreadStart(t) == advance_scalar(start_scalar, 8 * t * Iters)

\* iters_per_thread / VANITY_BATCH whole batches are done.
Batches == Iters \div Batch
LastIter_OneMore == (Batches + 1) * Batch
LastIter == Batches * Batch

\* ge_scalarmult_base asks for a[31] <= 127 and is right while a[31] <= 134
\* (KernelThread); beyond that it could return anything.
ge_scalarmult_base(a) ==
  {Mult(s) : s \in IF a < CombReach THEN {a} ELSE 0..(ScalarMod - 1)}

KernelStart(t) ==
  /\ kpc[t] = "launched"
  /\ my_scalar' = [my_scalar EXCEPT ![t] = ThreadStart(t)]
  /\ \E p \in ge_scalarmult_base(ThreadStart(t)) : A' = [A EXCEPT ![t] = p]
  /\ iter' = [iter EXCEPT ![t] = 0] /\ local' = [local EXCEPT ![t] = 0]
  /\ Goto(t, "batch")
  /\ UNCHANGED <<hostVars, buf, tested, retested>>

\* The flag is looked at once per batch, by the search kernel only.
NextBatch(t) ==
  /\ kpc[t] = "batch" /\ iter[t] < LastIter
  /\ mode = "search" => buf.flag = 0
  /\ Goto(t, "scan")
  /\ UNCHANGED <<hostVars, buf, threadVars, tested, retested>>

EarlyExit_Waits(t) ==
  /\ kpc[t] = "batch" /\ mode = "search" /\ buf.flag # 0
  /\ UNCHANGED vars
EarlyExit(t) ==
  /\ kpc[t] = "batch" /\ iter[t] < LastIter
  /\ mode = "search" /\ buf.flag # 0
  /\ Goto(t, "exited")
  /\ UNCHANGED <<hostVars, buf, threadVars, tested, retested>>

\* All batches are done; the counting kernel adds its tally, if any.
LastBatchDone(t) ==
  /\ kpc[t] = "batch" /\ iter[t] = LastIter
  /\ buf' = [buf EXCEPT !.tally = @ + local[t]]
  /\ Goto(t, "exited")
  /\ UNCHANGED <<hostVars, threadVars, tested, retested>>

\* The scalar of the candidate at the current iteration.
MatchScalar_NextStep(t) == advance_scalar(my_scalar[t], 8 * (iter[t] + 1))
MatchScalar(t) == advance_scalar(my_scalar[t], 8 * iter[t])

Compare(t) ==
  /\ tested' = tested \cup {MatchScalar(t)}
  /\ retested' = (retested \/ MatchScalar(t) \in tested)

\* A miss, or any candidate of the counting kernel: A += 8B.
Scan(t) ==
  /\ kpc[t] = "scan"
  /\ mode = "search" => ~Hit(A[t])
  /\ local' = [local EXCEPT ![t] = IF Hit(A[t]) THEN @ + 1 ELSE @]
  /\ A' = [A EXCEPT ![t] = Add8B(@)]
  /\ iter' = [iter EXCEPT ![t] = @ + 1]
  /\ Compare(t)
  /\ Goto(t, IF iter'[t] % Batch = 0 THEN "batch" ELSE "scan")
  /\ UNCHANGED <<hostVars, buf, my_scalar>>

ScanHit(t) ==
  /\ kpc[t] = "scan" /\ mode = "search" /\ Hit(A[t])
  /\ Compare(t)
  /\ Goto(t, "claim")
  /\ UNCHANGED <<hostVars, buf, threadVars>>

\* atomicCAS (CUDA), atomic_exchange (Metal): only the thread that finds 0
\* goes on to write the slot.
Winner_Everyone(old) == TRUE
Winner(old) == old = 0

Claim(t) ==
  /\ kpc[t] = "claim"
  /\ buf' = [buf EXCEPT !.flag = 1]
  /\ Goto(t, IF Winner(buf.flag) THEN "write key" ELSE "exited")
  /\ UNCHANGED <<hostVars, threadVars, tested, retested>>

WriteKey(t) ==
  /\ kpc[t] = "write key"
  /\ buf' = [buf EXCEPT !.public = A[t]]
  /\ Goto(t, "write scalar")
  /\ UNCHANGED <<hostVars, threadVars, tested, retested>>

WriteScalar(t) ==
  /\ kpc[t] = "write scalar"
  /\ buf' = [buf EXCEPT !.scalar = MatchScalar(t)]
  /\ Goto(t, "exited")
  /\ UNCHANGED <<hostVars, threadVars, tested, retested>>

\* The kernel faults the host's check is there for: the index of a match is
\* off by one, or the batched inversion yields another key.
Misreport(t) ==
  /\ faulty /\ kpc[t] \in {"write key", "write scalar"}
  /\ \/ buf' = [buf EXCEPT !.public = A[t], !.scalar = MatchScalar_NextStep(t)]
     \/ buf' = [buf EXCEPT !.public = Add8B(A[t]), !.scalar = MatchScalar(t)]
  /\ Goto(t, "exited")
  /\ UNCHANGED <<hostVars, threadVars, tested, retested>>

KernelStep(t) ==
  /\ host = "waiting"
  /\ \/ KernelStart(t) \/ NextBatch(t) \/ EarlyExit(t) \/ LastBatchDone(t)
     \/ Scan(t) \/ ScanHit(t) \/ Claim(t) \/ WriteKey(t) \/ WriteScalar(t)
     \/ Misreport(t)

HostStep ==
  \/ CudaNew \/ MetalNew \/ NewFails \/ LaunchSearch \/ LaunchCount \/ DriverError
  \/ CommandFails \/ Sync \/ ReturnCount \/ ReturnMiss \/ ReturnKey \/ Reject

\* The owner is through with the searcher, or the bound is reached.
Terminated ==
  /\ host = "dead" \/ (host = "idle" /\ launches = MaxLaunches)
  /\ UNCHANGED vars

Next == HostStep \/ (\E t \in Threads : KernelStep(t)) \/ Terminated

Spec == Init /\ [][Next]_vars

\* The device runs every thread of a grid, and the host thread is scheduled.
Fairness ==
  /\ WF_vars(Sync \/ ReturnCount \/ ReturnMiss \/ ReturnKey \/ Reject)
  /\ \A t \in Threads : WF_vars(KernelStep(t))

FairSpec == Spec /\ Fairness

-----------------------------------------------------------------------------
(***************************************************************************)
(* Properties.                                                             *)
(***************************************************************************)
GTypeOK ==
  /\ backend \in Backends /\ faulty \in Kernels /\ mode \in {"search", "count"}
  /\ host \in {"unopened", "idle", "waiting", "synced", "dead"}
  /\ start_scalar \in 0..(ScalarMod - 1) /\ launches \in 0..MaxLaunches
  /\ reply.kind \in {"none", "miss", "key", "count", "error", "invalid"}
  /\ lossy \in BOOLEAN /\ retested \in BOOLEAN
  /\ buf \in [flag : 0..1, public : Int, scalar : 0..(ScalarMod - 1), tally : Nat]
  /\ kpc \in [Threads -> {"launched", "batch", "scan", "claim", "write key",
                          "write scalar", "exited"}]
  /\ my_scalar \in [Threads -> 0..(ScalarMod - 1)] /\ A \in [Threads -> Nat]
  /\ iter \in [Threads -> 0..Iters] /\ local \in [Threads -> 0..Iters]

\* gpu.rs: "successive batches cover fresh territory".  No scalar is compared
\* twice, by any two threads of any two launches.
FreshTerritory == ~retested

\* Threads race for one slot, but a correct kernel that ran to its end never
\* leaves a torn pair in it: the host's check fails only after a failed
\* Metal command (or a faulty kernel).
RejectedOnlyAfterLoss == reply.kind = "invalid" => lossy \/ faulty

\* A launch comes to an end: every thread leaves the kernel.
LaunchEnds == host = "waiting" ~> host # "waiting"

(***************************************************************************)
(* A searcher keeps its promise: the report on a launch is made when the   *)
(* call returns.                                                           *)
(***************************************************************************)
Report ==
  IF host = "unopened" THEN Plain("unopened")
  ELSE IF reply.kind = "invalid" THEN Plain("error") ELSE reply

Contract == INSTANCE GpuContract WITH
              Keys <- keys_checked, base <- start_scalar, reply <- Report

\* Candidate i of thread t's stretch of the current block.
Candidate(t, i) == start_scalar + 8 * (t * Iters + i)

\* The first n candidates of thread t, and the hits of a set of scalars.
Stretch(t, n) == {Candidate(t, i) : i \in 0..(n - 1)}
HitsAmong(S) == {s \in S : Hit(Mult(s))}

\* The chain is n blocks behind start_scalar.
BlocksDone(n) == \E r \in Starts : start_scalar = r + 8 * (keys_checked * n)

\* Where the chain stands at each place of the host's code.
StartOK ==
  /\ host = "unopened" => launches = 0 /\ start_scalar = 0 /\ tested = {}
  /\ host = "idle" => BlocksDone(launches)
  /\ host \in {"waiting", "synced"} => launches > 0 /\ BlocksDone(launches - 1)
  /\ host = "synced" => \A t \in Threads : kpc[t] = "exited"
  /\ host = "waiting" /\ lossy => \A t \in Threads : kpc[t] = "exited"

\* A call that returned without an error left no other trace.
ReplyOK ==
  /\ host = "unopened" => reply = Plain("none") /\ lossy = FALSE
  /\ host \in {"idle", "waiting", "synced"} => reply.kind \in {"none", "miss", "count"}

Claiming(t) == kpc[t] \in {"claim", "write key", "write scalar"}
Writing(t) == kpc[t] \in {"write key", "write scalar"}

\* A thread in the kernel stands at its own candidate, with that candidate's
\* point, and has counted the hits it passed.
ThreadOK(t) ==
  kpc[t] \notin {"launched", "exited"} =>
    /\ my_scalar[t] = Candidate(t, 0)
    /\ A[t] = Mult(Candidate(t, iter[t]))
    /\ local[t] = Cardinality(HitsAmong(Stretch(t, iter[t]))) /\ local[t] <= iter[t]
    /\ kpc[t] # "batch" => iter[t] < Iters
    /\ Claiming(t) => mode = "search" /\ Hit(A[t])

ThreadsOK ==
  /\ host = "waiting" => \A t \in Threads : ThreadOK(t)
  /\ mode = "search" => \A t \in Threads : local[t] = 0

\* The slot holds a hit of this block, or a pair that the host will refuse.
PairFound ==
  \E s \in Contract!HitsFrom(start_scalar) : buf.scalar = s /\ buf.public = Mult(s)
PairRefused == ~Validated(buf) /\ (lossy \/ faulty)

\* One thread at a time owns the slot, from the flag to its last write.
SlotOK ==
  host \in {"waiting", "synced"} =>
    /\ \A t, u \in Threads : Writing(t) /\ Writing(u) => t = u
    /\ \A t \in Threads : Writing(t) => buf.flag = 1 /\ buf.scalar = 0
    /\ \A t \in Threads : kpc[t] = "write key" => buf.public = -1
    /\ \A t \in Threads : kpc[t] = "write scalar" => buf.public = A[t]
    /\ buf.flag = 0 => buf.public = -1 /\ buf.scalar = 0
    /\ buf.flag = 1 /\ (\A t \in Threads : ~Writing(t)) => PairFound \/ PairRefused

\* What has been compared lies behind the chain, or behind the thread that
\* walks this stretch of the block.
TestedOK ==
  /\ host = "idle" => \A x \in tested : x < start_scalar
  /\ host \in {"waiting", "synced"} => \A x \in tested : x < start_scalar + 8 * keys_checked
  /\ host = "waiting" => \A t \in Threads :
       /\ kpc[t] = "launched" => \A x \in tested : x < Candidate(t, 0) \/ x >= Candidate(t, Iters)
       /\ kpc[t] \in {"batch", "scan"} =>
            \A x \in tested : x < Candidate(t, iter[t]) \/ x >= Candidate(t, Iters)
  /\ tested \subseteq Int /\ retested = FALSE

\* The tally holds the hits of the threads that have added theirs: all that
\* left the kernel, unless a flag or a failure let them leave early.
Tallied(E) == HitsAmong(UNION {Stretch(t, Iters) : t \in E})
TallyOK ==
  /\ host \in {"waiting", "synced"} =>
       \E E \in SUBSET Threads :
         /\ buf.tally = Cardinality(Tallied(E))
         /\ ~lossy /\ (mode = "count" \/ buf.flag = 0) =>
              E = {t \in Threads : kpc[t] = "exited"}
  /\ mode = "search" => buf.tally = 0

\* The inductive invariant.
GInv ==
  GTypeOK /\ StartOK /\ ReplyOK /\ ThreadsOK /\ SlotOK /\ TestedOK /\ TallyOK

\* Each call reports on the next block of keys_checked candidates: a pair of
\* that block that is a hit, nothing only if the block has no hit, the exact
\* number of its hits, or an error.  A wrong pair of a faulty kernel never
\* leaves search_batch.
ImplementsContract == Contract!Spec

\* metal_gpu.rs: count_batch "never exits early and atomically tallies every
\* match".
CountsAreExact ==
  [][mode = "count" /\ host = "synced" /\ reply' # reply /\ reply'.kind = "count" =>
       reply'.count = Cardinality(Contract!HitsFrom(start_scalar))]_vars

\* docs/gpu.md: every thread derives its starting point from "start_scalar +
\* 8 * tid".  The code spaces the threads 8 * ITERS_PER_THREAD apart.
StartsAsDocumented ==
  \A t \in Threads :
    host = "waiting" /\ kpc[t] \in {"batch", "scan"} =>
      my_scalar[t] = advance_scalar(start_scalar, 8 * t)
=============================================================================
