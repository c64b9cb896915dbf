------------------------------- MODULE Search -------------------------------
(***************************************************************************)
(* The search engine of mc-keygen (src/src/search.rs): a SearchHandle, the *)
(* CPU workers and GPU dispatch threads it spawns, the three shared cells  *)
(* they communicate through (found, attempts, result) and finish(), which  *)
(* joins the threads and takes the result.                                 *)
(*                                                                         *)
(* Threads are numbered by their place in the vector `workers`: the CPU    *)
(* workers first, then one dispatch thread per GPU.  A step of a thread    *)
(* makes at most one access to a shared cell, so every interleaving of     *)
(* those accesses is a behaviour.                                          *)
(*                                                                         *)
(* Abstractions.  A curve point and its 32-byte encoding are one value     *)
(* (compress is injective on the group), a scalar is its integer value,    *)
(* and a prefix is an opaque value with the predicate Matches.  The random *)
(* second half of the private key carries no requirement and is left out.  *)
(***************************************************************************)
EXTENDS Integers, Sequences, FiniteSetsExt, Functions, Sums

CONSTANTS
  MaxThreads,     \* bound on the number of threads
  Requests,       \* the [cpu, gpu, metal] searches: thread counts, kind of device
  ChainBatch,     \* CHAIN_BATCH: candidates per loop iteration (16)
  BatchSize,      \* BATCH_SIZE: flush threshold of local_count (1024)
  GpuBatchKeys,   \* keys_checked of one GPU launch
  ScalarMod,      \* 2^256, where the 32-byte scalar wraps
  ClampTop,       \* 2^255: clamped scalars lie below it
  ClampBase,      \* 2^254: clamped scalars lie at or above it
  CombReach,      \* 2^255 + 7 * 2^248: the kernel multiplies scalars below it
  ChainLimit,     \* bound: no chain is followed beyond this scalar
  RandomDraws,    \* what OsRng may return for a 32-byte scalar
  Prefixes,       \* the validated prefixes, in command-line order
  RngMayFail,     \* can OsRng fail (it then panics the calling thread)?
  StaleReads,     \* can a Relaxed load of `found` miss an earlier store?
  Mult(_),        \* scalar |-> scalar * B
  Add8B(_),       \* point |-> point + 8B
  Matches(_, _),  \* PrefixMatcher::matches
  ShouldSkip(_)   \* should_skip: keys starting with 00 or FF

Threads == 1..MaxThreads

ASSUME SizesAssumption ==
  /\ MaxThreads \in Nat /\ ChainBatch \in Nat \ {0}
  /\ BatchSize \in Nat \ {0} /\ BatchSize % ChainBatch = 0
  /\ GpuBatchKeys \in Nat \ {0}
  /\ RngMayFail \in BOOLEAN /\ StaleReads \in BOOLEAN

ASSUME RequestsAssumption ==
  /\ Requests \subseteq [cpu : Nat, gpu : Nat, metal : BOOLEAN]
  /\ \A r \in Requests : r.cpu + r.gpu \in 0..MaxThreads

ASSUME ScalarAssumption ==
  /\ ClampBase \in Nat \ {0} /\ ClampBase % 8 = 0
  /\ ClampTop = 2 * ClampBase /\ ScalarMod = 2 * ClampTop
  /\ ChainLimit \in ClampTop..CombReach /\ CombReach \in ClampTop..ScalarMod
  /\ RandomDraws \subseteq 0..(ScalarMod - 1)

\* clap requires at least one prefix.
ASSUME PrefixesAssumption == Prefixes \in Seq(Range(Prefixes)) /\ Len(Prefixes) > 0

\* Scalar multiplication is a homomorphism: the only group law the chain uses.
ASSUME GroupAssumption ==
  \A s \in 0..(ScalarMod - 1) : Mult(s + 8) = Add8B(Mult(s))

ASSUME PredicatesAssumption ==
  \A s \in 0..(ScalarMod - 1) :
    /\ ShouldSkip(Mult(s)) \in BOOLEAN
    /\ \A i \in DOMAIN Prefixes : Matches(Prefixes[i], Mult(s)) \in BOOLEAN

VARIABLES
  request,     \* what this search was started with
  spawned,     \* workers.len() while the constructor runs
  handle,      \* where the owner of the SearchHandle is
  joined,      \* how many threads finish() has joined
  outcome,     \* what finish() returned
  found, attempts, result,                         \* the shared cells
  pc, scalar, point, nextPoint, idx, localCount,   \* locals of the threads
  match,       \* the match a thread is about to publish
  start,       \* history: the scalar a chain began with
  tested,      \* history: candidates a thread really compared
  uncounted    \* history: those of its last GPU launch, until they are counted

handleVars == <<request, spawned, handle, joined, outcome>>
chainVars  == <<scalar, point, nextPoint, idx, start>>
histories  == <<tested, uncounted>>
vars == <<handleVars, found, attempts, result, pc, chainVars, localCount,
          match, histories>>

NoMatch == [private |-> -1, public |-> -1, prefix |-> -1]

NoOutcome == [ok |-> FALSE, answer |-> NoMatch, attempts |-> -1]

(***************************************************************************)
(* Scalars and prefixes.                                                   *)
(***************************************************************************)

\* s[0] &= 248; s[31] &= 63; s[31] |= 64
clamp_scalar_HighBitOnly(s) == (s - (s % 8)) % ScalarMod
clamp_scalar(s) == ((s - (s % 8)) % ClampBase) + ClampBase

advance_scalar(s, delta) == (s + delta) % ScalarMod

MatchingPositions(key) == {i \in DOMAIN Prefixes : Matches(Prefixes[i], key)}

\* matchers.iter().find(...): the earliest prefix on the command line wins.
FindPrefix(key) == Prefixes[Min(MatchingPositions(key))]

\* A candidate ends the search: not reserved, and some prefix matches it.
Hit(key) == ~ShouldSkip(key) /\ MatchingPositions(key) # {}

(***************************************************************************)
(* A GPU searcher keeps the contract of module GpuLaunch, which GpuDevice  *)
(* checks the two back ends for: a launch covers the GpuBatchKeys          *)
(* candidates from its start scalar on, hands out a hit among them that    *)
(* passed the host's check, and comes back without one only when there is  *)
(* none, or when a Metal command failed unnoticed.  The kernel's own       *)
(* prefix test is Hit (module PrefixMatch).                                *)
(***************************************************************************)
Device == INSTANCE GpuLaunch WITH Keys <- GpuBatchKeys

LaunchHits(w) == Device!HitsFrom(scalar[w])

\* A GPU match until it is published: its prefix is not looked up before.
Unnamed(s) == [private |-> s, public |-> Mult(s), prefix |-> -1]

IsCpu(w) == w <= request.cpu
IsGpu(w) == w > request.cpu
Total == request.cpu + request.gpu

Goto(w, label) == pc' = [pc EXCEPT ![w] = label]

(***************************************************************************)
(* SearchHandle::start, start_gpu, start_hybrid: the three constructors    *)
(* differ only in the numbers of CPU and GPU threads they push, one by     *)
(* one, while the threads already pushed run.                              *)
(***************************************************************************)
Init ==
  /\ request \in Requests
  /\ spawned = 0 /\ handle = "starting" /\ joined = 0 /\ outcome = NoOutcome
  /\ found = FALSE /\ attempts = 0 /\ result = NoMatch
  /\ pc = [w \in Threads |-> "unspawned"]
  /\ scalar = [w \in Threads |-> 0]
  /\ point = [w \in Threads |-> Mult(0)]
  /\ nextPoint = [w \in Threads |-> Mult(0)]
  /\ idx = [w \in Threads |-> 0]
  /\ start = [w \in Threads |-> 0]
  /\ localCount = [w \in Threads |-> 0]
  /\ match = [w \in Threads |-> NoMatch]
  /\ tested = [w \in Threads |-> 0]
  /\ uncounted = [w \in Threads |-> 0]

Spawn ==
  /\ handle = "starting" /\ spawned < Total
  /\ spawned' = spawned + 1
  /\ Goto(spawned + 1, "spawned")
  /\ UNCHANGED <<request, handle, joined, outcome, found, attempts, result,
                 chainVars, localCount, match, histories>>

Started ==
  /\ handle = "starting" /\ spawned = Total
  /\ handle' = "running"
  /\ UNCHANGED <<request, spawned, joined, outcome, found, attempts, result,
                 pc, chainVars, localCount, match, histories>>

(***************************************************************************)
(* spawn_cpu_worker: the closure each CPU worker runs.                     *)
(***************************************************************************)

\* The private scalar of the candidate at idx of the current batch.
MatchScalar_BatchBase(w) == scalar[w]
MatchScalar(w) == advance_scalar(scalar[w], 8 * idx[w])

\* What a worker adds to `attempts` when candidate idx is a hit.
HitCount_OffByOne(w) == localCount[w] + idx[w]
HitCount(w) == localCount[w] + idx[w] + 1

FlushDue_Late(count) == count > BatchSize
FlushDue(count) == count >= BatchSize

\* One random clamped scalar and one full scalar multiplication.
CpuStart(w) ==
  /\ IsCpu(w) /\ pc[w] = "spawned"
  /\ \E r \in RandomDraws :
       /\ scalar' = [scalar EXCEPT ![w] = clamp_scalar(r)]
       /\ start'  = [start EXCEPT ![w] = clamp_scalar(r)]
       /\ point'  = [point EXCEPT ![w] = Mult(clamp_scalar(r))]
  /\ localCount' = [localCount EXCEPT ![w] = 0]
  /\ Goto(w, "loop")
  /\ UNCHANGED <<handleVars, found, attempts, result, nextPoint, idx, match,
                 histories>>

\* The while test reads FALSE; a Relaxed load may miss a store.  The bound:
\* a chain is followed while its next batch base lies below ChainLimit.
CpuContinue(w) ==
  /\ IsCpu(w) /\ pc[w] = "loop"
  /\ ~found \/ StaleReads
  /\ scalar[w] + 8 * ChainBatch < ChainLimit
  /\ nextPoint' = [nextPoint EXCEPT ![w] = point[w]]
  /\ idx' = [idx EXCEPT ![w] = 0]
  /\ Goto(w, "batch")
  /\ UNCHANGED <<handleVars, found, attempts, result, scalar, point, start,
                 localCount, match, histories>>

CpuMiss(w) ==
  /\ pc[w] = "batch" /\ idx[w] < ChainBatch
  /\ ~Hit(nextPoint[w])
  /\ nextPoint' = [nextPoint EXCEPT ![w] = Add8B(@)]
  /\ idx' = [idx EXCEPT ![w] = @ + 1]
  /\ tested' = [tested EXCEPT ![w] = @ + 1]
  /\ UNCHANGED <<handleVars, found, attempts, result, pc, scalar, point, start,
                 localCount, match, uncounted>>

\* A hit at index idx: build the key pair and count what was tested so far.
CpuMatch(w) ==
  /\ pc[w] = "batch" /\ idx[w] < ChainBatch
  /\ Hit(nextPoint[w])
  /\ match' = [match EXCEPT ![w] =
       [private |-> MatchScalar(w),
        public  |-> nextPoint[w],
        prefix  |-> FindPrefix(nextPoint[w])]]
  /\ tested' = [tested EXCEPT ![w] = @ + 1]
  /\ attempts' = attempts + HitCount(w)
  /\ Goto(w, "announce")
  /\ UNCHANGED <<handleVars, found, result, chainVars, localCount, uncounted>>

\* Both kinds of thread: found.store(true) comes before the result is stored.
Announce(w) ==
  /\ pc[w] = "announce"
  /\ found' = TRUE
  /\ Goto(w, "publish")
  /\ UNCHANGED <<handleVars, attempts, result, chainVars, localCount, match,
                 histories>>

CpuPublish(w) ==
  /\ IsCpu(w) /\ pc[w] = "publish"
  /\ result' = match[w]
  /\ Goto(w, "returned")
  /\ UNCHANGED <<handleVars, found, attempts, chainVars, localCount, match,
                 histories>>

\* The batch held no hit: flush the counter at BatchSize, advance the chain.
CpuEndBatch(w) ==
  LET count == localCount[w] + ChainBatch
  IN /\ pc[w] = "batch" /\ idx[w] = ChainBatch
     /\ attempts' = IF FlushDue(count) THEN attempts + count ELSE attempts
     /\ localCount' = [localCount EXCEPT ![w] = IF FlushDue(count) THEN 0 ELSE count]
     /\ point' = [point EXCEPT ![w] = nextPoint[w]]
     /\ scalar' = [scalar EXCEPT ![w] = advance_scalar(@, 8 * ChainBatch)]
     /\ idx' = [idx EXCEPT ![w] = 0]
     /\ Goto(w, "loop")
     /\ UNCHANGED <<handleVars, found, result, nextPoint, start, match, histories>>

\* The while test reads TRUE: leave the loop ...
CpuStop_Deaf(w) == IsCpu(w) /\ pc[w] = "loop" /\ found /\ UNCHANGED vars
CpuStop(w) ==
  /\ IsCpu(w) /\ pc[w] = "loop" /\ found
  /\ Goto(w, "drain")
  /\ UNCHANGED <<handleVars, found, attempts, result, chainVars, localCount,
                 match, histories>>

\* ... and flush the rest of the count before returning.
CpuDrain(w) ==
  /\ pc[w] = "drain"
  /\ attempts' = attempts + localCount[w]
  /\ localCount' = [localCount EXCEPT ![w] = 0]
  /\ Goto(w, "returned")
  /\ UNCHANGED <<handleVars, found, result, chainVars, match, histories>>

(***************************************************************************)
(* gpu_dispatch_loop.  The nonce it draws is ignored by both back ends,    *)
(* whose searcher arrives with a start scalar it drew and clamped itself.  *)
(***************************************************************************)
GpuStart(w) ==
  /\ IsGpu(w) /\ pc[w] = "spawned"
  /\ \E r \in RandomDraws :
       /\ scalar' = [scalar EXCEPT ![w] = clamp_scalar(r)]
       /\ start'  = [start EXCEPT ![w] = clamp_scalar(r)]
  /\ Goto(w, "loop")
  /\ UNCHANGED <<handleVars, found, attempts, result, point, nextPoint, idx,
                 localCount, match, histories>>

\* The bound: a launch must end below ChainLimit.
GpuContinue(w) ==
  /\ IsGpu(w) /\ pc[w] = "loop"
  /\ ~found \/ StaleReads
  /\ scalar[w] + 8 * GpuBatchKeys < ChainLimit
  /\ Goto(w, "dispatch")
  /\ UNCHANGED <<handleVars, found, attempts, result, chainVars, localCount,
                 match, histories>>

\* The kernel compares another candidate of the launch.  Nobody has counted it
\* yet: the count is added when search_batch returns.
GpuCompare(w) ==
  /\ pc[w] = "dispatch" /\ uncounted[w] < GpuBatchKeys
  /\ tested' = [tested EXCEPT ![w] = @ + 1]
  /\ uncounted' = [uncounted EXCEPT ![w] = @ + 1]
  /\ UNCHANGED <<handleVars, found, attempts, result, pc, chainVars, localCount,
                 match>>

\* search_batch returned Ok: the claimed keys are counted, and the searcher
\* has moved its start scalar to the next block.
LaunchDone_SkipsAKey(w) ==
  /\ pc[w] = "dispatch"
  /\ attempts' = attempts + GpuBatchKeys
  /\ uncounted' = [uncounted EXCEPT ![w] = 0]
  /\ scalar' = [scalar EXCEPT ![w] = advance_scalar(@, 8 * (GpuBatchKeys + 1))]
  /\ UNCHANGED <<handleVars, found, result, point, nextPoint, idx, start,
                 localCount, tested>>
LaunchDone(w) ==
  /\ pc[w] = "dispatch"
  /\ attempts' = attempts + GpuBatchKeys
  /\ uncounted' = [uncounted EXCEPT ![w] = 0]
  /\ scalar' = [scalar EXCEPT ![w] = advance_scalar(@, 8 * GpuBatchKeys)]
  /\ UNCHANGED <<handleVars, found, result, point, nextPoint, idx, start,
                 localCount, tested>>

\* No key pair: every candidate was compared, and the block has no hit.
GpuMiss(w) ==
  /\ uncounted[w] = GpuBatchKeys /\ LaunchHits(w) = {}
  /\ LaunchDone(w)
  /\ Goto(w, "loop")
  /\ UNCHANGED match

\* No key pair from a Metal command that failed, wherever it had got to.
GpuLossyMiss(w) ==
  /\ request.metal
  /\ LaunchDone(w)
  /\ Goto(w, "loop")
  /\ UNCHANGED match

\* A key pair.  The kernel leaves early on a hit, yet keys_checked is always
\* the size of the full launch.
GpuMatch(w) ==
  /\ uncounted[w] > 0
  /\ LaunchDone(w)
  /\ \E s \in LaunchHits(w) : match' = [match EXCEPT ![w] = Unnamed(s)]
  /\ Goto(w, "announce")

\* The dispatch loop looks the prefix up again on the host; with no matching
\* prefix it falls back to the first one.
GpuPublish(w) ==
  LET key  == match[w].public
      name == IF MatchingPositions(key) # {} THEN FindPrefix(key) ELSE Prefixes[1]
      full == [match[w] EXCEPT !.prefix = name]
  IN /\ IsGpu(w) /\ pc[w] = "publish"
     /\ match' = [match EXCEPT ![w] = full]
     /\ result' = full
     /\ Goto(w, "returned")
     /\ UNCHANGED <<handleVars, found, attempts, chainVars, localCount, histories>>

\* search_batch returned Err: the thread returns and `found` is left alone.
\* The driver may fail before the kernel ran, while it ran or when the result
\* is read, and the host may refuse the kernel's match: whatever the launch had
\* compared by then stays uncounted.
GpuError_StopsAll(w) ==
  /\ pc[w] = "dispatch"
  /\ found' = TRUE
  /\ Goto(w, "returned")
  /\ UNCHANGED <<handleVars, attempts, result, chainVars, localCount, match,
                 histories>>
GpuError(w) ==
  /\ pc[w] = "dispatch"
  /\ Goto(w, "returned")
  /\ UNCHANGED <<handleVars, found, attempts, result, chainVars, localCount,
                 match, histories>>

GpuStop(w) ==
  /\ IsGpu(w) /\ pc[w] = "loop" /\ found
  /\ Goto(w, "returned")
  /\ UNCHANGED <<handleVars, found, attempts, result, chainVars, localCount,
                 match, histories>>

\* OsRng.fill_bytes panics when the OS source fails.  Threads draw when they
\* start, and again when they build the key pair of a hit.
RngPanic(w) ==
  /\ RngMayFail
  /\ \/ pc[w] = "spawned"
     \/ pc[w] = "batch" /\ idx[w] < ChainBatch /\ Hit(nextPoint[w])
     \/ pc[w] = "dispatch" /\ uncounted[w] > 0 /\ LaunchHits(w) # {}
  /\ Goto(w, "panicked")
  /\ UNCHANGED <<handleVars, found, attempts, result, chainVars, localCount,
                 match, histories>>

(***************************************************************************)
(* SearchHandle::finish: join every thread in order (unwrap panics on a    *)
(* thread that panicked), then read the count and take the result.         *)
(***************************************************************************)
BeginFinish ==
  /\ handle = "running"
  /\ handle' = "joining"
  /\ UNCHANGED <<request, spawned, joined, outcome, found, attempts, result,
                 pc, chainVars, localCount, match, histories>>

Join ==
  /\ handle = "joining" /\ joined < spawned
  /\ pc[joined + 1] = "returned"
  /\ joined' = joined + 1
  /\ UNCHANGED <<request, spawned, handle, outcome, found, attempts, result,
                 pc, chainVars, localCount, match, histories>>

JoinPanics ==
  /\ handle = "joining" /\ joined < spawned
  /\ pc[joined + 1] = "panicked"
  /\ handle' = "panicked"
  /\ UNCHANGED <<request, spawned, joined, outcome, found, attempts, result,
                 pc, chainVars, localCount, match, histories>>

JoinedAll_CpuOnly == joined >= request.cpu
JoinedAll_AwaitsHit == joined = spawned /\ found
JoinedAll == joined = spawned

Take ==
  /\ handle = "joining" /\ JoinedAll
  /\ outcome' = [ok |-> result # NoMatch, answer |-> result, attempts |-> attempts]
  /\ result' = NoMatch
  /\ handle' = "done"
  /\ UNCHANGED <<request, spawned, joined, found, attempts, pc, chainVars,
                 localCount, match, histories>>

(***************************************************************************)
(* The specification.                                                      *)
(***************************************************************************)
CpuStep(w) ==
  \/ CpuStart(w) \/ CpuContinue(w) \/ CpuMiss(w) \/ CpuMatch(w)
  \/ CpuPublish(w) \/ CpuEndBatch(w) \/ CpuStop(w) \/ CpuDrain(w)

GpuStep(w) ==
  \/ GpuStart(w) \/ GpuContinue(w) \/ GpuCompare(w)
  \/ GpuMiss(w) \/ GpuLossyMiss(w) \/ GpuMatch(w) \/ GpuPublish(w) \/ GpuError(w) \/ GpuStop(w)

\* A panic of the owning thread ends the process and its threads.
ThreadStep(w) ==
  /\ handle # "panicked"
  /\ CpuStep(w) \/ GpuStep(w) \/ Announce(w) \/ RngPanic(w)

\* finish() waits for its threads and takes the result.
FinishStep == Join \/ JoinPanics \/ Take

OwnerStep == Spawn \/ Started \/ BeginFinish \/ FinishStep

\* The owner is through with the handle: the only intended end.
Terminated == handle \in {"done", "panicked"} /\ UNCHANGED vars

\* The bound: a thread whose chain reached ChainLimit is left searching.
BoundReached(w) ==
  /\ pc[w] = "loop"
  /\ scalar[w] + 8 * (IF IsCpu(w) THEN ChainBatch ELSE GpuBatchKeys) >= ChainLimit
  /\ UNCHANGED vars

Next ==
  OwnerStep \/ (\E w \in Threads : ThreadStep(w) \/ BoundReached(w)) \/ Terminated

Spec == Init /\ [][Next]_vars

(***************************************************************************)
(* Fairness.  The operating system keeps scheduling every thread (WF); no  *)
(* fairness makes the owner call finish().  A Relaxed load may return a    *)
(* stale FALSE, but a store becomes visible in finite time: a thread that  *)
(* keeps testing a `found` that stays TRUE in the end reads TRUE (SF on    *)
(* the two exits of the loops).                                            *)
(***************************************************************************)
Fairness ==
  /\ WF_vars(Spawn \/ Started) /\ WF_vars(FinishStep)
  /\ \A w \in Threads :
       /\ WF_vars(ThreadStep(w))
       /\ SF_vars(handle # "panicked" /\ (CpuStop(w) \/ GpuStop(w)))

FairSpec == Spec /\ Fairness

-----------------------------------------------------------------------------
(***************************************************************************)
(* Safety.                                                                 *)
(***************************************************************************)

\* What may be reported: a key pair whose private half is a multiple of the
\* cofactor at or above 2^254 with that public key, which is not reserved,
\* with the earliest prefix of the command line that matches it.
Genuine(m) ==
  /\ m.private \in ClampBase..(ChainLimit - 1) /\ m.private % 8 = 0
  /\ m = [private |-> m.private, public |-> Mult(m.private), prefix |-> m.prefix]
  /\ ~ShouldSkip(m.public)
  /\ \E i \in DOMAIN Prefixes :
       /\ m.prefix = Prefixes[i] /\ Matches(Prefixes[i], m.public)
       /\ \A j \in 1..(i - 1) : ~Matches(Prefixes[j], m.public)

Labels == {"unspawned", "spawned", "loop", "batch", "announce", "publish",
           "drain", "dispatch", "returned", "panicked"}

\* What a chain may begin with.
Starts == {clamp_scalar(r) : r \in RandomDraws}

\* Type invariant; a scalar is 0 until it is drawn and clamped from then on.
TypeOK ==
  /\ request \in Requests
  /\ handle \in {"starting", "running", "joining", "done", "panicked"}
  /\ spawned \in 0..Total /\ joined \in 0..spawned
  /\ found \in BOOLEAN /\ attempts \in Nat
  /\ pc \in [Threads -> Labels]
  /\ scalar \in [Threads -> {0} \cup (ClampBase..(ChainLimit - 1))]
  /\ start \in [Threads -> {0} \cup Starts]
  /\ idx \in [Threads -> 0..ChainBatch]
  /\ localCount \in [Threads -> Nat] /\ tested \in [Threads -> Nat]
  /\ uncounted \in [Threads -> 0..GpuBatchKeys]
  /\ DOMAIN point = Threads /\ DOMAIN nextPoint = Threads
  /\ DOMAIN match = Threads

\* The order of events on the handle: threads exist once spawned, finish()
\* joins them in order, and returns only when every one has returned.
HandleOK ==
  /\ \A w \in Threads : w > spawned => pc[w] = "unspawned"
  /\ handle # "starting" => spawned = Total
  /\ handle \in {"starting", "running"} => joined = 0
  /\ handle = "done" => joined = spawned
  /\ \A w \in 1..joined : pc[w] = "returned"
  /\ handle # "done" => outcome = NoOutcome
  /\ handle = "done" => outcome.attempts = attempts

\* The chain's two accumulators, kept by separate code (scalar bytes and
\* curve points), never drift apart while a worker scans.
ChainOK(w) ==
  /\ pc[w] \in {"loop", "batch", "dispatch"} =>
       scalar[w] >= ClampBase /\ scalar[w] % 8 = 0
  /\ pc[w] \in {"loop", "batch"} /\ IsCpu(w) => point[w] = Mult(scalar[w])
  /\ pc[w] = "batch" =>
       /\ IsCpu(w) /\ scalar[w] + 8 * ChainBatch < ChainLimit
       /\ nextPoint[w] = Mult(scalar[w] + 8 * idx[w])
  /\ pc[w] = "drain" => IsCpu(w)
  /\ pc[w] = "dispatch" => IsGpu(w) /\ scalar[w] + 8 * GpuBatchKeys < ChainLimit
  /\ pc[w] \in {"unspawned", "spawned", "loop"} \/ IsGpu(w) => idx[w] = 0
  /\ IsGpu(w) => localCount[w] = 0

ChainLockstep == \A w \in Threads : ChainOK(w)

\* What a thread holds: nothing before it hits, a genuine match afterwards.
MatchOK(w) ==
  CASE pc[w] \in {"announce", "publish"} /\ IsCpu(w) -> Genuine(match[w])
    [] pc[w] \in {"announce", "publish"} /\ IsGpu(w) ->
         \E s \in ClampBase..(ChainLimit - 1) :
           match[w] = Unnamed(s) /\ s % 8 = 0 /\ Hit(Mult(s))
    [] pc[w] = "returned" -> match[w] = NoMatch \/ Genuine(match[w])
    [] OTHER -> match[w] = NoMatch

MatchesGenuine == \A w \in Threads : MatchOK(w)

\* Matches that were stored in `result` by threads that have returned.
Published == {match[w] : w \in {v \in Threads : pc[v] = "returned"}} \ {NoMatch}

\* `result` holds a published match as soon as there is one, until finish()
\* takes it; `found` is raised before, and never without a match to follow.
ResultOK ==
  /\ handle # "done" =>
       IF Published = {} THEN result = NoMatch ELSE result \in Published
  /\ found => Published # {} \/ \E w \in Threads : pc[w] = "publish"
  /\ ~found => Published = {} /\ \A w \in Threads : pc[w] # "publish"
  /\ handle = "done" =>
       IF Published = {} THEN ~outcome.ok
                         ELSE outcome.ok /\ outcome.answer \in Published

\* The candidates a thread has left behind on its chain.
Behind(w) == {s \in start[w]..(scalar[w] + 8 * idx[w] - 1) : s % 8 = 0}

\* A thread counts what it walks: its chain is never further from its start
\* than `attempts`, its own unflushed count included, and neither is a match.
CountOK(w) ==
  /\ scalar[w] - start[w] \in 0..(8 * (attempts + localCount[w]))
  /\ match[w] # NoMatch =>
       start[w] \in Starts /\ match[w].private - start[w] \in 0..(8 * (attempts - 1))
  /\ pc[w] \in {"loop", "batch", "dispatch"} => start[w] \in Starts

CountsCover == \A w \in Threads : CountOK(w)

\* No hit is passed over: whatever block, batch, flush or launch boundary its
\* chain crossed, a thread has left no hit behind it (a CPU worker's match is
\* the first hit of its chain).  A GPU reports some hit of the launch that
\* ends its search, and a failed Metal command may have skipped one.
NothingOverlooked ==
  \A w \in Threads :
    IsCpu(w) \/ (~request.metal /\ match[w] = NoMatch) =>
      \A s \in Behind(w) : ~Hit(Mult(s))

\* A worker holds a count below BATCH_SIZE, in whole batches, while it searches.
FlushOK(w) ==
  /\ pc[w] \in {"unspawned", "spawned"} => localCount[w] = 0
  /\ pc[w] \in {"loop", "batch", "drain"} =>
       localCount[w] < BatchSize /\ localCount[w] % ChainBatch = 0
  /\ pc[w] \in {"drain", "panicked"} => localCount[w] + idx[w] <= BatchSize
  /\ pc[w] = "drain" => idx[w] = 0

\* Only a GPU thread has a launch that is not counted: the one it waits for, or
\* one that failed after it had compared candidates.
LaunchOK(w) ==
  uncounted[w] # 0 => IsGpu(w) /\ pc[w] \in {"dispatch", "returned", "panicked"}

\* What a thread has compared and not added to `attempts`, for good if it has
\* panicked or its launch failed; and what a GPU may have added uncompared.
Unflushed ==
  [w \in Threads |->
     IF IsGpu(w) THEN uncounted[w]
     ELSE IF pc[w] \in {"loop", "batch", "drain", "panicked"}
            THEN localCount[w] + idx[w] ELSE 0]
Overcount ==
  [w \in Threads |-> IF IsGpu(w) /\ pc[w] \in {"announce", "publish", "returned"}
                       THEN GpuBatchKeys - 1 ELSE 0]

Tested == SumUpTo(tested, MaxThreads)

\* `attempts` and what the workers hold make up what has been tested.
AttemptsOK ==
  /\ attempts + SumUpTo(Unflushed, MaxThreads) >= Tested
  /\ ~request.metal =>
       attempts + SumUpTo(Unflushed, MaxThreads) <= Tested + SumUpTo(Overcount, MaxThreads)

\* The inductive invariant.
IInv ==
  /\ TypeOK /\ HandleOK /\ ChainLockstep /\ MatchesGenuine /\ ResultOK
  /\ CountsCover /\ NothingOverlooked
  /\ (\A w \in Threads : FlushOK(w) /\ LaunchOK(w)) /\ AttemptsOK

\* A chain is never clamped again, so adding 8 may carry it out of the clamped
\* range: the reported key lies within the reported number of attempts of a
\* clamped draw, so only a draw that close to 2^255 can lead out of it.
KeyNearDraw ==
  handle = "done" /\ outcome.ok =>
    \E s \in Starts : outcome.answer.private - s \in 0..(8 * (outcome.attempts - 1))

\* Whatever thread, chain position and interleaving produced it, the key pair
\* finish() returns is genuine, and print_colored_result slices the key by a
\* prefix it has.  The end-to-end test of search.rs clamps the scalar once more
\* before it compares the public keys: that changes nothing below 2^255, while
\* a key of a chain that left the clamped range (KeyNearDraw) would fail there.
GenuineResult ==
  handle = "done" /\ outcome.ok =>
    /\ Genuine(outcome.answer)
    /\ outcome.answer.private < ClampTop =>
         Mult(clamp_scalar(outcome.answer.private)) = outcome.answer.public

\* `found` is raised before the result is stored, in a separate step, and the
\* TUI calls finish() as soon as it sees it: finish() still returns the match,
\* and it returns SearchError only if no thread ever raised `found`.
FoundNotLost == handle = "done" => (outcome.ok <=> found)

\* A launch whose keys were compared and will never be counted.
Lost == [w \in Threads |-> IF IsGpu(w) /\ uncounted[w] # 0 THEN GpuBatchKeys ELSE 0]

\* Workers flush their counts in blocks, at a hit and on the way out.  What
\* finish() reports falls short of the candidates compared by no more than one
\* launch for each GPU whose last launch failed after it had compared some, so
\* never in a CPU-only search; and exceeds them by less than one launch per GPU
\* (more if Metal commands failed unnoticed).
ReportedAttempts ==
  handle = "done" =>
    /\ Tested <= outcome.attempts + SumUpTo(Lost, MaxThreads)
    /\ ~request.metal => outcome.attempts <= Tested + request.gpu * (GpuBatchKeys - 1)

\* At every moment the count a TUI polls lags behind the candidates compared by
\* at most BATCH_SIZE per CPU worker and one launch per GPU, those in flight
\* and those that failed uncounted included.
ProgressLag ==
  Tested <= attempts + request.cpu * BatchSize + request.gpu * GpuBatchKeys

(***************************************************************************)
(* Liveness.                                                               *)
(***************************************************************************)
Stopped(w) == pc[w] \in {"returned", "panicked"}

Ended == handle \in {"done", "panicked"}

\* Once a thread raises `found`, every thread leaves its loop (or the process
\* is gone): no worker searches on behind the back of finish().
StopsAfterHit ==
  found ~> (handle = "panicked" \/ \A w \in 1..Total : Stopped(w))

\* finish() returns once there is a hit, or no thread is left to find one.
FinishReturns ==
  (handle = "joining" /\ (found \/ \A w \in 1..Total : Stopped(w))) ~> Ended

(***************************************************************************)
(* The search implements its promise: a match is claimed when it is stored *)
(* in `result`, and finish() decides.                                      *)
(***************************************************************************)
Acceptable ==
  {m \in {[private |-> s, public |-> Mult(s), prefix |-> p] :
            s \in ClampBase..(ChainLimit - 1), p \in Range(Prefixes)} : Genuine(m)}

Status ==
  CASE handle = "done" -> IF outcome.ok THEN "delivered" ELSE "failed"
    [] handle = "panicked" -> "crashed"
    [] OTHER -> "open"

VS == INSTANCE VanitySearch WITH
        NoAnswer <- NoMatch, claims <- Published, status <- Status,
        answer <- outcome.answer

\* finish() delivers a published match if there is one, and fails otherwise.
ImplementsVanitySearch == VS!Spec
=============================================================================
