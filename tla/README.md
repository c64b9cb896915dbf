# A verification project for mc-keygen

mc-keygen searches for MeshCore node keys: Ed25519 key pairs whose public key,
in hex, starts with one of a few prefixes. CPU threads and GPU kernels walk
chains of scalars `s, s+8, s+16, ...`, test each public key, and the first hit
ends the program. This directory holds TLA+ models of that program, TLC
configurations that check them on small instances, and proofs that TLAPS checks
for every instance. Paths below are relative to the repository's root; line numbers
are those of the commit the models were written from.

    tlc -workers 2 -config MCSearch.cfg MCSearch.tla   # check a run
    tlapm ProgramProofs.tla                            # check the proofs of a module

Contents

1. The system: components, state, interactions
2. Modules and how they correspond to the code
3. Runs: what each one checks and shows
4. Bounds
5. Fairness
6. What is proved
7. Disagreements between the code and its documentation
8. What is only model-checked, and what is not modelled
9. Plan

## 1. The system

### Components

| component | source | state it keeps | operations that change it |
|---|---|---|---|
| Search engine | `src/search.rs`, `src/types.rs` | shared cells `found`, `attempts`, `result`; the vector `workers`; per thread the chain scalar, the current point, an uncommitted count | `SearchHandle::start`, `start_gpu`, `start_hybrid`, the closures of `spawn_cpu_worker` and `gpu_dispatch_loop`, `finish` |
| Front end | `src/main.rs` | the command line, the terminal mode, the last sample of `found` | command dispatch (`bench`, `--verify`, search), opening a device, mode and thread choice, `run_tui_loop`, the `--json` path, the report, exit |
| GPU searchers | `src/gpu.rs`, `src/metal_gpu.rs` | `start_scalar`, the device buffer (flag, key, scalar, or tally) | `new`, `search_batch`, `count_batch` |
| Kernels | `cuda/vanity_kernel.cu`, `metal/vanity_kernel.metal` | per thread `my_scalar`, `A`, the batch arrays; the global result slot | `vanity_search`, `vanity_count_matches`, `verify_keygen` |
| Kernel arithmetic | the same two files | digits of a scalar, a point in extended coordinates | `ge_scalarmult_base`, `ge_madd`, doublings, batch inversion |
| Prefix handling | `main.rs`, `search.rs`, `gpu.rs`, `metal_gpu.rs`, kernels | validated prefixes, `PrefixMatcher`s, the packed buffer | `validate_prefix`, `PrefixMatcher::new/matches`, packing, `check_any_prefix` |
| Scalar arithmetic | `search.rs`, kernels | 32 bytes | `clamp_scalar`, `advance_scalar`, the offset loops of the search kernels, the +8 of `verify_keygen` |
| Bench command | `src/bench.rs` | one `BenchHandle` per mode: `stop`, `keys`, `matches`, the workers | `run`, `run_one_mode`, `spawn_cpu_bench_worker`, `spawn_gpu_bench_worker`, `stop` |
| Verify command | `gpu.rs`, `metal_gpu.rs`, `main.rs` | output buffers of the device, pass and fail counts | `verify_gpu_keygen`, the verdict |
| `keygen.rs` | `src/keygen.rs` | none | `generate_keypair`, the seed's way to a key pair, used by tests and criterion benches only |
| Drawing, formatting, build, CI | `main.rs`, `build.rs`, workflows | none that matters here | - |

### How they interact

- `main` validates the prefixes, picks a mode, calls one constructor of
  `SearchHandle`, and then either blocks in `finish()` (`--json`) or polls
  `found` and `attempts` every 50 ms while it draws, and calls `finish()` only
  after it has read `found = true`.
- Workers never talk to each other. They meet in three cells: `found`
  (`AtomicBool`, Relaxed), `attempts` (`AtomicU64`, Relaxed) and `result`
  (`Mutex<Option<..>>`). The store to `found` comes *before* the store to
  `result`, in a separate step.
- A GPU dispatch thread owns one searcher, calls `search_batch` in a loop and
  forwards a hit. `search_batch` zeroes a buffer, launches a grid, waits, and
  reads the buffer. The kernel threads race for one result slot through a flag.
- The CPU and the GPU decide "does this key match" by different code on
  different data: parsed prefixes and whole keys on one side, a packed byte
  buffer and a key without its sign bit on the other.
- `bench` runs modes one after another, each with a fresh handle whose workers
  count instead of stopping; `--verify` compares one kernel's chain with the
  host's own arithmetic.

### What is hard here

- Several threads can find a match before any of them sees `found`; the last
  store to `result` wins. The owner may wake between `found` and `result`.
- Relaxed loads: a worker, or the display loop, may miss a store for a while.
- Every thread can die: a GPU call errors (the thread returns without setting
  `found`), the OS random source fails (the thread panics, and `finish()`
  unwraps the join).
- Counts are buffered locally and flushed at a threshold, at a hit and on exit;
  those of a GPU are added when its launch has returned, and never if it failed.
- A chain is not clamped again, so a kernel thread may start above 2^255, outside
  the precondition of the multiplication it begins with.
- Two accumulators of one chain, the scalar bytes and the curve point, are
  advanced by separate code; the private key is reconstructed from a batch base
  and a lane index long after the point was computed.
- One inversion serves a whole batch of points; one overwritten or shifted
  entry would falsify every lane.
- Launches and threads of a grid must tile the scalar chain without gaps or
  overlaps, and the one result slot must never be torn.
- The terminal must be given back on every path out of the interactive loop.
- Metal reports nothing when a command buffer fails.

### What makes each component correct

- **Search engine** - what `finish()` returns is a genuine key pair with the
  right prefix; no hit is passed over, at whatever batch or launch boundary; a
  hit is never lost; the reported key lies no further from a random draw than
  the reported count; that count is right but for failed launches; every thread
  stops after a hit;
  `finish()` returns.
- **Front end** - the exit code tells the truth; a key that was seen, or that
  `finish()` returned, reaches the user unless output itself fails; the terminal
  is restored; the display never blocks on a running search; the mode is the one
  asked for; a hit ends the program, and so does the end of all workers.
- **GPU searchers** - each call reports on exactly the next block of
  candidates; no candidate is tested twice; a torn or wrong pair never reaches
  the user; every launch ends.
- **Kernel arithmetic** - the comb multiplies; batch inversion gives back the
  chain's points; the first match of a thread is the one it emits.
- **Prefix handling** - host and kernel agree on every key, and both with the
  definition in the README; every accepted prefix can be found; the estimate is
  the real difficulty where it does not overflow.
- **Scalar arithmetic** - the byte loops add and clamp.
- **Bench** - a record holds exactly what was compared and what matched, unless
  a GPU launch failed, and never a match too many; modes do not overlap; the
  command ends.
- **Verify** - it passes exactly the devices that were right.

The individual hazards, each at its line and with the properties that cover it
or the reason why none does, are listed under `hazards` in `PROJECT.json`.

## 2. Modules and how they correspond to the code

```
VanitySearch  <--implements--  Search  <--EXTENDS--  Frontend
                                 |                      |
                          GpuLaunch          CoresBesideGpus -- Bench
                                 |
                            GpuContract  <--implements--  GpuDevice

Edwards (EXTENDS FieldPower)  <--EXTENDS--  ScalarMultBase  <--EXTENDS--  KernelThread
PrefixMatch        ScalarMath        KeygenVerify
```

The theorems about `X` are in `XProofs`, which extends it: `GpuDeviceProofs`,
`PrefixMatchProofs`, `BenchProofs`, `KeygenVerifyProofs`, `ScalarMathProofs`,
`KernelThreadProofs`; those about `Search` and about `Frontend`, which extends
`Search`, are together in `ProgramProofs`. `Sums` has the sum of a function over
the threads, bytes or digits `1..n`, and `SumLemmas` what their proofs need:
products, quotients, powers, least elements, sums.

`MC<Module>.tla` holds the values TLC needs (`ToyCurve` and `SmallCurves` are
shared by such modules); `MC<Module>.cfg` is the run.

### Search, VanitySearch

A thread is numbered by its place in `workers`: CPU workers first. `pc[w]` is
where its closure is:

| label | where the thread is |
|---|---|
| `unspawned`, `spawned` | before `thread::spawn`; before the first random draw |
| `loop` | about to load `found` in the `while` test |
| `batch` | in the `for` loop over the candidates of a batch, at `idx[w]` |
| `dispatch` | inside `search_batch` |
| `announce` | the match is built, `found.store(true)` is next |
| `publish` | `*result.lock() = Some(..)` is next |
| `drain` | after the loop, the rest of the count is next |
| `returned`, `panicked` | the closure is over |

A step of a thread accesses at most one shared cell, so every interleaving of
those accesses is a behaviour. `CpuStart`, `CpuContinue`, `CpuMiss`,
`CpuMatch`, `CpuEndBatch`, `CpuPublish`, `CpuStop` and `CpuDrain` are the
statements of `spawn_cpu_worker` between two such accesses; the `Gpu...`
actions those of `gpu_dispatch_loop`; `BeginFinish`, `Join`, `JoinPanics` and
`Take` are `finish()`. With `StaleReads`, the `while` test may read FALSE after
`found` was set. The mutex around `result` is held for one assignment only, so
it needs no variable. Variables that the code does not have: `tested` (how many
candidates a thread really compared), `uncounted` (how many of them belong to a
launch whose count was not added), `start` (the scalar its chain began with) and
`match` (kept after the thread has published it), all history.

A GPU dispatch thread drives its searcher through the contract in `GpuLaunch`: a
launch covers the `GpuBatchKeys` candidates from `scalar[w]` on, which the kernel
compares in steps of their own (`GpuCompare`) while other threads run and the
display polls. `GpuMatch` takes any hit of that block, `GpuMiss` needs a block
that was compared and has none; only then is the launch counted, and the searcher
stands at the next block. `GpuError` is a failing call, at any point of the
launch: what the kernel had compared stays uncounted. `GpuLossyMiss` is the Metal
command that failed unnoticed, so requests say which kind of device they run on.
`GpuContract` is built from the same module, and `GpuDevice`
implements it: what the engine assumes of a searcher is what the two back ends
are checked for. `PrefixMatch` justifies that the kernel's own test is `Hit`.

`VanitySearch` is the promise: matches are claimed, and the search closes once,
with a claimed match if there is one, and with an error only if there is none.
The refinement mapping takes `claims` to the matches of threads that have
returned, `status` to the fate of the handle and `answer` to the outcome.

### Frontend, CoresBesideGpus

`Frontend` extends `Search` and says when `main` lets its actions happen. `ui`
is the position in `main` and `run_tui_loop`; `screen` the terminal modes that
have been entered and not left; `seen` the variable `done`. `Sample` is the top
of the loop (`stats()` and `is_done()`), `Draw` the drawing with the test of
`done` after it, `Tick` and `KeyQuit` the two outcomes of `event::poll`.
`TuiFails` is `?` on any terminal operation. Process exit stops the engine.
`ReportFails` is a `println!` to a closed stream, which panics.

Before a search starts, `main` dispatches: `RunBench`, `RejectPrefix` (the first
invalid prefix), `Verify`, or `Launch`. A machine says which GPU code was built
in and whether a device opens (`try_init_gpu`); `Refused` is `--gpu-only` without
a device, and `StartCpu`, `StartGpu`, `StartHybrid` with
`default_hybrid_cpu_threads` (`CoresBesideGpus`) are the three constructors and the choice
of threads. What `bench` and `--verify` do inside is left to `Bench` and
`KeygenVerify`, which share no state with a search; here they are their exit.
Drawing and formatting are left out.

### GpuDevice, GpuContract

The host thread is `host` (`unopened`, `idle`, `waiting`, `synced`, `dead`), the
grid is one set of kernel threads, and the device buffer is one record.
`CudaNew`, `MetalNew` and `NewFails` are the constructors, which draw the start
scalar. `LaunchSearch`, `LaunchCount`, `Sync`, `ReturnMiss`, `ReturnKey`,
`ReturnCount` and `Reject` are `search_batch` and `count_batch` of both back
ends; `DriverError` is any failing CUDA call, `CommandFails` a failing Metal
command buffer, whose status the code does not read. The kernel's `KernelStart`,
`NextBatch`, `EarlyExit`, `Scan`, `ScanHit`, `Claim`, `WriteKey`, `WriteScalar`
and `LastBatchDone` are split at every access to the buffer: the flag is
claimed, the key written and the scalar written in three steps. `Misreport` is
the kernel defect the host's defensive check exists for. `tested`, `retested`
and `lossy` are history. `GInv` names what the parts of the device owe each
other between two steps: where the chain stands (`StartOK`), that a thread holds
the point of its own candidate (`ThreadOK`), who owns the slot and what it may
hold (`SlotOK`), whose stretch each compared scalar lies in (`TestedOK`), and
what the tally is still missing (`TallyOK`). `ge_scalarmult_base` is right for scalars
below `CombReach`, 2^255 + 7 * 2^248, which is what `KernelThread` shows and a
little more than the code's comment promises; beyond it `KernelStart` gets any
point.

`GpuContract` has no threads and no buffer: `new` settles on a start scalar or
fails, then each call covers the next block of `keys_checked` candidates
(`GpuLaunch!Block`) and reports a hit of that block, its absence, its exact
tally, or an error. After a key or an error no call follows, since the dispatch
loop drops its searcher.

### FieldPower, Edwards, ScalarMultBase, KernelThread

`Edwards` has the `fe_*` operations on field elements and the `ge_*` formulas,
in the code's order of operations; `ScalarMultBase` recodes a scalar into signed
digits and adds table entries, one action per loop iteration; `KernelThread`
walks the chain from there, in the three kernels' loops. The reference
definitions (`Plus`, `Times`, `EncodingOf`) are the affine addition law and a
table of multiples that an assumption ties to it. `Value` is what a set of
digits adds up to; `Stands(p, n)` says that a projective point is a
representation of n B; `ScalarMultInv` and `KInv` say what every loop has done
so far. `FieldPower` runs the addition chain of `fe_invert` on exponents and
asserts that the result is p - 2 for the real p = 2^255 - 19. A field element is
its value modulo P: how ten limbs represent it is not modelled.

### PrefixMatch

Validation in command-line order, the attempts estimate, packing, and then every
key of the scaled-down format is tested by `MatcherMatches` (CPU),
`check_any_prefix` (kernel) and `SpellsPrefix` (the definition). A character is
a number: an upper-case digit, the same digit in lower case, or no hex digit.
`prefix_data[i]` is the buffer once the packing loop has passed `i` prefixes and
`ptr[i]` the offset at which the kernel's walk then stands; the walk reads the
length of a prefix back from the bytes `Word` wrote (`ReadWord`). The estimate is
`16^MinLen / SameLenCount` (`pow` is `16u64.pow`) in the width of the code's `u64`.

### ScalarMath

`clamp_scalar` and the three byte-wise adders, one action per loop iteration with
the code's early exits, and `generate_keypair` of `keygen.rs` with SHA-512 as any
function of the seed; the properties compare them with the arithmetic they stand
for, which is what the other modules use. `Value` is the number that bytes
stand for, a sum of byte times place; `Balance` says what it is in the middle of
a loop: input and added amount are accounted for up to position `i`, and the
carry or the rest of the amount has the weight of that position.

### Bench

`stage` is the position in `run` and `run_one_mode` (`validate` checks the
prefixes); `todo` the modes left. The workers' two counters are flushed one after
the other, each flush being a step. A GPU launch is dispatched in one step and
answered in another: `GpuCount` is the launch that completed, `GpuError` the
failing call of the CUDA back end, before the kernel ran or after it compared any
part of its keys, `GpuLossyCount` the failed Metal command, which `count_batch`
answers with all keys and a part of the tally. `tested`, `hits` and `failed` are
history. `BInv` says what a worker may still hold at each place of its closure
(`HandsOK`), that `stop()` has joined only workers that are gone, that nobody but
the workers of the current mode runs, and what the counters are worth
(`CountsBalance`).

### KeygenVerify

The device may go wrong in the first multiplication, in the encoding of a point,
in an addition of 8B and in an addition of 8, a command may fail, and on Metal
the pipeline may not come to be; the host compares, stops after five mismatches,
and judges.

## 3. Runs

`PROJECT.json` has a mutant for every property of every passing run: a plausible
defect in a definition that models code, under which TLC finds that property
violated.

| run | what TLC explores | properties and what they show |
|---|---|---|
| `search` | every request of at most two threads, CPU, CUDA and (one device) Metal, with stale reads, launches that fail at any point, lost Metal commands, failing random source | `GenuineResult`, `FoundNotLost`, `NothingOverlooked`, `KeyNearDraw`: see section 6. `ReportedAttempts`: what `finish()` reports is exact for CPU searches, exceeds the truth by less than a launch per GPU, and falls short of it only by launches that failed after they had compared keys, at most one per GPU. `ProgressLag`: the polled count lags by at most `BATCH_SIZE` per CPU worker and a launch per GPU. `StopsAfterHit`, `FinishReturns`: no thread searches on, `finish()` is never stuck. `ImplementsVanitySearch`: the refinement. `IInv`: the invariant of the proofs |
| `frontend` | `bench`, `--verify` and a search with every legal combination of flags, valid and invalid prefixes, on four machines (no GPU code, a device that does not open, CUDA, Metal), with I/O failures, key presses, GPU errors and panics | `ExitCodeHonest`; `KeyDelivered`: a program that ends after a hit ends by printing the key, unless the user quit before the loop saw the hit, the terminal or the output failed, or a worker panicked; `ScreenRestored`, `NeverBlocksOnSearch`, `ModeHonoured`; `HitEndsProgram`: the loop cannot miss a hit for ever; `JsonEnds`: `--json` ends when every thread is gone. `FInv`: the invariant of the proofs |
| `gpu_device` | two launches of a grid of two threads, inside the clamped range and across its top, CUDA and Metal, search and count, correct and faulty kernels | `FreshTerritory`: no scalar is compared twice by any thread of any launch. `RejectedOnlyAfterLoss`: a correct kernel never leaves a torn pair. `ImplementsContract`: each call keeps the contract. `LaunchEnds`. `GInv`: the invariant of the proofs |
| `prefix_match` | all short command lines, all keys of a scaled-down format | `TestsAgree`: CPU, kernel and definition agree on every key, although the kernel's key lacks the sign bit. `WalkEndsAtBuffer`: the kernel's walk over the packed buffer ends exactly at its end. `AcceptedCanBeFound`: validation lets no unfindable prefix through. `EstimateIsRate`: short of the overflow and for distinct prefixes the estimate is never below the mean number of candidates a search takes, and is that mean when all prefixes have one length |
| `scalar_math` | all scalars of three small bytes, all offsets | `AddersAdd`, `ClampIsArithmetic` |
| `kernel_thread` | all two-byte scalars with a top byte of at most 134 through the comb, then chains of two batches from every residue | `DigitsMakeTheScalar`, `PartialProduct`, `LanesAreChainPoints`, `FirstMatchIsEmitted`, `NothingSkipped`, `VerifierSeesTheChain` |
| `bench` | `--mode cpuN`, `gpu` and `all`, with and without `--threads 2`, on a CUDA, a Metal and a GPU-less machine, up to three workers, launches that fail at any point | `TotalsExact`: a record holds exactly the candidates compared and their matches if no launch failed; never a match too many; on CUDA at most one launch per device too few. `ModesIsolated`, `BenchEnds`. `BInv`: the invariant of the proofs |
| `keygen_verify` | a chain of six steps with up to two faults | `VerdictIsTrue`: the verdict, and the counts it rests on (`CountsOfCompared`) |
| `frontend_errors`, `gpu_metal_count`, `gpu_docs`, `prefix_estimate` | one property each that the code does not have | section 7 |

`ProgressLag` and `ReportedAttempts` use `tested`, which is incremented where a
key is compared and nowhere else; they are not restatements of the flushes.
A GPU's `tested` moves while its launch is in flight, before anything is counted.
`GenuineResult` compares the public key with the scalar as it is. The end-to-end
test of `search.rs` (line 597) clamps it once more before it multiplies. Below
2^255 that changes nothing; for a key of a chain that left the clamped range,
such as the hit at 144 in the run, that test would fail although the pair belongs
together. `KeyNearDraw` says how rare such a key is.
`FreshTerritory` likewise compares real scalars, not loop indices.

Deadlock is checked everywhere but in `keygen_verify`, which ends in `passed` or
`failed`, where no step follows (`CHECK_DEADLOCK FALSE`). Elsewhere the intended
ends are explicit stuttering actions (`Terminated`, `Exited`, `Returned`), so
that TLC's deadlock check finds a program that is stuck anywhere else.

## 4. Bounds

Every bound is a constant and appears in a guard with a comment.

| bound | value | why it is enough |
|---|---|---|
| `MaxThreads` | 2 | threads interact through three cells only, and every pair of kinds (CPU/CPU, CPU/GPU, GPU/GPU) occurs. The safety properties are proved for any number |
| `ChainLimit` | 160, chains from 64, 88 and 112 | above the clamped range, whose top is 128, so that a GPU's chain leaves it and hits at 144; `CombReach` is no further on; a hit occurs in the first and in later batches, at the first and other lanes, never, and next to a reserved key; counts reach the flush threshold and stay below it |
| `Machines`, `Clis` | 4, 73 | each kind of build, a device that opens and one that does not; every flag combination clap admits with `-t 0`, `-t 1` and no `-t` |
| `ChainBatch`, `BatchSize` | 2, 4 | the flush happens every second batch, so that there are flushed and unflushed batches; the code's 16 and 1024 have the same divisibility |
| `GpuBatchKeys` in `search` | 5 | a launch from 64 misses (one of its keys is reserved) and the next one hits at its first candidate, one from 88 hits in its middle, one from 112 at its last candidate; errors before, after and between any two comparisons |
| `GpuBatchKeys`, `FewDraws` in `frontend` | 3, two draws | a chain that hits in its first launch and one that never does; what happens inside a launch is the concern of `search` |
| the toy groups | integers modulo 37 (`Search`), 149 (`GpuDevice`) | prime, so that scalars of one chain have different points; none of the candidates of the four launches has the neutral point |
| `NumThreads`, `Iters`, `Batch`, `MaxLaunches` | 2, 4, 2, 2 | two threads race, two batches per thread, and two launches meet at their boundary; hits are placed in both threads of one launch, in one, and in none |
| `ClampBase`, `CombReach` in `GpuDevice` | 2048, 4320 | the clamped range ends at 4096 (2^255 on this scale), and 4320 is 2^255 + 7 * 2^248 on the same scale; the chain drawn at 4072 crosses 4096 in its first launch, starts later threads above it and hits there; all chains end below the reach |
| `P`, `D`, base point | 101, 42, order 13 | a real twisted Edwards curve with complete addition; the order exceeds the eight table entries of a row, and some keys share y and differ in the sign of x |
| `Bytes` of a comb scalar | 2 | four digits: two odd, two even, with carries into and out of every position, and all 34560 scalars with a top byte of at most 134 are tried |
| `Radix`, `KeyBytes`, `WordBytes` | 2, 3, 2 | odd and even prefix lengths, entries with and without padding, the longest accepted prefix and the one after it |
| `ByteMod`, `Bytes` in `ScalarMath` | 8, 3 | every carry pattern through every byte; a first, a middle and a last one, as clamping tells apart |
| `MaxTested`, `MaxHits`, `MaxWorkers` | 4, 1, 3 | counts below the flush threshold and at it, and a drain of either; two CPU workers beside one GPU |
| `MaxKeys`, `GpuBatchKeys` in `bench` | 6, 3 | two launches, any part of either compared when it fails, with or without CPU counts between them |
| `Count`, `StopAfter`, `MaxFaults` | 6, 3, 2 | comparing stops before the end and at it; a single wrong step anywhere |

A worker whose chain reaches `ChainLimit` stutters in `loop` (`BoundReached`):
it is still searching, and still leaves when it sees `found`.

## 5. Fairness

- **Threads are scheduled** (weak fairness on the steps of each worker, of the
  constructor, of `finish()`, of the main thread in `Frontend`, of the bench
  main thread with its finite sleep). `std::thread` threads under a preemptive
  OS justify it; no code holds a lock while it waits for another thread.
- **A store becomes visible in finite time** (strong fairness on the loop exits
  `CpuStop`, `GpuStop`, and on `Sample` reading TRUE). Rust, like C++, asks that
  atomic stores become visible in a finite period. Strong fairness is needed
  since the exit is enabled only between two batches.
- **The device runs every thread of a grid** (weak fairness on `KernelStep`).
  No kernel thread waits for another, so no stronger assumption is made.
- **Not assumed**: that anyone calls `finish()`, that a key is pressed, that a
  search ever hits, that a GPU launch succeeds or fails, that a mode of `bench`
  finds a device.

`StopsAfterHit` and `HitEndsProgram` would be false with weak fairness alone,
for a worker that reads stale values for ever.

## 6. What is proved

By TLAPS, for every value of the constants that satisfies the named assumptions.
TLC evaluates each assumption in a run, and checks each inductive invariant on
small instances: `IInv`, `FInv`, `GInv`, `BInv` in the runs, the others as one more
INVARIANT of the same configurations. Every safety property of a passing run
is stated by one of these theorems.

| module | theorem | statement |
|---|---|---|
| `ProgramProofs` | `Invariance`, `TypeCorrect` | `Spec => []IInv`, `Spec => []TypeOK` |
| | `ResultsAreGenuine` | `Spec => []GenuineResult` |
| | `NothingFoundIsLost` | `Spec => []FoundNotLost` |
| | `NoHitIsPassed` | `Spec => []NothingOverlooked` |
| | `KeyStaysNearDraw` | `Spec => []KeyNearDraw` |
| | `AttemptsAreHonest` | `Spec => []ReportedAttempts` |
| | `ProgressLagsByAFlush` | `Spec => []ProgressLag` |
| | `Implementation` | `Spec => ImplementsVanitySearch` |
| | `FrontendInvariance` | `FSpec => []FInv` |
| | `ExitCodeTellsTheTruth` | `FSpec => []ExitCodeHonest` |
| | `FoundKeysAreDelivered` | `FSpec => []KeyDelivered` |
| | `TerminalIsRestored` | `FSpec => []ScreenRestored` |
| | `LoopNeverBlocks` | `FSpec => []NeverBlocksOnSearch` |
| | `ModeIsHonoured` | `FSpec => []ModeHonoured` |
| | `EngineInProgram` | the safety theorems of the engine hold of it inside the program |
| | `ProgramImplementation` | `FSpec => ImplementsVanitySearch` |
| `GpuDeviceProofs` | `DeviceInvariance` | `Spec => []GInv` |
| | `NoCandidateTwice` | `Spec => []FreshTerritory` |
| | `SlotIsNeverTorn` | `Spec => []RejectedOnlyAfterLoss` |
| | `DeviceImplementation` | `Spec => ImplementsContract` |
| `PrefixMatchProofs` | `PrefixInvariance` | `Spec => []PInv` |
| | `BothTestsAgree` | `Spec => []TestsAgree` |
| | `WalkCoversBuffer` | `Spec => []WalkEndsAtBuffer` |
| | `AcceptedIsFindable` | `Spec => []AcceptedCanBeFound` |
| | `EstimateIsMean` | `Spec => []EstimateIsRate` |
| `BenchProofs` | `BenchInvariance` | `Spec => []BInv` |
| | `ModesNeverOverlap` | `Spec => []ModesIsolated` |
| | `RecordsLackNothing` | a step that writes a record finds every worker gone, both of its counts flushed |
| | `RecordsAreExact` | `Spec => TotalsExact` |
| `KeygenVerifyProofs` | `KVInvariance` | `Spec => []KVInv` |
| | `VerdictsAreTrue` | `Spec => []VerdictIsTrue` |
| `ScalarMathProofs` | `ScalarInvariance` | `Spec => []MInv` |
| | `LoopsAdd` | `Spec => []AddersAdd` |
| | `ClampComputes` | `Spec => []ClampIsArithmetic` |
| `KernelThreadProofs` | `KernelInvariant` | `Spec => []KInv` |
| | `DigitsAlwaysMakeTheScalar` | `Spec => []DigitsMakeTheScalar` |
| | `ScalarMultiplicationIsCorrect` | `Spec => []PartialProduct` |
| | `LanesAlwaysAreChainPoints` | `Spec => []LanesAreChainPoints` |
| | `FirstMatchIsAlwaysEmitted` | `Spec => []FirstMatchIsEmitted` |
| | `NothingIsSkipped` | `Spec => []NothingSkipped` |
| | `VerifierAlwaysSeesTheChain` | `Spec => []VerifierSeesTheChain` |

### Search

For any number of threads, any batch and flush size, any set of prefixes, any
set of random draws and any group.

**Assumptions.** `SizesAssumption` (sizes are naturals, the flush threshold is a
multiple of the batch, as 1024 is of 16), `RequestsAssumption`,
`ScalarAssumption` (the clamped range is `[2^254, 2^255)` inside `2^256`, written
with a free base; chains are followed to `ChainLimit`, anywhere between the top
of the clamped range and `CombReach`, up to where the kernels multiply rightly),
`PrefixesAssumption` (clap wants one), `GroupAssumption` (`Mult(s + 8) =
Add8B(Mult(s))`: what curve25519-dalek provides) and `PredicatesAssumption`.

**The inductive invariant.**
`IInv == TypeOK /\ HandleOK /\ ChainLockstep /\ MatchesGenuine /\ ResultOK
/\ CountsCover /\ NothingOverlooked
/\ (\A w \in Threads : FlushOK(w) /\ LaunchOK(w)) /\ AttemptsOK`.

- `GenuineResult` speaks about the end only. To carry it there, the invariant
  needs that `result` holds a match that a returned thread published
  (`ResultOK`), that what such threads hold is genuine (`MatchesGenuine`), and
  that a hit on a point is a hit on the scalar the private key is made from
  (`ChainLockstep`): at lane `idx` of a batch the point is
  `Mult(scalar + 8 * idx)`, although scalar and point are advanced by separate
  code and the scalar only once per batch.
- `FoundNotLost` needs `HandleOK`: `finish()` takes the result when every thread
  has returned, so no thread can be between `found.store` and the store to
  `result`; `ResultOK` says that while `found` is set, some thread is, or a
  match is published.
- `NothingOverlooked` says that the candidates between the start of a chain and
  its current place hold no hit. A CPU worker compares `nextPoint`, not a scalar,
  so `ChainLockstep` is needed at every lane; `advance_scalar` at the end of a
  batch must continue exactly where the lanes ended; for a GPU the contract of
  the launch must end where the next one begins.
- `KeyNearDraw` needs `CountsCover`: a thread's chain is never further from its
  start than `attempts` and its own unflushed count. It is why the code may leave
  the clamped range without ever clamping again: among the 2^251 possible draws
  only those within the reported count of the top lead to such a key.
- `ReportedAttempts` and `ProgressLag` need the balance of the counters:
  `attempts` and what the threads still hold add up to what they have tested
  (`AttemptsOK`), where a GPU launch is added as a whole wherever its hit lies,
  and what a failed one has compared is held for ever; `FlushOK` bounds what one
  CPU thread may hold at each place of its closure, and `LaunchOK` says that only a
  GPU thread in a launch, or ended by one, has compared candidates uncounted.
- `TypeOK` needs `ChainLockstep` (a scalar stays below `ChainLimit`, hence below
  the wrap), and that is why its step lemma assumes both.

**The argument.** Section 1 of the module has the arithmetic (clamping yields a
multiple of 8 in the clamped range; a step of whole candidates keeps both) and
the choice of the earliest prefix, from well-foundedness of `<`. Section 2 has
frames: a thread's step touches no other thread's locals, the owner's none but
`pc` on spawning. Section 3 has one lemma per conjunct, each by cases on the
action, through a lemma about the thread that moves. Section 4 reads every step
as one that changes one summand, so that `SumUpdate` gives the change of the
sum. Section 5 has the theorems. `Implementation` maps the publishing steps to
`Claim`, `Take` to `Deliver` or `GiveUp`, `JoinPanics` to `Crash`, and
everything else to stuttering (`AbstractStep`).

### Frontend

For every command line, every machine, and every engine that the theorems of
`Search` are about.

**Assumptions.** Those of `Search`, and `MachinesAssumption` (what the
machine reports has its type, at least one core; clap refuses `--cpu-only` with
`--gpu-only`).

**The argument.** `FNextIsNext`: a step of `main` is a step of the engine or
leaves it alone, so `IInv` is an invariant of the program, and with it
`EngineInProgram` and `ProgramImplementation`. `FInv` adds where `main` is. `EngineAt`
ties `ui` to `handle`: the interactive loop runs beside `handle = "running"`, a
report follows a taken result. `LoopOK` ties `seen` to `found`: the loop leaves
for `finish()` only once it has read TRUE, from which `NeverBlocksOnSearch`
follows (what `finish()` then waits for are threads that will see `found`), and
from that and `FoundNotLost` comes `KeyDelivered`. `TerminalOK` says which terminal
modes each place owes, on the error paths as well. `RequestHonest` keeps the
command line together with the request made of it.

### GpuDevice

For any grid, number of candidates per thread, batch, number of launches, start
scalar, correct or faulty kernel, on CUDA and on Metal.

**Assumptions.** `GridAssumption`; `DeviceScalarAssumption` (a searcher's chain,
wherever in the clamped range it begins, ends below `CombReach`, at most 7 * 2^248
above that range: a bound on the number of launches, and what makes every start of
a kernel thread one that `KernelThread` shows multiplied rightly, although the
comment at `ge_scalarmult_base` promises only those below 2^255);
`DeviceGroupAssumption` (the homomorphism); `NeutralAssumption`: no candidate of
the chain has the neutral point. It is what makes a zeroed slot distinguishable
from a pair and holds of the curve: 8 times a scalar is neutral where the group
order L, a little above 2^252, divides it, and the first multiple of 8L that
is not below the clamped range is 8L itself, more than 2^127 beyond its top.

**The inductive invariant.** `FreshTerritory` needs two directions at once: what
has been compared lies behind the chain, or in this block behind the thread that
walks its stretch (`TestedOK`), and the stretches of two threads, and of two
launches, are disjoint, which is arithmetic of blocks (Section 1 of the module).
`RejectedOnlyAfterLoss` needs that from the flag to the last write one thread owns
the slot, and what the slot holds at each of the three steps (`SlotOK`); that the
pair it then holds passes the host's check follows from `ThreadOK`, which
says that the point was that of the scalar. The refinement needs, beyond that, that
a launch that found nothing has tested the whole block (`TestedOK` with every
thread gone and the flag clear) and that the tally is the number of hits
(`TallyOK`: the tally and the threads' local counts make up the hits of what
they walked, stretch by stretch).

### PrefixMatch

For any even number of values of a nibble, any length of a key above one byte, any
width of a word, and any command lines of any length below what a word can
count; digits, letters and prefixes are whatever they are.

**Assumption.** `FormatAssumption` has the sizes. Two parts are about the word
in which lengths and the number of prefixes are written: it can hold the number
of nibbles of a key (64, in a `u32`), and a command line has at least one argument
(clap requires one) and fewer than 2^32, since `prefix_count` is
`prefixes.len() as u32`. A longer command line would be cut off modulo 2^32; no
operating system passes one.

**The inductive invariant.** `PInv`: every prefix in use passed validation; with
the arguments still to come there is at least one and a word can count them; while
the buffer is packed the estimate is that of the final prefixes; and a search
runs on `prefix_data` of exactly these prefixes. It is about the steps of
`main`, and short; what the theorems need beyond it is about the data, and true of
every key and every sequence of spellings.

**The argument**, by the sections of the module.

1. A byte is two nibbles, and determined by them. `HighNibble` compares the upper.
2. `MatcherMatches(p, k)` holds exactly if the hex digits of `k` begin with `p`: whole
   bytes give the digits in pairs, the trailing nibble the odd last one.
   `should_skip` is about the first two digits.
3. A number below `Place[WordBytes]` is what the kernel reads back from the
   bytes the host wrote: the partial sums of a little-endian word are remainders.
4. Packing: each step appends the word, the bytes and the padding, and changes no byte
   that is there already (`EntriesStay`), so that in the final buffer every
   prefix still lies where it was put. `prefix_data` is a recursive function; that it
   satisfies its own equation is proved from the existence of iterates
   (`IterationExists`), by induction over a set of naturals.
5. The walk: `ptr[i] = Len(prefix_data[i])` for every `i`, because the number it
   adds, rounded up from the length it has read, is the number of bytes that were
   appended. With `i = prefix_count` this is `WalkEndsAtBuffer`. What the kernel compares
   at each stop is then the prefix the host packed. A prefix ends at least one byte
   before the key does (`MaxNibbles`), so clearing the sign bit changes no
   byte a prefix is compared with (`SignIsBeyondPrefixes`).
6. Counting: the keys whose first n digits are given are `Radix ^ (2 KeyBytes - n)`
   (`ClassSize`, through the bijection with the digits left free). The sets of keys of
   distinct prefixes of one length are disjoint, a longer prefix only adds keys, and
   with no one-nibble prefix of a reserved byte none of these keys is skipped
   (`NumberAccepted`). So the search accepts at least `SameLenCount` such classes, and
   exactly these if all lengths are equal; dividing, the estimate is at least
   the mean, or the mean itself, with the rounding of the code's integer division.
7. The invariant and the theorems. For `AcceptedCanBeFound` the key is given: the
   prefix, then a digit that avoids the reserved bytes, then zeros.

### Bench

For any machine, any modes and `--threads` arguments, any number of workers, batch
size, flush threshold and launch size.

**Assumption.** `BenchAssumption`: the machine reports at least one logical core
(`available_parallelism` or 1), the modes are those of `BenchMode`, sizes are
naturals, a batch and the flush threshold are not 0.

**The inductive invariant.** `ModesIsolated` needs that `stop()` has joined only
workers that are gone, and that the workers beyond the current request are
(`StagesOK`); then joining all of the current request leaves none. `HandsOK` adds
what a worker may hold where it is: in its loop fewer keys than the flush
threshold, between the two flushes no keys, once gone nothing, by whichever exit
it left: the drain, a device error, or a panic in its first draw. `TotalsExact`
needs that the shared counters and what the workers hold balance the histories
(`CountsBalance`), sums over the workers of which a flush, a comparison and a drain
each change one entry: exactly while no launch has failed, in matches never more
than were found, and short of the candidates compared by at most one launch for
each CUDA worker that has `failed`, and so is gone.

**The argument.** Section 1 of the module shows that every mode asks for a number
of workers; section 2 takes the steps of `run` and `run_one_mode` one by one;
section 3 reads each step of a worker as a move of its label and its two counts
(`WorkerMoves`) to a place where `HandsOK` allows them; section 4 shows the
balance.

### KeygenVerify

For any chain length, limit on mismatches, group, start scalar and faults.
`KVInv` says that host and device are at the same step: the expected scalar is
the start and 8 times the index, also after a mismatch; what the kernel has
written so far is what `Truth` asks unless a fault was used; and the two counts
are those of the compared steps. `Count` steps that match are all steps, and the
verdict looks at the failures only, so a device that never ran cannot pass.

### ScalarMath

For any number of bytes above one and any byte width that is a multiple of 8
(`WidthAssumption`: a word, for the offsets that a kernel adds from 64 bits, has
at most the bytes of a scalar).

`MInv == MTypeOK /\ LoopOK /\ Balance /\ ClampedOnce`. The heart is `Balance`:
in the middle of a loop the bytes, with the carry weighted by the place of the
next byte, stand for the input and what has been added so far. One iteration
changes one byte, so `SumUpdate` gives the change of the value, and division
with remainder shows that byte and carry make up for it. When a loop breaks
off, nothing is left to add; when it runs to the end, what is carried out is a
multiple of 2^(8 Bytes), which is the wrap. Induction over the bytes is what
`Balance` and `UpTo` (induction over a set of naturals, from well-foundedness) do
in place of an induction theorem with a predicate parameter. Clamping is three byte
operations; that they are `((s - s % 8) % base) + base` needs that bytes are the
digits of their value (`QuotientUnique`).

### KernelThread

For any twisted Edwards curve -x^2 + y^2 = 1 + d x^2 y^2 over a prime field with a
base point of any order, scalars of any number of bytes, any batch size, number of
iterations, starts and wanted encodings.

**Assumptions.** They are the mathematics of the curve, which the code relies on and
does not compute, and the sizes:

- `FieldAssumption`: P is a natural number, 5 modulo 8; d is no square; the
  coordinates are field elements; the sign bit lies above P;
- `PrimeAssumption`: every field element but 0 has an inverse. That P is prime is
  used for nothing else;
- `MultiplesAssumption`: `Multiples` lists the base point's multiples, each the
  sum (by the affine law) of the one before and the base point;
- `GroupAssumption`: the sum of two multiples has no denominator 0 (completeness of
  the law), and the law is associative;
- `BytesAssumption`, `InputsAssumption` (a[31] <= 134: the comment at
  `ge_scalarmult_base` asks for 127, but a start of a GPU chain may lie above
  2^255) and `BatchAssumption` (iterations come in whole batches; starts are
  inputs).

TLC evaluates all of them on the curve of the run, associativity included. For
Curve25519 they are theorems of the literature; nothing here proves them.
That `fe_invert`'s addition chain is an exponentiation to p - 2 is the separate
assertion of `FieldPower`, evaluated by TLC; `fe_invert` itself is its definition:
some inverse.

**The inductive invariant.**
`KInv == ScalarMultInv /\ KTypeOK /\ BatchOK /\ FoundOK /\ ChainOK`.

- `ScalarMultInv`: while digits are recoded, those already signed, those still
  unsigned and the carry at the current place make up the scalar, and the top digit
  keeps room for the last carry: it is at most 7, or it is 8 and the digit below
  it at most 6, so that no carry comes (`RoomOnTop`). That is where a[31] <= 134 is
  used: 0x87 would carry into a digit 9, which `select` has no entry for. In
  the two adding loops the point stands for the digits added so far: for the odd
  ones divided by 16 before the four doublings, in full after them.
- `BatchOK`: while a batch is gathered, lane k holds the projective coordinates of
  the point k steps on, with Z not 0, and `products[k]` is the product of the Z up
  to k. While the inverses are extracted from the last lane down, `running` is
  the inverse of `products[i]`: the lanes above i hold a true 1/Z, those up to i
  still their Z. `LanesAreChainPoints` alone says nothing in the middle of
  either loop.
- `FoundOK`: of the candidates compared so far none was a hit (searching), or
  `matches` is the number of the hits (counting).
- `ChainOK`: the verifier's point and scalar stay together, and what it wrote is
  the chain.

**The argument**, by the sections of the module.

1. Residues: `%` respects sums and products, so an equation between field
   elements is one between integers followed by a reduction, and the inverse of an
   element is unique.
2. Multiples: `Times` is a homomorphism, because `Plus` is associative
   on the multiples; a negated point is the negated multiple, which is what a
   negative digit needs.
3. Formulas: if a projective point represents an affine one, `ge_madd` with a table
   entry and `ge_p2_dbl` give coordinates that represent the sum and the
   double, through the completed form, whatever Z is; `select` is a chain of
   conditional moves, of which at most one moves.
4. `ge_scalarmult_base`: one lemma per action. A recoding step changes two
   summands of `Value`, which cancel; an addition changes the set of digits summed
   by one.
5. The kernels' loops: each lemma first says what one iteration does to one lane,
   as a predicate on explicit values, then lifts it to the state.
6. The theorems.

What is not proved of the arithmetic is below the field element: that ten limbs
represent it (section 8).

## 7. Disagreements between the code and its documentation

| run | what the code does | what is said |
|---|---|---|
| `frontend_errors` / `ErrorsAreReported` | the interactive loop calls `finish()` only after `found` (`src/main.rs:263`); when every GPU thread has returned with an error, or `-t 0` leaves no thread at all, it draws for ever and the error is never shown. `--json` does return it (`JsonEnds`) | `src/types.rs:21`: "Error returned when a search completes without finding a match (e.g., all GPU workers errored out)" |
| `gpu_metal_count` / `CountsAreExact` | `count_batch` on Metal waits and returns the full `keys_checked` without reading the command's status (`src/metal_gpu.rs:272`) | `src/metal_gpu.rs:238`: "never exits early and atomically tallies every match" |
| `gpu_docs` / `StartsAsDocumented` | thread `tid` starts at `start + 8 * tid * iters_per_thread` (`cuda/vanity_kernel.cu:3361`) | `docs/gpu.md:30`: `start_scalar + 8 * tid`. With that layout neighbouring threads would test the same keys: it is the mutant that breaks `FreshTerritory` |
| `prefix_estimate` / `EstimateIsDifficulty` | `16u64.pow(min_len)` overflows from 16 digits on (`src/main.rs:414`), a release build shows an estimate of 0, a debug build panics before the search | `README.md:35`: "Each hex character multiplies expected attempts by 16" |

The property `ErrorsAreReported` is checked under `FFairSpec`: the
counterexample is a loop in which every thread of the program keeps running.

Noticed and not turned into runs: `README.md:17`, `docs/gpu.md:38` and a kernel
comment (`cuda/vanity_kernel.cu:3473`) speak of a `--benchmark <SECS>` option, while
the command line has a `bench` command; and the kernels call `ge_scalarmult_base`
outside its stated precondition (`cuda/vanity_kernel.cu:3145`) once a chain has left
the clamped range, which does no harm up to 2^255 + 7 * 2^248 (section 6).

## 8. What is only model-checked, and what is not modelled

Only model-checked:

- liveness (`StopsAfterHit`, `FinishReturns`, `HitEndsProgram`, `JsonEnds`,
  `LaunchEnds`, `BenchEnds`), since fairness and ENABLED are out of the
  prover's reach;
- the exponent of `fe_invert`'s addition chain in `FieldPower`: no parameter and no
  state, one computation on sets of bit positions, so evaluating it once is complete.

Not modelled:

- **limbs** - a field element is a number modulo P; bounds of the ten 26/25-bit
  limbs and `fe_tobytes`'s carry chain are in the plan below;
- **operations of the ref10 code that no kernel calls**;
- **SHA-512** - `generate_keypair` hashes a seed; the hash is any function;
- **drawing, number formatting, JSON and TSV text, rates and confidence
  bounds** - no property is about them;
- **build script, CI, packaging**;
- **curve25519-dalek, cudarc, metal, ratatui, crossterm, sysinfo** - what the
  code relies on is an assumption (the group law) or a nondeterministic choice
  (a call that fails); opening a device, compiling its kernel and allocating its
  buffers are one step that succeeds or fails;
- **the random second half of a private key** - it carries no requirement;
- **a chain that wraps at 2^256** - with 2^251 possible starts below 2^255 none
  gets there; chains are followed to `ChainLimit`, and `Genuine` asks for a scalar
  below it, not below 2^255. How far a key may lie beyond the clamped range is
  what `KeyNearDraw` bounds.

## 9. Plan

Written in this order, the most important behaviour first: `Search` with
`VanitySearch`; `Frontend`; `GpuDevice` with `GpuContract` and `GpuLaunch`, which
`Search` is composed with; `PrefixMatch`; `ScalarMath`; `Bench`; the arithmetic
modules; `KeygenVerify`. Then the proofs, in the order `Search`, `Frontend`,
`GpuDevice`, `Bench`, `KeygenVerify`, `ScalarMath`, `KernelThread`, `PrefixMatch`.

Open, both below the field element:

1. `LimbBounds`: the magnitude of the limbs through `fe_add`, `fe_sub`,
   `fe_mul`, `fe_sq`, `ge_madd` and `ge_p2_dbl`, against the preconditions the
   comments state (1.1 * 2^25 and 1.65 * 2^26), and the absence of overflow in
   the 64-bit accumulators.
2. `fe_tobytes` on small limbs: the value is reduced to `[0, p)`.
