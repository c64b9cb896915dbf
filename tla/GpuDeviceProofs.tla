-------------------------- MODULE GpuDeviceProofs --------------------------
(***************************************************************************)
(* Proofs about GpuDevice, for every grid, number of candidates per        *)
(* thread, batch and number of launches: the inductive invariant GInv,     *)
(* that no candidate is compared twice, that the result slot is never      *)
(* torn, and that a searcher keeps its contract.                           *)
(***************************************************************************)
EXTENDS GpuDevice, SumLemmas, FiniteSetTheorems

(***************************************************************************)
(* 1. The grid and the chain: arithmetic of blocks and stretches.          *)
(***************************************************************************)

\* The types of the constants.
LEMMA Grid ==
  /\ NumThreads \in Int /\ NumThreads > 0 /\ Iters \in Int /\ Iters > 0
  /\ MaxLaunches \in Nat /\ ClampBase \in Nat /\ ClampBase > 0
  /\ ScalarMod = 4 * ClampBase
BY GridAssumption, DeviceScalarAssumption

\* A block has one candidate per thread and iteration.
LEMMA Keys ==
  keys_checked \in Int /\ keys_checked > 0
<1>1. NumThreads * Iters \in Int /\ NumThreads * Iters > 0
  BY Grid
<1>. QED  BY <1>1 DEF keys_checked

\* Products of ordered numbers are ordered.
LEMMA MultMonotone ==
  ASSUME NEW a \in Int, NEW b \in Int, NEW c \in Int, c > 0, a <= b
  PROVE  a * c <= b * c
OBVIOUS

\* One more block.
LEMMA OneMoreBlock ==
  ASSUME NEW a \in Int, NEW c \in Int
  PROVE  (a + 1) * c = a * c + c /\ c * (a + 1) = c * a + c /\ a * c \in Int /\ c * a \in Int
OBVIOUS

\* The stretches of the threads lie in the block, one behind the other.
LEMMA StretchInBlock ==
  ASSUME NEW t \in Threads
  PROVE  t * Iters \in Nat /\ t * Iters + Iters <= keys_checked
<1>1. t \in Int /\ t >= 0 /\ t + 1 <= NumThreads
  BY Grid DEF Threads
<1>2. (t + 1) * Iters <= NumThreads * Iters
  BY <1>1, Grid, MultMonotone
<1>3. (t + 1) * Iters = t * Iters + Iters
  BY <1>1, Grid, OneMoreBlock
<1>4. 0 * Iters <= t * Iters
  BY <1>1, Grid, MultMonotone
<1>5. 0 * Iters = 0 /\ t * Iters \in Int
  BY <1>1, Grid
<1>. QED  BY <1>2, <1>3, <1>4, <1>5 DEF keys_checked

\* The stretch of an earlier thread ends before that of a later one begins.
LEMMA StretchesApart ==
  ASSUME NEW t \in Threads, NEW u \in Threads, t < u
  PROVE  t * Iters + Iters <= u * Iters
<1>1. t \in Int /\ u \in Int /\ t + 1 <= u
  BY Grid DEF Threads
<1>2. (t + 1) * Iters <= u * Iters
  BY <1>1, Grid, MultMonotone
<1>. QED  BY <1>1, <1>2, Grid, OneMoreBlock

\* Whole batches add up to the iterations of a thread.
LEMMA LastIterIsIters == LastIter = Iters
<1>1. Batch \in Int /\ Batch > 0 /\ Iters % Batch = 0
  BY GridAssumption
<1>. DEFINE q == Iters \div Batch
<1>2. Iters = Batch * q + (Iters % Batch) /\ q \in Int
  BY <1>1, Grid, Quotient
<1>. HIDE DEF q
<1>3. q * Batch = Iters
  BY <1>1, <1>2
<1>. QED  BY <1>3 DEF LastIter, Batches, q

\* A clamped scalar is a multiple of 8 in 2^254..2^255-1.
LEMMA ClampedStart ==
  ASSUME NEW s \in Starts
  PROVE  s \in Nat /\ ClampBase <= s /\ s <= 2 * ClampBase - 8
<1>1. PICK r \in RandomDraws : s = clamp_scalar(r)
  BY DEF Starts
<1>. DEFINE a == r - (r % 8)
<1>2. r \in 0..(4 * ClampBase - 1) /\ ClampBase \in Nat /\ ClampBase > 0 /\ ClampBase % 8 = 0
  BY DeviceScalarAssumption
<1>3. a \in 0..(4 * ClampBase - 1) /\ a % 8 = 0
  BY <1>2
<1>4. a % ClampBase \in {a, a - ClampBase, a - 2*ClampBase, a - 3*ClampBase}
  BY <1>2, <1>3
<1>5. a % ClampBase \in 0..(ClampBase - 1)
  BY <1>2, <1>3
<1>6. (a % ClampBase) % 8 = 0
  BY <1>2, <1>3, <1>4, <1>5
<1>. DEFINE b == a % ClampBase
<1>7. s = b + ClampBase
  BY <1>1 DEF clamp_scalar
<1>8. b \in Nat /\ b <= ClampBase - 1 /\ b % 8 = 0
  BY <1>2, <1>5, <1>6
<1>. HIDE DEF b
<1>9. b <= ClampBase - 8
  BY <1>2, <1>8
<1>. QED  BY <1>2, <1>7, <1>8, <1>9

\* The bound on launches keeps the chain within the kernel's reach.
LEMMA BlockFits ==
  ASSUME NEW n \in Nat, n < MaxLaunches
  PROVE  /\ keys_checked * n \in Nat
         /\ keys_checked * n + keys_checked <= keys_checked * MaxLaunches
         /\ 8 * (keys_checked * MaxLaunches) <= CombReach - 2 * ClampBase
         /\ CombReach \in Nat /\ CombReach <= 4 * ClampBase
<1>. DEFINE k == keys_checked
<1>1. k \in Int /\ k > 0 /\ n \in Int /\ n + 1 <= MaxLaunches /\ MaxLaunches \in Int
  BY Keys, Grid
<1>2. 8 * NumThreads * Iters * MaxLaunches <= CombReach - 2 * ClampBase
      /\ CombReach \in Nat /\ CombReach <= 4 * ClampBase
  BY DeviceScalarAssumption
<1>3. 8 * NumThreads * Iters * MaxLaunches = 8 * (k * MaxLaunches)
  BY Grid DEF keys_checked
<1>. HIDE DEF k
<1>4. k * (n + 1) <= k * MaxLaunches /\ k * n >= 0
  <2>1. (n + 1) * k <= MaxLaunches * k /\ 0 * k <= n * k
    BY <1>1, MultMonotone
  <2>. QED  BY <1>1, <2>1
<1>5. k * (n + 1) = k * n + k /\ k * n \in Int
  BY <1>1
<1>. QED  BY <1>2, <1>3, <1>4, <1>5 DEF k

(***************************************************************************)
(* 2. The candidates of the current block.                                 *)
(***************************************************************************)

\* While a grid runs, and until the host has read its buffer, the block fits
\* between the clamped range and the reach of the kernel's multiplication.
LEMMA BlockRange ==
  ASSUME GTypeOK, StartOK, host \in {"waiting", "synced"}
  PROVE  /\ start_scalar \in Nat /\ start_scalar >= ClampBase
         /\ start_scalar + 8 * keys_checked <= ScalarMod - 8
         /\ start_scalar + 8 * keys_checked <= CombReach - 8 /\ CombReach \in Nat
         /\ \E r \in Starts : \A j \in 0..(keys_checked - 1) : start_scalar + 8 * j \in Chain(r)
<1>1. launches - 1 \in Nat /\ launches - 1 < MaxLaunches /\ BlocksDone(launches - 1)
  <2>1. launches \in 0..MaxLaunches
    BY Zenon DEF GTypeOK
  <2>2. launches > 0 /\ BlocksDone(launches - 1)
    BY Zenon DEF StartOK
  <2>. QED  BY <2>1, <2>2, Grid
<1>. DEFINE n == launches - 1
<1>2. PICK r \in Starts : start_scalar = r + 8 * (keys_checked * n)
  BY <1>1 DEF BlocksDone
<1>. DEFINE b == keys_checked * n
<1>3. b \in Nat /\ b + keys_checked <= keys_checked * MaxLaunches
      /\ 8 * (keys_checked * MaxLaunches) <= CombReach - 2 * ClampBase
      /\ CombReach \in Nat /\ CombReach <= 4 * ClampBase
  BY <1>1, BlockFits
<1>4. r \in Nat /\ ClampBase <= r /\ r <= 2 * ClampBase - 8
  BY ClampedStart
<1>. DEFINE m == keys_checked * MaxLaunches
<1>5. start_scalar = r + 8 * b
  BY <1>2
<1>6. b + keys_checked <= m /\ 8 * m <= CombReach - 2 * ClampBase
  BY <1>3
<1>7. m \in Int
  BY Keys, Grid
<1>. HIDE DEF b, n, m
<1>8. start_scalar \in Nat /\ start_scalar >= ClampBase
      /\ start_scalar + 8 * keys_checked <= ScalarMod - 8
      /\ start_scalar + 8 * keys_checked <= CombReach - 8 /\ CombReach \in Nat
  BY <1>3, <1>4, <1>5, <1>6, <1>7, Keys, Grid
<1>9. ASSUME NEW j \in 0..(keys_checked - 1) PROVE start_scalar + 8 * j \in Chain(r)
  <2>1. start_scalar + 8 * j = r + 8 * (b + j) /\ b + j \in 0..(m - 1)
    BY <1>3, <1>4, <1>5, <1>6, <1>7, Keys
  <2>. QED  BY <2>1 DEF Chain, m
<1>. QED  BY <1>8, <1>9

\* A candidate of the block, as a number.
LEMMA CandidateRange ==
  ASSUME GTypeOK, StartOK, host \in {"waiting", "synced"},
         NEW t \in Threads, NEW i \in 0..Iters
  PROVE  /\ Candidate(t, i) = start_scalar + 8 * (t * Iters) + 8 * i
         /\ Candidate(t, i) \in Nat /\ start_scalar <= Candidate(t, i)
         /\ Candidate(t, i) <= start_scalar + 8 * keys_checked
         /\ Candidate(t, i) \in 0..(ScalarMod - 1)
         /\ Candidate(t, i) + 8 \in 0..(ScalarMod - 1) \/ i = Iters
<1>. DEFINE p == t * Iters
<1>1. p \in Nat /\ p + Iters <= keys_checked
  BY StretchInBlock
<1>2. start_scalar \in Nat /\ start_scalar + 8 * keys_checked <= ScalarMod - 8
  BY BlockRange
<1>3. Candidate(t, i) = start_scalar + 8 * (p + i)
  BY DEF Candidate
<1>. HIDE DEF p
<1>4. /\ Candidate(t, i) = start_scalar + 8 * p + 8 * i
      /\ Candidate(t, i) \in Nat /\ start_scalar <= Candidate(t, i)
      /\ Candidate(t, i) <= start_scalar + 8 * keys_checked
      /\ Candidate(t, i) \in 0..(ScalarMod - 1)
      /\ Candidate(t, i) + 8 \in 0..(ScalarMod - 1) \/ i = Iters
  BY <1>1, <1>2, <1>3, Keys, Grid
<1>. QED  BY <1>4 DEF p

\* A candidate of the block is a scalar of the chain: its successor has
\* another key, one addition of 8B away, and its own key is not the neutral
\* element.
LEMMA CandidateKeys ==
  ASSUME GTypeOK, StartOK, host \in {"waiting", "synced"},
         NEW t \in Threads, NEW i \in 0..(Iters - 1)
  PROVE  LET c == Candidate(t, i)
         IN  /\ c \in Contract!Block(start_scalar)
             /\ Mult(c) \in Nat /\ Mult(c) # Mult(0)
             /\ Mult(c + 8) = Add8B(Mult(c)) /\ Mult(c + 8) # Mult(c)
             /\ Mult(c + 8) \in Nat
             /\ Candidate(t, i + 1) = c + 8
<1>. DEFINE c == Candidate(t, i)
            j == t * Iters + i
<1>1. t * Iters \in Nat /\ t * Iters + Iters <= keys_checked
  BY StretchInBlock
<1>2. j \in 0..(keys_checked - 1)
  BY <1>1, Keys, Grid
<1>3. c = start_scalar + 8 * j
  BY DEF Candidate
<1>4. Candidate(t, i + 1) = start_scalar + 8 * (t * Iters + (i + 1))
  BY DEF Candidate
<1>5. start_scalar \in Nat
  BY BlockRange
<1>6. Candidate(t, i + 1) = c + 8
  BY <1>1, <1>3, <1>4, <1>5, Grid
<1>. HIDE DEF c, j
<1>7. PICK r \in Starts : c \in Chain(r)
  BY <1>2, <1>3, BlockRange
<1>8. Mult(c) # Mult(0) /\ Add8B(Mult(c)) # Mult(c)
  BY <1>7, NeutralAssumption
<1>9. c \in 0..(ScalarMod - 1) /\ c + 8 \in 0..(ScalarMod - 1)
  BY <1>2, <1>3, <1>5, BlockRange, Keys, Grid
<1>10. Mult(c) \in Nat /\ Mult(c + 8) = Add8B(Mult(c)) /\ Mult(c + 8) \in Nat
  BY <1>9, DeviceGroupAssumption
<1>11. c \in Contract!Block(start_scalar)
  <2>1. c = (start_scalar + 8 * j) % ScalarMod
    BY <1>3, <1>9, Grid
  <2>. QED  BY <1>2, <2>1 DEF Contract!Block
<1>. QED  BY <1>6, <1>8, <1>10, <1>11 DEF c

\* Where a thread of a running grid starts.
LEMMA ThreadStarts ==
  ASSUME GTypeOK, StartOK, host = "waiting", NEW t \in Threads
  PROVE  /\ ThreadStart(t) = Candidate(t, 0) /\ ThreadStart(t) \in 0..(ScalarMod - 1)
         /\ Mult(ThreadStart(t)) \in Nat
         /\ ge_scalarmult_base(ThreadStart(t)) = {Mult(ThreadStart(t))}
<1>. DEFINE p == t * Iters
<1>1. p \in Nat
  BY StretchInBlock
<1>2. 8 * t * Iters = 8 * p
  BY Grid DEF Threads
<1>3. /\ Candidate(t, 0) = start_scalar + 8 * p + 8 * 0
      /\ Candidate(t, 0) \in 0..(ScalarMod - 1)
      /\ Candidate(t, 0) <= start_scalar + 8 * keys_checked
  BY CandidateRange, Grid
<1>4. /\ start_scalar \in Nat /\ CombReach \in Nat
      /\ start_scalar + 8 * keys_checked <= CombReach - 8
  BY BlockRange
<1>. HIDE DEF p
<1>5. ThreadStart(t) = Candidate(t, 0)
  BY <1>1, <1>2, <1>3, <1>4, Grid DEF ThreadStart, advance_scalar
<1>6. ThreadStart(t) < CombReach
  BY <1>3, <1>4, <1>5, Keys
<1>7. ge_scalarmult_base(ThreadStart(t)) = {Mult(ThreadStart(t))}
  BY <1>6 DEF ge_scalarmult_base
<1>. QED  BY <1>3, <1>5, <1>7, DeviceGroupAssumption

\* A thread between its start and its exit: its scalar, its point, and where
\* the next iteration takes them.
LEMMA RunningThread ==
  ASSUME GTypeOK, StartOK, ThreadsOK, host = "waiting", NEW t \in Threads,
         kpc[t] \notin {"launched", "exited"}
  PROVE  LET c == Candidate(t, iter[t])
         IN  /\ iter[t] \in 0..Iters /\ A[t] = Mult(c)
             /\ MatchScalar(t) = c /\ c \in 0..(ScalarMod - 1)
             /\ kpc[t] # "batch" =>
                  /\ iter[t] \in 0..(Iters - 1)
                  /\ MatchScalar_NextStep(t) = c + 8
                  /\ c + 8 \in 0..(ScalarMod - 1)
                  /\ Candidate(t, iter[t] + 1) = c + 8
                  /\ c \in Contract!Block(start_scalar)
                  /\ Add8B(A[t]) = Mult(c + 8) /\ Add8B(A[t]) \in Nat
                  /\ Mult(c + 8) # Mult(c) /\ Mult(c) # Mult(0)
<1>. DEFINE i == iter[t]
            c == Candidate(t, i)
<1>1. /\ my_scalar[t] = Candidate(t, 0) /\ A[t] = Mult(c)
      /\ kpc[t] # "batch" => i < Iters
  BY Zenon DEF ThreadsOK, ThreadOK
<1>2. i \in 0..Iters
  BY DEF GTypeOK
<1>3. /\ c = start_scalar + 8 * (t * Iters) + 8 * i
      /\ Candidate(t, 0) = start_scalar + 8 * (t * Iters) + 8 * 0
      /\ c \in 0..(ScalarMod - 1)
      /\ c + 8 \in 0..(ScalarMod - 1) \/ i = Iters
  BY <1>2, CandidateRange, Grid
<1>4. t * Iters \in Nat /\ start_scalar \in Nat
  BY StretchInBlock, BlockRange
<1>5. MatchScalar(t) = (Candidate(t, 0) + 8 * i) % ScalarMod
  BY <1>1 DEF MatchScalar, advance_scalar
<1>6. MatchScalar_NextStep(t) = (Candidate(t, 0) + 8 * (i + 1)) % ScalarMod
  BY <1>1 DEF MatchScalar_NextStep, advance_scalar
<1>. HIDE DEF i, c
<1>7. Candidate(t, 0) + 8 * i = c /\ Candidate(t, 0) + 8 * (i + 1) = c + 8
  BY <1>2, <1>3, <1>4
<1>8. MatchScalar(t) = c
  BY <1>3, <1>5, <1>7, Grid
<1>9. ASSUME kpc[t] # "batch"
      PROVE  /\ i \in 0..(Iters - 1)
             /\ MatchScalar_NextStep(t) = c + 8 /\ c + 8 \in 0..(ScalarMod - 1)
             /\ Candidate(t, i + 1) = c + 8
             /\ c \in Contract!Block(start_scalar)
             /\ Add8B(A[t]) = Mult(c + 8) /\ Add8B(A[t]) \in Nat
             /\ Mult(c + 8) # Mult(c) /\ Mult(c) # Mult(0)
  <2>1. i \in 0..(Iters - 1)
    BY <1>1, <1>2, <1>9, Grid
  <2>2. c + 8 \in 0..(ScalarMod - 1)
    BY <1>3, <2>1, Grid
  <2>3. MatchScalar_NextStep(t) = c + 8
    BY <1>6, <1>7, <2>2, Grid
  <2>4. /\ c \in Contract!Block(start_scalar) /\ Mult(c) # Mult(0)
        /\ Mult(c + 8) = Add8B(Mult(c)) /\ Mult(c + 8) # Mult(c)
        /\ Mult(c + 8) \in Nat /\ Candidate(t, i + 1) = c + 8
    BY <2>1, CandidateKeys DEF c
  <2>. QED  BY <1>1, <2>1, <2>2, <2>3, <2>4
<1>. QED  BY <1>1, <1>2, <1>3, <1>8, <1>9 DEF c, i

-----------------------------------------------------------------------------
(***************************************************************************)
(* 3. What every step leaves alone.                                        *)
(***************************************************************************)

\* A thread of the grid moves only itself, and nothing of the host.
LEMMA KernelFrame ==
  ASSUME GTypeOK, NEW t \in Threads, KernelStep(t)
  PROVE  /\ host = "waiting" /\ kpc[t] # "exited" /\ UNCHANGED hostVars
         /\ \A u \in Threads : u # t =>
              /\ kpc'[u] = kpc[u] /\ my_scalar'[u] = my_scalar[u] /\ A'[u] = A[u]
              /\ iter'[u] = iter[u] /\ local'[u] = local[u]
  BY DEF GTypeOK, KernelStep, KernelStart, NextBatch, EarlyExit, LastBatchDone, Scan,
     ScanHit, Claim, WriteKey, WriteScalar, Misreport, Goto, threadVars

\* A step of the host after which a grid runs, or its result is unread, is a
\* launch, the end of a grid, or a failed command.
HostRuns ==
  \/ LaunchSearch \/ LaunchCount
  \/ Sync
  \/ CommandFails

\* A step of the host is one of these, opens the searcher, returns to the
\* idle state, or ends its life; none but the first changes a thread.
LEMMA HostFrame ==
  ASSUME GTypeOK, HostStep
  PROVE  /\ UNCHANGED <<backend, faulty, mode, threadVars, tested, retested>>
         /\ \/ HostRuns
            \/ Opened
            \/ ReturnCount \/ ReturnMiss
            \/ host' = "dead"
         /\ ~(LaunchSearch \/ LaunchCount) => buf' = buf
  BY DEF HostStep, CudaNew, MetalNew, Opened, NewFails, LaunchSearch, LaunchCount, Launch,
     DriverError, CommandFails, Sync, ReturnCount, ReturnMiss, ReturnKey, Return, Reject,
     HostRuns, threadVars

-----------------------------------------------------------------------------
(***************************************************************************)
(* 4. The invariant, part by part.                                         *)
(***************************************************************************)

\* A new searcher satisfies the invariant.
LEMMA GInit == Init => GInv
<1>. SUFFICES ASSUME Init PROVE GInv
  OBVIOUS
<1>1. 0 \in 0..(ScalarMod - 1) /\ 0 \in 0..MaxLaunches /\ 0 \in 0..Iters
  BY Grid
<1>2. Mult(0) \in Nat
  BY <1>1, DeviceGroupAssumption
<1>3. GTypeOK
  <2>1. 0 \in 0..1 /\ -1 \in Int /\ 0 \in Nat
    OBVIOUS
  <2>2. /\ buf \in [flag : 0..1, public : Int, scalar : 0..(ScalarMod - 1), tally : Nat]
        /\ reply.kind \in {"none", "miss", "key", "count", "error", "invalid"}
    BY <1>1, <2>1 DEF Init, ZeroBuffer, Plain
  <2>3. /\ kpc \in [Threads -> {"launched", "batch", "scan", "claim", "write key",
                                "write scalar", "exited"}]
        /\ my_scalar \in [Threads -> 0..(ScalarMod - 1)] /\ A \in [Threads -> Nat]
        /\ iter \in [Threads -> 0..Iters] /\ local \in [Threads -> 0..Iters]
    BY <1>1, <1>2 DEF Init
  <2>4. /\ backend \in Backends /\ faulty \in Kernels /\ mode \in {"search", "count"}
        /\ host \in {"unopened", "idle", "waiting", "synced", "dead"}
        /\ start_scalar \in 0..(ScalarMod - 1) /\ launches \in 0..MaxLaunches
        /\ lossy \in BOOLEAN /\ retested \in BOOLEAN
    BY <1>1 DEF Init
  <2>. QED  BY <2>2, <2>3, <2>4, Zenon DEF GTypeOK
<1>4. StartOK /\ ReplyOK /\ SlotOK
  BY DEF Init, StartOK, ReplyOK, SlotOK, Plain
<1>5. ThreadsOK /\ TestedOK /\ TallyOK
  BY DEF Init, ThreadsOK, TestedOK, TallyOK, ZeroBuffer
<1>. QED  BY <1>3, <1>4, <1>5 DEF GInv

\* The types of the buffer and of the threads.
Slots == [flag : 0..1, public : Int, scalar : 0..(ScalarMod - 1), tally : Nat]
Places == {"launched", "batch", "scan", "claim", "write key", "write scalar", "exited"}

\* Type correctness, one variable at a time.
LEMMA KernelTypeParts ==
  ASSUME GTypeOK, UNCHANGED hostVars, retested' \in BOOLEAN, buf' \in Slots,
         kpc' \in [Threads -> Places], my_scalar' \in [Threads -> 0..(ScalarMod - 1)],
         A' \in [Threads -> Nat], iter' \in [Threads -> 0..Iters],
         local' \in [Threads -> 0..Iters]
  PROVE  GTypeOK'
BY Zenon DEF GTypeOK, hostVars, Slots, Places

\* What the types say of the threads.
LEMMA ThreadTypes ==
  ASSUME GTypeOK
  PROVE  /\ retested \in BOOLEAN /\ buf \in Slots
         /\ kpc \in [Threads -> Places] /\ my_scalar \in [Threads -> 0..(ScalarMod - 1)]
         /\ A \in [Threads -> Nat] /\ iter \in [Threads -> 0..Iters]
         /\ local \in [Threads -> 0..Iters]
BY Zenon DEF GTypeOK, Slots, Places

\* What the types say of the host.
LEMMA HostVarTypes ==
  ASSUME GTypeOK
  PROVE  /\ backend \in Backends /\ faulty \in Kernels /\ mode \in {"search", "count"}
         /\ host \in {"unopened", "idle", "waiting", "synced", "dead"}
         /\ start_scalar \in 0..(ScalarMod - 1) /\ launches \in 0..MaxLaunches
         /\ reply.kind \in {"none", "miss", "key", "count", "error", "invalid"}
         /\ lossy \in BOOLEAN
BY Zenon DEF GTypeOK

\* Type correctness is preserved by the threads of a grid.
LEMMA KernelTypes ==
  ASSUME GTypeOK, StartOK, ThreadsOK, NEW t \in Threads, KernelStep(t)
  PROVE  GTypeOK'
<1>. USE DEF Goto
<1>a. host = "waiting" /\ kpc[t] # "exited" /\ UNCHANGED hostVars
  BY KernelFrame
<1>b. /\ retested \in BOOLEAN /\ buf \in Slots
      /\ kpc \in [Threads -> Places] /\ my_scalar \in [Threads -> 0..(ScalarMod - 1)]
      /\ A \in [Threads -> Nat] /\ iter \in [Threads -> 0..Iters]
      /\ local \in [Threads -> 0..Iters]
  BY ThreadTypes
<1>c. kpc' \in [Threads -> Places] /\ retested' \in BOOLEAN
  BY <1>b DEF Places, KernelStep, KernelStart, NextBatch, EarlyExit, LastBatchDone, Scan,
     ScanHit, Compare, Claim, WriteKey, WriteScalar, Misreport
<1>1. buf' \in Slots
  <2>1. CASE LastBatchDone(t)
    <3>1. local[t] \in Nat
      BY <1>b, Grid
    <3>. QED  BY <1>b, <2>1, <3>1 DEF LastBatchDone, Slots
  <2>2. CASE Claim(t)
    <3>1. buf' = [buf EXCEPT !.flag = 1]
      BY <2>2 DEF Claim
    <3>. QED  BY <1>b, <3>1 DEF Slots
  <2>3. CASE WriteKey(t) \/ WriteScalar(t) \/ Misreport(t)
    <3>1. kpc[t] \in {"write key", "write scalar"}
      BY <2>3 DEF WriteKey, WriteScalar, Misreport
    <3>2. /\ MatchScalar(t) \in 0..(ScalarMod - 1)
          /\ MatchScalar_NextStep(t) \in 0..(ScalarMod - 1)
          /\ Add8B(A[t]) \in Int
      <4>1. kpc[t] \notin {"launched", "exited"} /\ kpc[t] # "batch"
        BY <3>1
      <4>2. /\ MatchScalar(t) \in 0..(ScalarMod - 1)
            /\ MatchScalar_NextStep(t) \in 0..(ScalarMod - 1)
            /\ Add8B(A[t]) \in Nat
        BY <1>a, <4>1, RunningThread, Zenon
      <4>. QED  BY <4>2
    <3>3. A[t] \in Int
      BY <1>b
    <3>. QED  BY <1>b, <2>3, <3>2, <3>3 DEF WriteKey, WriteScalar, Misreport, Slots
  <2>4. CASE UNCHANGED buf
    BY <1>b, <2>4
  <2>. QED
    BY <2>1, <2>2, <2>3, <2>4 DEF KernelStep, KernelStart, NextBatch, EarlyExit, Scan, ScanHit
<1>2. /\ my_scalar' \in [Threads -> 0..(ScalarMod - 1)]
      /\ A' \in [Threads -> Nat] /\ iter' \in [Threads -> 0..Iters]
      /\ local' \in [Threads -> 0..Iters]
  <2>1. CASE KernelStart(t)
    <3>1. ThreadStart(t) \in 0..(ScalarMod - 1) /\ Mult(ThreadStart(t)) \in Nat
      BY <1>a, ThreadStarts
    <3>2. 0 \in 0..Iters
      BY Grid
    <3>3. A' = [A EXCEPT ![t] = Mult(ThreadStart(t))]
      BY <1>a, <2>1, ThreadStarts DEF KernelStart
    <3>. QED  BY <1>b, <2>1, <3>1, <3>2, <3>3 DEF KernelStart
  <2>2. CASE Scan(t)
    <3>1. kpc[t] = "scan"
      BY <2>2 DEF Scan
    <3>2. iter[t] \in 0..(Iters - 1) /\ Add8B(A[t]) \in Nat
      BY <1>a, <3>1, RunningThread
    <3>3. local[t] \in 0..Iters /\ local[t] <= iter[t]
      BY <1>a, <1>b, <3>1, Zenon DEF ThreadsOK, ThreadOK
    <3>4. iter[t] + 1 \in 0..Iters /\ local[t] + 1 \in 0..Iters
      BY <3>2, <3>3, Grid
    <3>5. my_scalar' = my_scalar /\ A' = [A EXCEPT ![t] = Add8B(A[t])]
          /\ iter' = [iter EXCEPT ![t] = iter[t] + 1]
          /\ local' \in {local, [local EXCEPT ![t] = local[t] + 1]}
      BY <1>b, <2>2 DEF Scan
    <3>. QED  BY <1>b, <3>2, <3>4, <3>5
  <2>3. CASE UNCHANGED threadVars
    BY <1>b, <2>3 DEF threadVars
  <2>. QED
    BY <2>1, <2>2, <2>3 DEF KernelStep, NextBatch, EarlyExit, LastBatchDone, ScanHit, Claim,
       WriteKey, WriteScalar, Misreport
<1>. QED  BY <1>a, <1>c, <1>1, <1>2, KernelTypeParts

\* Type correctness is preserved by the host.
LEMMA HostTypes ==
  ASSUME GTypeOK, HostStep
  PROVE  GTypeOK'
<1>a. UNCHANGED <<backend, faulty, mode, my_scalar, A, iter, local, retested>>
  BY HostFrame, Zenon DEF threadVars
<1>b. /\ backend \in Backends /\ faulty \in Kernels /\ mode \in {"search", "count"}
      /\ host \in {"unopened", "idle", "waiting", "synced", "dead"}
      /\ start_scalar \in 0..(ScalarMod - 1) /\ launches \in 0..MaxLaunches
      /\ reply.kind \in {"none", "miss", "key", "count", "error", "invalid"}
      /\ lossy \in BOOLEAN
  BY HostVarTypes
<1>c. buf \in Slots /\ kpc \in [Threads -> Places]
  BY ThreadTypes
<1>1. start_scalar' \in 0..(ScalarMod - 1)
  <2>1. \A s \in Starts : s \in 0..(ScalarMod - 1)
    BY ClampedStart, Grid
  <2>2. advance_scalar(start_scalar, 8 * keys_checked) \in 0..(ScalarMod - 1)
    BY <1>b, Grid, Keys DEF advance_scalar
  <2>3. \/ start_scalar' \in Starts \/ start_scalar' = start_scalar
        \/ start_scalar' = advance_scalar(start_scalar, 8 * keys_checked)
    BY DEF HostStep, CudaNew, MetalNew, Opened, NewFails, LaunchSearch, LaunchCount, Launch,
       DriverError, CommandFails, Sync, ReturnCount, ReturnMiss, ReturnKey, Return, Reject
  <2>. QED  BY <1>b, <2>1, <2>2, <2>3
<1>2. launches' \in 0..MaxLaunches
  <2>1. launches' = launches \/ (launches' = launches + 1 /\ launches < MaxLaunches)
    BY DEF HostStep, CudaNew, MetalNew, Opened, NewFails, LaunchSearch, LaunchCount, Launch,
       DriverError, CommandFails, Sync, ReturnCount, ReturnMiss, ReturnKey, Return, Reject
  <2>. QED  BY <1>b, <2>1, Grid
<1>3. buf' \in Slots
  <2>1. buf' \in {buf, ZeroBuffer}
    BY HostFrame DEF LaunchSearch, LaunchCount, Launch, Cleared
  <2>2. 0 \in 0..(ScalarMod - 1)
    BY Grid
  <2>. QED  BY <1>c, <2>1, <2>2 DEF Slots, ZeroBuffer
<1>4. /\ host' \in {"unopened", "idle", "waiting", "synced", "dead"} /\ lossy' \in BOOLEAN
      /\ kpc' \in [Threads -> Places]
  BY <1>b, <1>c DEF Places, HostStep, CudaNew, MetalNew, Opened, NewFails, LaunchSearch,
     LaunchCount, Launch, DriverError, CommandFails, Sync, ReturnCount, ReturnMiss, ReturnKey,
     Return, Reject
<1>5. reply'.kind \in {"none", "miss", "key", "count", "error", "invalid"}
  <2>1. CASE reply' = reply
    BY <1>b, <2>1
  <2>2. CASE \E k \in {"error", "invalid", "miss"} : reply' = Plain(k)
    BY <2>2 DEF Plain
  <2>3. CASE ReturnCount \/ ReturnKey
    BY <2>3 DEF ReturnCount, ReturnKey, Return, Plain
  <2>. QED
    BY <2>1, <2>2, <2>3 DEF HostStep, CudaNew, MetalNew, Opened, NewFails, LaunchSearch,
       LaunchCount, Launch, DriverError, CommandFails, Sync, ReturnMiss, Return, Reject
<1>. QED  BY <1>a, <1>1, <1>2, <1>3, <1>4, <1>5, Zenon DEF GTypeOK, Slots, Places

\* Type correctness is preserved.
LEMMA GTypesStep ==
  ASSUME GTypeOK, StartOK, ThreadsOK, [Next]_vars
  PROVE  GTypeOK'
<1>1. CASE UNCHANGED vars
  BY <1>1, Zenon DEF GTypeOK, vars, hostVars, threadVars
<1>2. CASE HostStep
  BY <1>2, HostTypes
<1>3. ASSUME NEW t \in Threads, KernelStep(t) PROVE GTypeOK'
  BY <1>3, KernelTypes
<1>. QED
  BY <1>1, <1>2, <1>3, Zenon DEF Next, Terminated

\* After a call that returned, the chain has moved on by one block.
LEMMA ReturnAdvances ==
  ASSUME GTypeOK, StartOK, host = "synced",
         start_scalar' = advance_scalar(start_scalar, 8 * keys_checked)
  PROVE  /\ start_scalar' = start_scalar + 8 * keys_checked
         /\ launches' = launches => BlocksDone(launches)'
<1>1. /\ start_scalar \in Nat /\ start_scalar >= ClampBase
      /\ start_scalar + 8 * keys_checked <= ScalarMod - 8
  BY BlockRange
<1>2. start_scalar' = start_scalar + 8 * keys_checked
  BY <1>1, Grid, Keys DEF advance_scalar
<1>3. BlocksDone(launches - 1) /\ launches \in 0..MaxLaunches
  BY HostVarTypes, Zenon DEF StartOK
<1>4. PICK r \in Starts : start_scalar = r + 8 * (keys_checked * (launches - 1))
  BY <1>3 DEF BlocksDone
<1>5. keys_checked * (launches - 1) + keys_checked = keys_checked * launches
  BY <1>3, Keys, Grid
<1>6. keys_checked * (launches - 1) \in Int /\ r \in Int /\ keys_checked * launches \in Int
  BY <1>3, Keys, Grid, ClampedStart
<1>7. start_scalar' = r + 8 * (keys_checked * launches)
  BY <1>2, <1>4, <1>5, <1>6, Keys
<1>. QED  BY <1>2, <1>7 DEF BlocksDone, keys_checked, Starts

\* The place of the chain is preserved.
LEMMA StartOKStep ==
  ASSUME GTypeOK, StartOK, [Next]_vars
  PROVE  StartOK'
<1>. USE DEF BlocksDone
<1>1. ASSUME NEW t \in Threads, KernelStep(t) PROVE StartOK'
  <2>1. host = "waiting" /\ kpc[t] # "exited" /\ UNCHANGED hostVars
    BY <1>1, KernelFrame
  <2>. QED  BY <2>1 DEF StartOK, hostVars
<1>2. CASE host' = "dead"
  BY <1>2 DEF StartOK
<1>3. CASE Opened
  <2>1. launches = 0 /\ launches' = 0 /\ host' = "idle" /\ start_scalar' \in Starts
    BY <1>3 DEF Opened, StartOK
  <2>2. BlocksDone(launches)'
    <3>1. start_scalar' = start_scalar' + 8 * (keys_checked * 0)
      BY <2>1, ClampedStart, Keys
    <3>. QED  BY <2>1, <3>1
  <2>. QED  BY <2>1, <2>2 DEF StartOK
<1>4. CASE LaunchSearch \/ LaunchCount
  <2>1. /\ host = "idle" /\ host' = "waiting" /\ launches' = launches + 1
        /\ start_scalar' = start_scalar /\ lossy' = FALSE
    BY <1>4 DEF LaunchSearch, LaunchCount, Launch
  <2>2. launches \in Nat /\ launches' - 1 = launches /\ launches' > 0
    BY <2>1, HostVarTypes, Grid
  <2>3. BlocksDone(launches - 1)'
    BY <2>1, <2>2 DEF StartOK
  <2>. QED  BY <2>1, <2>2, <2>3 DEF StartOK
<1>5. CASE Sync
  BY <1>5 DEF Sync, StartOK
<1>6. CASE CommandFails
  BY <1>6 DEF CommandFails, StartOK
<1>7. CASE ReturnCount \/ ReturnMiss
  <2>1. /\ host = "synced" /\ host' = "idle" /\ launches' = launches
        /\ start_scalar' = advance_scalar(start_scalar, 8 * keys_checked)
    BY <1>7 DEF ReturnCount, ReturnMiss, Return
  <2>2. BlocksDone(launches)'
    BY <2>1, ReturnAdvances
  <2>. QED  BY <2>1, <2>2 DEF StartOK
<1>8. CASE UNCHANGED vars
  BY <1>8 DEF StartOK, vars, hostVars
<1>9. CASE HostStep
  BY <1>2, <1>3, <1>4, <1>5, <1>6, <1>7, <1>9, HostFrame, Zenon DEF HostRuns
<1>. QED  BY <1>1, <1>8, <1>9, Zenon DEF Next, Terminated

\* What the calls have returned so far is preserved.
LEMMA ReplyOKStep ==
  ASSUME GTypeOK, ReplyOK, [Next]_vars
  PROVE  ReplyOK'
<1>1. ASSUME NEW t \in Threads, KernelStep(t) PROVE ReplyOK'
  BY <1>1, KernelFrame DEF ReplyOK, hostVars
<1>2. CASE host' = "dead"
  BY <1>2 DEF ReplyOK
<1>3. CASE Opened
  BY <1>3 DEF Opened, ReplyOK, Plain
<1>4. CASE LaunchSearch \/ LaunchCount \/ Sync \/ CommandFails
  BY <1>4 DEF LaunchSearch, LaunchCount, Launch, Sync, CommandFails, ReplyOK
<1>5. CASE ReturnCount \/ ReturnMiss
  BY <1>5 DEF ReturnCount, ReturnMiss, Return, ReplyOK, Plain
<1>6. CASE UNCHANGED vars
  BY <1>6 DEF ReplyOK, vars, hostVars
<1>7. CASE HostStep
  BY <1>2, <1>3, <1>4, <1>5, <1>7, HostFrame, Zenon DEF HostRuns
<1>. QED  BY <1>1, <1>6, <1>7, Zenon DEF Next, Terminated

\* A stretch grows by the candidate the thread stands at.
LEMMA StretchGrows ==
  ASSUME start_scalar \in Nat, NEW t \in Threads, NEW n \in Nat
  PROVE  /\ Stretch(t, n + 1) = Stretch(t, n) \cup {Candidate(t, n)}
         /\ Candidate(t, n) \notin Stretch(t, n)
         /\ Stretch(t, n) \subseteq
              (start_scalar + 8 * (t * Iters))..(start_scalar + 8 * (t * Iters) + 8 * n - 8)
<1>. DEFINE p == t * Iters
<1>1. p \in Nat
  BY StretchInBlock
<1>2. \A i : Candidate(t, i) = start_scalar + 8 * (p + i)
  BY DEF Candidate
<1>. HIDE DEF p
<1>3. \A i \in Nat : Candidate(t, i) = start_scalar + 8 * p + 8 * i
  BY <1>1, <1>2
<1>4. 0..((n + 1) - 1) = (0..(n - 1)) \cup {n}
  OBVIOUS
<1>5. Stretch(t, n + 1) = Stretch(t, n) \cup {Candidate(t, n)}
  BY <1>4, Zenon DEF Stretch
<1>6. Candidate(t, n) \notin Stretch(t, n)
  <2>. SUFFICES ASSUME NEW i \in 0..(n - 1), Candidate(t, i) = Candidate(t, n) PROVE FALSE
    BY DEF Stretch
  <2>. QED  BY <1>1, <1>3
<1>7. ASSUME NEW x \in Stretch(t, n)
      PROVE  x \in (start_scalar + 8 * p)..(start_scalar + 8 * p + 8 * n - 8)
  <2>1. PICK i \in 0..(n - 1) : x = Candidate(t, i)
    BY <1>7 DEF Stretch
  <2>. QED  BY <1>1, <1>3, <2>1
<1>. QED  BY <1>5, <1>6, <1>7 DEF p

\* A stretch is finite, and so are its hits; at first there are none.
LEMMA StretchFinite ==
  ASSUME start_scalar \in Nat, NEW t \in Threads, NEW n \in Nat
  PROVE  /\ IsFiniteSet(Stretch(t, n)) /\ IsFiniteSet(HitsAmong(Stretch(t, n)))
         /\ Cardinality(HitsAmong(Stretch(t, n))) \in Nat
         /\ Cardinality(HitsAmong(Stretch(t, 0))) = 0
<1>. DEFINE lo == start_scalar + 8 * (t * Iters)
            hi == start_scalar + 8 * (t * Iters) + 8 * n - 8
<1>1. lo \in Int /\ hi \in Int
  <2>1. t * Iters \in Nat
    BY StretchInBlock
  <2>. QED  BY <2>1
<1>2. Stretch(t, n) \in SUBSET (lo..hi)
  BY StretchGrows
<1>. HIDE DEF lo, hi
<1>3. IsFiniteSet(lo..hi)
  BY <1>1, FS_Interval
<1>4. IsFiniteSet(Stretch(t, n))
  BY <1>2, <1>3, FS_Subset
<1>5. HitsAmong(Stretch(t, n)) \in SUBSET Stretch(t, n)
  BY DEF HitsAmong
<1>6. IsFiniteSet(HitsAmong(Stretch(t, n)))
  BY <1>4, <1>5, FS_Subset
<1>7. HitsAmong(Stretch(t, 0)) = {}
  BY DEF Stretch, HitsAmong
<1>. QED  BY <1>4, <1>6, <1>7, FS_EmptySet, FS_CardinalityType

\* Passing one more candidate adds it to the hits if it is one.
LEMMA OneMoreHit ==
  ASSUME start_scalar \in Nat, NEW t \in Threads, NEW n \in Nat
  PROVE  Cardinality(HitsAmong(Stretch(t, n + 1))) =
           IF Hit(Mult(Candidate(t, n))) THEN Cardinality(HitsAmong(Stretch(t, n))) + 1
                                         ELSE Cardinality(HitsAmong(Stretch(t, n)))
<1>. DEFINE c == Candidate(t, n)
            H == HitsAmong(Stretch(t, n))
<1>1. Stretch(t, n + 1) = Stretch(t, n) \cup {c} /\ c \notin Stretch(t, n)
  BY StretchGrows
<1>2. IsFiniteSet(H) /\ c \notin H
  BY <1>1, StretchFinite DEF HitsAmong
<1>3. CASE Hit(Mult(c))
  <2>1. HitsAmong(Stretch(t, n + 1)) = H \cup {c}
    BY <1>1, <1>3, Zenon DEF HitsAmong
  <2>. HIDE DEF H, c
  <2>2. Cardinality(H \cup {c}) = Cardinality(H) + 1
    BY <1>2, FS_AddElement
  <2>. QED  BY <1>3, <2>1, <2>2 DEF H, c
<1>4. CASE ~Hit(Mult(c))
  <2>1. HitsAmong(Stretch(t, n + 1)) = H
    BY <1>1, <1>4, Zenon DEF HitsAmong
  <2>. QED  BY <1>4, <2>1
<1>. QED  BY <1>3, <1>4

\* Candidates, stretches and their hits depend on the block alone.
LEMMA SameBlock ==
  ASSUME start_scalar' = start_scalar
  PROVE  /\ \A t, i : Candidate(t, i)' = Candidate(t, i)
         /\ \A t, n : HitsAmong(Stretch(t, n))' = HitsAmong(Stretch(t, n))
BY Zenon DEF Candidate, Stretch, HitsAmong

\* A thread that does not move stays in order.
LEMMA ThreadOKFrame ==
  ASSUME NEW u \in Threads, ThreadOK(u), start_scalar' = start_scalar, mode' = mode,
         kpc'[u] = kpc[u], my_scalar'[u] = my_scalar[u], A'[u] = A[u], iter'[u] = iter[u],
         local'[u] = local[u]
  PROVE  ThreadOK(u)'
<1>1. /\ Candidate(u, 0)' = Candidate(u, 0)
      /\ Candidate(u, iter[u])' = Candidate(u, iter[u])
      /\ HitsAmong(Stretch(u, iter[u]))' = HitsAmong(Stretch(u, iter[u]))
  BY Zenon DEF Candidate, Stretch, HitsAmong
<1>. QED  BY <1>1, Zenon DEF ThreadOK, Claiming

\* A thread that moves stays in order.
LEMMA ThreadOKStep ==
  ASSUME GTypeOK, StartOK, ThreadsOK, NEW t \in Threads, KernelStep(t)
  PROVE  ThreadOK(t)'
<1>a. host = "waiting" /\ start_scalar' = start_scalar /\ mode' = mode
  BY KernelFrame DEF hostVars
<1>b. /\ kpc \in [Threads -> Places] /\ my_scalar \in [Threads -> 0..(ScalarMod - 1)]
      /\ A \in [Threads -> Nat] /\ iter \in [Threads -> 0..Iters]
      /\ local \in [Threads -> 0..Iters]
  BY ThreadTypes
<1>c. start_scalar \in Nat
  BY <1>a, BlockRange
<1>d. ThreadOK(t)
  BY <1>a, Zenon DEF ThreadsOK
<1>1. CASE KernelStart(t)
  <2>1. /\ kpc'[t] = "batch" /\ my_scalar'[t] = ThreadStart(t)
        /\ A'[t] = Mult(ThreadStart(t)) /\ iter'[t] = 0 /\ local'[t] = 0
    <3>1. A' = [A EXCEPT ![t] = Mult(ThreadStart(t))]
      BY <1>a, <1>1, ThreadStarts DEF KernelStart
    <3>. QED  BY <1>b, <1>1, <3>1 DEF KernelStart, Goto
  <2>2. ThreadStart(t) = Candidate(t, 0)
    BY <1>a, ThreadStarts
  <2>3. Cardinality(HitsAmong(Stretch(t, 0))) = 0
    BY <1>c, StretchFinite
  <2>4. Candidate(t, 0)' = Candidate(t, 0)
        /\ Candidate(t, iter[t])' = Candidate(t, 0)
        /\ HitsAmong(Stretch(t, iter[t]))' = HitsAmong(Stretch(t, 0))
    BY <1>a, <2>1, Zenon DEF Candidate, Stretch, HitsAmong
  <2>5. local'[t] <= iter'[t] /\ ~Claiming(t)'
    BY <2>1 DEF Claiming
  <2>. QED  BY <2>1, <2>2, <2>3, <2>4, <2>5, Zenon DEF ThreadOK
<1>2. CASE NextBatch(t) \/ ScanHit(t) \/ WriteKey(t)
  <2>1. /\ my_scalar'[t] = my_scalar[t] /\ A'[t] = A[t] /\ iter'[t] = iter[t]
        /\ local'[t] = local[t] /\ kpc[t] \notin {"launched", "exited"}
    BY <1>2 DEF NextBatch, ScanHit, WriteKey, threadVars
  <2>2. /\ Candidate(t, 0)' = Candidate(t, 0)
        /\ Candidate(t, iter[t])' = Candidate(t, iter[t])
        /\ HitsAmong(Stretch(t, iter[t]))' = HitsAmong(Stretch(t, iter[t]))
    BY <1>a, <2>1, Zenon DEF Candidate, Stretch, HitsAmong
  <2>3. iter[t] < Iters
    BY <1>d, <1>2, LastIterIsIters DEF NextBatch, ScanHit, WriteKey, ThreadOK
  <2>4. Claiming(t)' => mode = "search" /\ Hit(A[t])
    BY <1>b, <1>d, <1>2 DEF NextBatch, ScanHit, WriteKey, ThreadOK, Claiming, Goto
  <2>5. /\ my_scalar[t] = Candidate(t, 0) /\ A[t] = Mult(Candidate(t, iter[t]))
        /\ local[t] = Cardinality(HitsAmong(Stretch(t, iter[t]))) /\ local[t] <= iter[t]
    BY <1>d, <2>1, Zenon DEF ThreadOK
  <2>. QED  BY <1>a, <2>1, <2>2, <2>3, <2>4, <2>5, Zenon DEF ThreadOK
<1>3. CASE Claim(t)
  <2>1. /\ my_scalar'[t] = my_scalar[t] /\ A'[t] = A[t] /\ iter'[t] = iter[t]
        /\ local'[t] = local[t] /\ kpc[t] = "claim" /\ kpc'[t] \in {"write key", "exited"}
    BY <1>b, <1>3 DEF Claim, threadVars, Goto
  <2>2. /\ Candidate(t, 0)' = Candidate(t, 0)
        /\ Candidate(t, iter[t])' = Candidate(t, iter[t])
        /\ HitsAmong(Stretch(t, iter[t]))' = HitsAmong(Stretch(t, iter[t]))
    BY <1>a, <2>1, Zenon DEF Candidate, Stretch, HitsAmong
  <2>3. Claiming(t) /\ kpc[t] # "batch" /\ kpc[t] \notin {"launched", "exited"}
    BY <2>1 DEF Claiming
  <2>4. /\ my_scalar[t] = Candidate(t, 0) /\ A[t] = Mult(Candidate(t, iter[t]))
        /\ local[t] = Cardinality(HitsAmong(Stretch(t, iter[t]))) /\ local[t] <= iter[t]
        /\ iter[t] < Iters /\ mode = "search" /\ Hit(A[t])
    BY <1>d, <2>3, Zenon DEF ThreadOK
  <2>. QED  BY <1>a, <2>1, <2>2, <2>4, Zenon DEF ThreadOK
<1>4. CASE Scan(t)
  <2>. DEFINE n == iter[t]
  <2>1. kpc[t] = "scan" /\ kpc[t] \notin {"launched", "exited"} /\ kpc[t] # "batch"
    BY <1>4 DEF Scan
  <2>2. /\ my_scalar[t] = Candidate(t, 0) /\ A[t] = Mult(Candidate(t, n))
        /\ local[t] = Cardinality(HitsAmong(Stretch(t, n))) /\ local[t] <= n
    BY <1>d, <2>1, Zenon DEF ThreadOK
  <2>3. /\ my_scalar'[t] = my_scalar[t] /\ A'[t] = Add8B(A[t]) /\ iter'[t] = n + 1
        /\ local'[t] = IF Hit(A[t]) THEN local[t] + 1 ELSE local[t]
        /\ kpc'[t] = IF iter'[t] % Batch = 0 THEN "batch" ELSE "scan"
    BY <1>b, <1>4 DEF Scan, Goto
  <2>4. /\ n \in 0..(Iters - 1) /\ Candidate(t, n + 1) = Candidate(t, n) + 8
        /\ Add8B(A[t]) = Mult(Candidate(t, n) + 8)
    BY <1>a, <2>1, RunningThread, Zenon
  <2>5. A'[t] = Mult(Candidate(t, n + 1))
    BY <2>3, <2>4
  <2>6. n \in Nat /\ local[t] \in Nat
    BY <1>b, <2>4
  <2>7. local'[t] = Cardinality(HitsAmong(Stretch(t, n + 1)))
    BY <1>c, <2>2, <2>3, <2>6, OneMoreHit
  <2>8. local'[t] <= n + 1
    BY <2>2, <2>3, <2>6
  <2>9. kpc'[t] # "batch" => n + 1 < Iters
    <3>1. kpc'[t] # "batch" => (n + 1) % Batch # 0
      BY <2>3
    <3>2. Iters % Batch = 0
      BY GridAssumption
    <3>. QED  BY <2>4, <3>1, <3>2, Grid
  <2>10. kpc'[t] \in {"batch", "scan"}
    BY <2>3
  <2>11. /\ Candidate(t, 0)' = Candidate(t, 0)
         /\ Candidate(t, iter[t])' = Candidate(t, n + 1)
         /\ HitsAmong(Stretch(t, iter[t]))' = HitsAmong(Stretch(t, n + 1))
    BY <1>a, <2>3, Zenon DEF Candidate, Stretch, HitsAmong
  <2>12. ~Claiming(t)'
    BY <2>10 DEF Claiming
  <2>. HIDE DEF n
  <2>. QED
    BY <2>2, <2>3, <2>5, <2>7, <2>8, <2>9, <2>11, <2>12, Zenon DEF ThreadOK
<1>5. CASE EarlyExit(t) \/ LastBatchDone(t) \/ WriteScalar(t) \/ Misreport(t)
  <2>1. kpc'[t] = "exited"
    BY <1>b, <1>5 DEF EarlyExit, LastBatchDone, WriteScalar, Misreport, Goto
  <2>. QED  BY <2>1 DEF ThreadOK
<1>. QED  BY <1>1, <1>2, <1>3, <1>4, <1>5, Zenon DEF KernelStep

\* The threads stay in order.
LEMMA ThreadsOKStep ==
  ASSUME GTypeOK, StartOK, ThreadsOK, [Next]_vars
  PROVE  ThreadsOK'
<1>1. ASSUME NEW t \in Threads, KernelStep(t) PROVE ThreadsOK'
  <2>1. host = "waiting" /\ start_scalar' = start_scalar /\ mode' = mode
    BY <1>1, KernelFrame DEF hostVars
  <2>2. ASSUME NEW u \in Threads PROVE ThreadOK(u)'
    <3>1. CASE u = t
      BY <1>1, <3>1, ThreadOKStep
    <3>2. CASE u # t
      <4>1. ThreadOK(u)
        BY <2>1, Zenon DEF ThreadsOK
      <4>2. /\ kpc'[u] = kpc[u] /\ my_scalar'[u] = my_scalar[u] /\ A'[u] = A[u]
            /\ iter'[u] = iter[u] /\ local'[u] = local[u]
        BY <1>1, <3>2, KernelFrame
      <4>. QED  BY <2>1, <4>1, <4>2, ThreadOKFrame
    <3>. QED  BY <3>1, <3>2
  <2>3. ASSUME mode = "search", NEW u \in Threads PROVE local'[u] = 0
    <3>1. local \in [Threads -> 0..Iters] /\ local[u] = 0
      BY <2>3, ThreadTypes DEF ThreadsOK
    <3>. QED
      BY <1>1, <2>3, <3>1 DEF KernelStep, KernelStart, NextBatch, EarlyExit, LastBatchDone, Scan,
         ScanHit, Claim, WriteKey, WriteScalar, Misreport, threadVars
  <2>. QED  BY <2>1, <2>2, <2>3 DEF ThreadsOK
<1>2. CASE HostStep
  <2>1. mode' = mode /\ UNCHANGED <<my_scalar, A, iter, local>>
    BY <1>2, HostFrame, Zenon DEF threadVars
  <2>2. CASE host' # "waiting"
    BY <2>1, <2>2 DEF ThreadsOK
  <2>3. CASE LaunchSearch \/ LaunchCount \/ CommandFails
    <3>1. \A u \in Threads : kpc'[u] \in {"launched", "exited"}
      BY <2>3 DEF LaunchSearch, LaunchCount, Launch, CommandFails
    <3>. QED  BY <2>1, <3>1 DEF ThreadsOK, ThreadOK
  <2>4. host' = "waiting" => LaunchSearch \/ LaunchCount \/ CommandFails
    BY <1>2 DEF HostStep, CudaNew, MetalNew, Opened, NewFails, DriverError, Sync, ReturnCount,
       ReturnMiss, ReturnKey, Return, Reject
  <2>. QED  BY <2>2, <2>3, <2>4
<1>3. CASE UNCHANGED vars
  <2>1. /\ host' = host /\ start_scalar' = start_scalar /\ mode' = mode /\ kpc' = kpc
        /\ my_scalar' = my_scalar /\ A' = A /\ iter' = iter /\ local' = local
    BY <1>3, Zenon DEF vars, hostVars, threadVars
  <2>2. ASSUME host = "waiting", NEW u \in Threads PROVE ThreadOK(u)'
    BY <2>1, <2>2, ThreadOKFrame DEF ThreadsOK
  <2>. QED  BY <2>1, <2>2 DEF ThreadsOK
<1>. QED  BY <1>1, <1>2, <1>3, Zenon DEF Next, Terminated

\* A pair in the slot remains what it is while the slot, the block and the
\* kind of the grid do.
LEMMA SamePair ==
  ASSUME start_scalar' = start_scalar, faulty' = faulty, lossy => lossy',
         buf'.scalar = buf.scalar, buf'.public = buf.public, PairFound \/ PairRefused
  PROVE  PairFound' \/ PairRefused'
<1>1. Contract!HitsFrom(start_scalar)' = Contract!HitsFrom(start_scalar)
  BY Zenon DEF Contract!HitsFrom, Contract!Block, keys_checked
<1>2. CASE PairFound
  BY <1>1, <1>2, Zenon DEF PairFound
<1>3. CASE PairRefused
  BY <1>3 DEF PairRefused, Validated
<1>. QED  BY <1>2, <1>3

\* The slot is preserved by a step that writes nothing and neither enters
\* nor leaves the critical section.
LEMMA SlotOKFrame ==
  ASSUME SlotOK, host \in {"waiting", "synced"}, start_scalar' = start_scalar, faulty' = faulty,
         lossy => lossy',
         buf'.flag = buf.flag, buf'.scalar = buf.scalar, buf'.public = buf.public,
         \A u \in Threads : (Writing(u)' \/ Writing(u)) => kpc'[u] = kpc[u] /\ A'[u] = A[u]
  PROVE  SlotOK'
<1>1. \A u \in Threads : Writing(u)' <=> Writing(u)
  BY DEF Writing
<1>2. /\ \A t, u \in Threads : Writing(t) /\ Writing(u) => t = u
      /\ \A t \in Threads : Writing(t) => buf.flag = 1 /\ buf.scalar = 0
      /\ \A t \in Threads : kpc[t] = "write key" => buf.public = -1
      /\ \A t \in Threads : kpc[t] = "write scalar" => buf.public = A[t]
      /\ buf.flag = 0 => buf.public = -1 /\ buf.scalar = 0
      /\ buf.flag = 1 /\ (\A t \in Threads : ~Writing(t)) => PairFound \/ PairRefused
  BY Zenon DEF SlotOK
<1>3. \A t \in Threads : kpc'[t] = "write key" => buf'.public = -1
  BY <1>2 DEF Writing
<1>4. \A t \in Threads : kpc'[t] = "write scalar" => buf'.public = A'[t]
  BY <1>2 DEF Writing
<1>5. buf'.flag = 1 /\ (\A t \in Threads : ~Writing(t)') => PairFound' \/ PairRefused'
  BY <1>1, <1>2, SamePair
<1>6. buf'.flag = 0 => buf'.public = -1 /\ buf'.scalar = 0
  BY <1>2
<1>7. /\ \A t, u \in Threads : Writing(t)' /\ Writing(u)' => t = u
      /\ \A t \in Threads : Writing(t)' => buf'.flag = 1 /\ buf'.scalar = 0
  BY <1>1, <1>2
<1>. QED  BY <1>3, <1>4, <1>5, <1>6, <1>7, Zenon DEF SlotOK

\* The slot is preserved by the threads of a grid: only the thread that set
\* the flag writes it.
LEMMA SlotOKKernelStep ==
  ASSUME GTypeOK, StartOK, ThreadsOK, SlotOK, NEW t \in Threads, KernelStep(t)
  PROVE  SlotOK'
<1>a. /\ host = "waiting" /\ start_scalar' = start_scalar /\ faulty' = faulty
      /\ lossy' = lossy
  BY KernelFrame DEF hostVars
<1>b. \A u \in Threads : u # t => kpc'[u] = kpc[u] /\ A'[u] = A[u]
  BY KernelFrame
<1>c. /\ buf \in Slots /\ kpc \in [Threads -> Places]
  BY ThreadTypes
<1>d. /\ \A u, v \in Threads : Writing(u) /\ Writing(v) => u = v
      /\ \A u \in Threads : Writing(u) => buf.flag = 1 /\ buf.scalar = 0
      /\ \A u \in Threads : kpc[u] = "write key" => buf.public = -1
      /\ \A u \in Threads : kpc[u] = "write scalar" => buf.public = A[u]
      /\ buf.flag = 0 => buf.public = -1 /\ buf.scalar = 0
  BY <1>a, Zenon DEF SlotOK
<1>e. buf.flag \in {0, 1}
  BY <1>c DEF Slots
<1>1. ASSUME kpc[t] \notin {"write key", "write scalar"},
             kpc'[t] \notin {"write key", "write scalar"},
             buf'.flag = buf.flag, buf'.scalar = buf.scalar, buf'.public = buf.public
      PROVE  SlotOK'
  <2>1. \A u \in Threads : (Writing(u)' \/ Writing(u)) => kpc'[u] = kpc[u] /\ A'[u] = A[u]
    BY <1>b, <1>1 DEF Writing
  <2>. QED  BY <1>a, <1>1, <2>1, SlotOKFrame
<1>2. CASE KernelStart(t) \/ NextBatch(t) \/ EarlyExit(t) \/ LastBatchDone(t) \/ Scan(t)
           \/ ScanHit(t)
  <2>1. kpc[t] \notin {"write key", "write scalar"} /\ kpc'[t] \notin {"write key", "write scalar"}
    BY <1>c, <1>2 DEF KernelStart, NextBatch, EarlyExit, LastBatchDone, Scan, ScanHit, Goto
  <2>2. buf'.flag = buf.flag /\ buf'.scalar = buf.scalar /\ buf'.public = buf.public
    BY <1>c, <1>2 DEF Slots, KernelStart, NextBatch, EarlyExit, LastBatchDone, Scan, ScanHit
  <2>. QED  BY <1>1, <2>1, <2>2
<1>3. CASE Claim(t)
  <2>1. /\ kpc[t] = "claim" /\ buf' = [buf EXCEPT !.flag = 1]
        /\ kpc'[t] = IF buf.flag = 0 THEN "write key" ELSE "exited"
    BY <1>c, <1>3 DEF Claim, Goto, Winner
  <2>2. buf'.flag = 1 /\ buf'.scalar = buf.scalar /\ buf'.public = buf.public
    BY <1>c, <2>1 DEF Slots
  <2>3. CASE buf.flag = 1
    BY <1>1, <2>1, <2>2, <2>3
  <2>4. CASE buf.flag = 0
    <3>1. \A u \in Threads : Writing(u)' => u = t
      <4>0. buf.flag # 1
        BY <2>4
      <4>1. \A u \in Threads : ~Writing(u)
        BY <1>d, <4>0, Zenon
      <4>. QED  BY <1>b, <4>1, Zenon DEF Writing
    <3>2. kpc'[t] = "write key" /\ Writing(t)'
      BY <2>1, <2>4 DEF Writing
    <3>3. buf'.public = -1 /\ buf'.scalar = 0 /\ buf'.flag = 1
      BY <1>d, <2>2, <2>4
    <3>4. \A u \in Threads : kpc'[u] # "write scalar"
      BY <3>1, <3>2 DEF Writing
    <3>5. buf'.flag # 0
      BY <3>3
    <3>. QED  BY <3>1, <3>2, <3>3, <3>4, <3>5, Zenon DEF SlotOK
  <2>. QED  BY <1>e, <2>3, <2>4
<1>4. CASE WriteKey(t)
  <2>1. /\ kpc[t] = "write key" /\ kpc'[t] = "write scalar" /\ A' = A
        /\ buf' = [buf EXCEPT !.public = A[t]]
    BY <1>c, <1>4 DEF WriteKey, Goto, threadVars
  <2>2. buf'.flag = buf.flag /\ buf'.scalar = buf.scalar /\ buf'.public = A[t]
    BY <1>c, <2>1 DEF Slots
  <2>3. Writing(t) /\ Writing(t)'
    BY <2>1 DEF Writing
  <2>4. \A u \in Threads : Writing(u)' => u = t
    BY <1>b, <1>d, <2>3 DEF Writing
  <2>5. buf'.flag = 1 /\ buf'.scalar = 0
    BY <1>d, <2>2, <2>3
  <2>6. \A u \in Threads : kpc'[u] # "write key"
    BY <2>1, <2>4 DEF Writing
  <2>7. \A u \in Threads : kpc'[u] = "write scalar" => buf'.public = A'[u]
    BY <2>1, <2>2, <2>4 DEF Writing
  <2>8. buf'.flag # 0
    BY <2>5
  <2>. QED  BY <2>3, <2>4, <2>5, <2>6, <2>7, <2>8, Zenon DEF SlotOK
<1>5. ASSUME kpc[t] \in {"write key", "write scalar"}, kpc'[t] = "exited",
             PairFound' \/ PairRefused', buf'.flag = buf.flag
      PROVE  SlotOK'
  <2>1. Writing(t) /\ ~Writing(t)'
    BY <1>5 DEF Writing
  <2>2. \A u \in Threads : ~Writing(u)'
    BY <1>b, <1>d, <2>1 DEF Writing
  <2>3. \A u \in Threads : kpc'[u] # "write key" /\ kpc'[u] # "write scalar"
    BY <2>2 DEF Writing
  <2>4. buf'.flag # 0
    <3>1. buf.flag = 1
      <4>1. \A u \in Threads : Writing(u) => buf.flag = 1
        BY <1>d, Zenon
      <4>. QED  BY <2>1, <4>1, Zenon
    <3>2. buf'.flag = 1
      BY <1>5, <3>1, Zenon
    <3>. QED  BY <3>2
  <2>. QED  BY <1>5, <2>2, <2>3, <2>4, Zenon DEF SlotOK
<1>6. CASE WriteScalar(t) \/ Misreport(t)
  <2>. DEFINE c == Candidate(t, iter[t])
  <2>1. kpc[t] \in {"write key", "write scalar"} /\ kpc'[t] = "exited"
    BY <1>c, <1>6 DEF WriteScalar, Misreport, Goto
  <2>2. kpc[t] \notin {"launched", "exited"} /\ kpc[t] # "batch" /\ Claiming(t)
    BY <2>1 DEF Claiming
  <2>3. /\ A[t] = Mult(c) /\ MatchScalar(t) = c /\ MatchScalar_NextStep(t) = c + 8
        /\ c \in Contract!Block(start_scalar) /\ Add8B(A[t]) = Mult(c + 8)
        /\ Mult(c + 8) # Mult(c)
    BY <1>a, <2>2, RunningThread, Zenon
  <2>4. Hit(A[t])
    BY <1>a, <2>2, Zenon DEF ThreadsOK, ThreadOK
  <2>. HIDE DEF c
  <2>5. CASE WriteScalar(t)
    <3>1. buf' = [buf EXCEPT !.scalar = c] /\ kpc[t] = "write scalar"
      BY <2>3, <2>5 DEF WriteScalar
    <3>2. buf'.scalar = c /\ buf'.public = Mult(c) /\ buf'.flag = buf.flag
      BY <1>c, <1>d, <2>3, <3>1 DEF Slots
    <3>3. c \in Contract!HitsFrom(start_scalar)
      BY <2>3, <2>4 DEF Contract!HitsFrom
    <3>4. Contract!HitsFrom(start_scalar)' = Contract!HitsFrom(start_scalar)
      BY <1>a, Zenon DEF Contract!HitsFrom, Contract!Block, keys_checked
    <3>5. PairFound'
      BY <3>2, <3>3, <3>4, Zenon DEF PairFound
    <3>. QED  BY <1>5, <2>1, <3>2, <3>5
  <2>6. CASE Misreport(t)
    <3>1. /\ faulty
          /\ \/ buf' = [buf EXCEPT !.public = A[t], !.scalar = c + 8]
             \/ buf' = [buf EXCEPT !.public = Add8B(A[t]), !.scalar = c]
      BY <2>3, <2>6 DEF Misreport
    <3>2. /\ buf'.flag = buf.flag
          /\ \/ buf'.public = A[t] /\ buf'.scalar = c + 8
             \/ buf'.public = Add8B(A[t]) /\ buf'.scalar = c
      BY <1>c, <3>1 DEF Slots
    <3>3. Mult(buf'.scalar) # buf'.public
      BY <2>3, <3>2
    <3>4. PairRefused'
      BY <1>a, <3>1, <3>3 DEF PairRefused, Validated
    <3>. QED  BY <1>5, <2>1, <3>2, <3>4
  <2>. QED  BY <1>6, <2>5, <2>6
<1>. QED  BY <1>2, <1>3, <1>4, <1>6, Zenon DEF KernelStep

\* The slot is preserved by the host: a command that fails may leave half a
\* pair in it, which is no pair of the curve.
LEMMA SlotOKStep ==
  ASSUME GTypeOK, StartOK, ThreadsOK, SlotOK, [Next]_vars
  PROVE  SlotOK'
<1>1. ASSUME NEW t \in Threads, KernelStep(t) PROVE SlotOK'
  BY <1>1, SlotOKKernelStep
<1>2. CASE LaunchSearch \/ LaunchCount
  <2>1. /\ buf' = ZeroBuffer /\ \A t \in Threads : kpc'[t] = "launched"
    BY <1>2 DEF LaunchSearch, LaunchCount, Launch, Cleared
  <2>2. buf'.flag = 0 /\ buf'.public = -1 /\ buf'.scalar = 0
    BY <2>1 DEF ZeroBuffer
  <2>3. \A t \in Threads : ~Writing(t)' /\ kpc'[t] # "write key" /\ kpc'[t] # "write scalar"
    BY <2>1 DEF Writing
  <2>4. buf'.flag # 1
    BY <2>2
  <2>. QED  BY <2>2, <2>3, <2>4, Zenon DEF SlotOK
<1>3. CASE Sync
  <2>1. /\ host = "waiting" /\ start_scalar' = start_scalar /\ faulty' = faulty
        /\ lossy' = lossy /\ buf' = buf /\ kpc' = kpc /\ A' = A
    BY <1>3 DEF Sync, threadVars
  <2>. QED  BY <2>1, SlotOKFrame
<1>4. CASE CommandFails
  <2>1. /\ host = "waiting" /\ start_scalar' = start_scalar /\ faulty' = faulty
        /\ lossy' = TRUE /\ buf' = buf /\ A' = A
        /\ \A t \in Threads : kpc'[t] = "exited"
    BY <1>4 DEF CommandFails, threadVars
  <2>2. \A t \in Threads : ~Writing(t)'
    BY <2>1 DEF Writing
  <2>3. /\ \A u \in Threads : Writing(u) => buf.flag = 1 /\ buf.scalar = 0
        /\ \A u \in Threads : kpc[u] = "write key" => buf.public = -1
        /\ \A u \in Threads : kpc[u] = "write scalar" => buf.public = A[u]
        /\ buf.flag = 0 => buf.public = -1 /\ buf.scalar = 0
        /\ buf.flag = 1 /\ (\A t \in Threads : ~Writing(t)) => PairFound \/ PairRefused
    BY <2>1, Zenon DEF SlotOK
  <2>4. ASSUME NEW t \in Threads, Writing(t) PROVE PairRefused'
    <3>1. kpc[t] \notin {"launched", "exited"} /\ kpc[t] # "batch"
      BY <2>4 DEF Writing
    <3>2. A[t] = Mult(Candidate(t, iter[t])) /\ Mult(Candidate(t, iter[t])) # Mult(0)
      BY <2>1, <3>1, RunningThread, Zenon
    <3>3. Mult(0) \in Nat
      <4>1. 0 \in 0..(ScalarMod - 1)
        BY Grid
      <4>. QED  BY <4>1, DeviceGroupAssumption
    <3>4. buf.public \in {-1, A[t]} /\ buf.scalar = 0
      BY <2>3, <2>4 DEF Writing
    <3>5. Mult(buf.scalar) # buf.public
      BY <3>2, <3>3, <3>4
    <3>. QED  BY <2>1, <3>5 DEF PairRefused, Validated
  <2>5. CASE \A t \in Threads : ~Writing(t)
    BY <2>1, <2>2, <2>3, <2>5, SlotOKFrame DEF SlotOK
  <2>6. CASE \E t \in Threads : Writing(t)
    <3>1. PairRefused' /\ buf'.flag = 1
      BY <2>1, <2>3, <2>4, <2>6
    <3>2. \A t \in Threads : kpc'[t] # "write key" /\ kpc'[t] # "write scalar"
      BY <2>1
    <3>3. buf'.flag # 0
      BY <3>1
    <3>. QED  BY <2>2, <3>1, <3>2, <3>3, Zenon DEF SlotOK
  <2>. QED  BY <2>5, <2>6
<1>5. CASE host' \notin {"waiting", "synced"}
  BY <1>5 DEF SlotOK
<1>6. CASE UNCHANGED vars
  <2>1. /\ start_scalar' = start_scalar /\ faulty' = faulty /\ host' = host
        /\ lossy' = lossy /\ buf' = buf /\ kpc' = kpc /\ A' = A
    BY <1>6, Zenon DEF vars, hostVars, threadVars
  <2>. QED  BY <1>5, <2>1, SlotOKFrame
<1>7. CASE HostStep
  <2>1. host' \in {"waiting", "synced"} => LaunchSearch \/ LaunchCount \/ CommandFails \/ Sync
    BY <1>7 DEF HostStep, CudaNew, MetalNew, Opened, NewFails, DriverError, ReturnCount,
       ReturnMiss, ReturnKey, Return, Reject
  <2>. QED  BY <1>2, <1>3, <1>4, <1>5, <2>1
<1>. QED  BY <1>1, <1>6, <1>7, Zenon DEF Next, Terminated

\* One thread's stretch lies behind the candidates of a later thread, and
\* beyond those of an earlier one.
LEMMA CandidatesApart ==
  ASSUME GTypeOK, StartOK, host = "waiting", NEW t \in Threads, NEW u \in Threads, t # u,
         NEW i \in 0..(Iters - 1), NEW j \in 0..Iters
  PROVE  Candidate(t, i) < Candidate(u, j) \/ Candidate(t, i) >= Candidate(u, Iters)
<1>. DEFINE p == t * Iters
            q == u * Iters
<1>1. p \in Nat /\ q \in Nat /\ start_scalar \in Nat
  BY StretchInBlock, BlockRange
<1>2. i \in 0..Iters /\ Iters \in 0..Iters
  BY Grid
<1>3. /\ Candidate(t, i) = start_scalar + 8 * p + 8 * i
      /\ Candidate(u, j) = start_scalar + 8 * q + 8 * j
      /\ Candidate(u, Iters) = start_scalar + 8 * q + 8 * Iters
  BY <1>2, CandidateRange
<1>4. p + Iters <= q \/ q + Iters <= p
  <2>1. t < u \/ u < t
    BY Grid DEF Threads
  <2>. QED  BY <2>1, StretchesApart
<1>. HIDE DEF p, q
<1>. QED  BY <1>1, <1>3, <1>4, Grid

\* The candidates of one thread follow each other.
LEMMA CandidatesAscend ==
  ASSUME GTypeOK, StartOK, host = "waiting", NEW t \in Threads,
         NEW i \in 0..(Iters - 1)
  PROVE  /\ Candidate(t, i) \in Int /\ Candidate(t, i) < Candidate(t, i + 1)
         /\ Candidate(t, i) < Candidate(t, Iters)
         /\ Candidate(t, i) < start_scalar + 8 * keys_checked
         /\ start_scalar <= Candidate(t, i)
<1>. DEFINE p == t * Iters
<1>1. p \in Nat /\ p + Iters <= keys_checked /\ start_scalar \in Nat
  BY StretchInBlock, BlockRange
<1>2. i \in 0..Iters /\ Iters \in 0..Iters /\ i + 1 \in 0..Iters
  BY Grid
<1>3. /\ Candidate(t, i) = start_scalar + 8 * p + 8 * i
      /\ Candidate(t, i + 1) = start_scalar + 8 * p + 8 * (i + 1)
      /\ Candidate(t, Iters) = start_scalar + 8 * p + 8 * Iters
  BY <1>2, CandidateRange
<1>. HIDE DEF p
<1>. QED  BY <1>1, <1>3, Grid, Keys

\* What has been compared, as each conjunct of TestedOK has it.
TestedBehind(t) ==
  /\ kpc[t] = "launched" => \A x \in tested : x < Candidate(t, 0) \/ x >= Candidate(t, Iters)
  /\ kpc[t] \in {"batch", "scan"} =>
       \A x \in tested : x < Candidate(t, iter[t]) \/ x >= Candidate(t, Iters)

\* A thread that compares its candidate compares a new one.
LEMMA CompareIsNew ==
  ASSUME GTypeOK, StartOK, ThreadsOK, TestedOK, NEW t \in Threads,
         host = "waiting", Scan(t) \/ ScanHit(t)
  PROVE  LET c == Candidate(t, iter[t])
         IN  /\ tested' = tested \cup {c} /\ retested' = FALSE
             /\ iter[t] \in 0..(Iters - 1)
<1>1. kpc[t] \notin {"launched", "exited"} /\ kpc[t] # "batch" /\ kpc[t] = "scan"
  BY DEF Scan, ScanHit
<1>. DEFINE c == Candidate(t, iter[t])
<1>2. MatchScalar(t) = c /\ iter[t] \in 0..(Iters - 1)
  BY <1>1, RunningThread, Zenon
<1>3. tested' = tested \cup {c} /\ retested' = (retested \/ c \in tested)
  BY <1>2 DEF Scan, ScanHit, Compare
<1>4. \A x \in tested : x < c \/ x >= Candidate(t, Iters)
  BY <1>1 DEF TestedOK
<1>5. c \in Int /\ c < Candidate(t, Iters) /\ Candidate(t, Iters) \in Int
  <2>1. Iters \in 0..Iters
    BY Grid
  <2>. QED  BY <1>2, <2>1, CandidatesAscend, CandidateRange
<1>. HIDE DEF c
<1>6. c \notin tested
  BY <1>4, <1>5
<1>7. retested = FALSE
  BY DEF TestedOK
<1>8. retested' = FALSE
  BY <1>3, <1>6, <1>7
<1>. QED  BY <1>2, <1>3, <1>8 DEF c

\* Nothing that was compared is met again, whoever compares next.
LEMMA TestedOKKernelStep ==
  ASSUME GTypeOK, StartOK, ThreadsOK, TestedOK, NEW t \in Threads, KernelStep(t)
  PROVE  TestedOK'
<1>a. host = "waiting" /\ host' = "waiting" /\ start_scalar' = start_scalar
  BY KernelFrame DEF hostVars
<1>b. kpc \in [Threads -> Places] /\ iter \in [Threads -> 0..Iters]
  BY ThreadTypes
<1>c. /\ \A x \in tested : x < start_scalar + 8 * keys_checked
      /\ tested \subseteq Int /\ retested = FALSE
      /\ \A u \in Threads : TestedBehind(u)
  BY <1>a, Zenon DEF TestedOK, TestedBehind
<1>d. \A u \in Threads : u # t => kpc'[u] = kpc[u] /\ iter'[u] = iter[u]
  BY KernelFrame
<1>e. SUFFICES ASSUME TRUE
      PROVE  /\ \A x \in tested' : x < start_scalar + 8 * keys_checked
             /\ tested' \subseteq Int /\ retested' = FALSE
             /\ \A u \in Threads : TestedBehind(u)'
  <2>1. start_scalar' + 8 * keys_checked = start_scalar + 8 * keys_checked
    BY <1>a
  <2>. QED  BY <1>a, <2>1, Zenon DEF TestedOK, TestedBehind, keys_checked
<1>1. CASE Scan(t) \/ ScanHit(t)
  <2>. DEFINE c == Candidate(t, iter[t])
  <2>1. tested' = tested \cup {c} /\ retested' = FALSE /\ iter[t] \in 0..(Iters - 1)
    BY <1>a, <1>1, CompareIsNew, Zenon
  <2>2. /\ c \in Int /\ c < Candidate(t, iter[t] + 1)
        /\ c < Candidate(t, Iters) /\ c < start_scalar + 8 * keys_checked
    BY <1>a, <2>1, CandidatesAscend
  <2>3. /\ Candidate(t, iter[t] + 1) \in Int
    <3>1. iter[t] + 1 \in 0..Iters
      BY <2>1, Grid
    <3>. QED  BY <1>a, <3>1, CandidateRange
  <2>4. ASSUME NEW u \in Threads PROVE TestedBehind(u)'
    <3>1. CASE u = t
      <4>1. kpc[t] = "scan" /\ kpc'[t] # "launched"
            /\ (kpc'[t] \in {"batch", "scan"} => iter'[t] = iter[t] + 1)
        BY <1>1, <1>b DEF Scan, ScanHit, Goto
      <4>2. \A x \in tested : x < c \/ x >= Candidate(t, Iters)
        BY <1>c, <4>1 DEF TestedBehind
      <4>. HIDE DEF c
      <4>3. \A x \in tested' : x < Candidate(t, iter[t] + 1) \/ x >= Candidate(t, Iters)
        BY <1>c, <2>1, <2>2, <2>3, <4>2
      <4>4. /\ kpc'[t] \in {"batch", "scan"} =>
                 Candidate(t, iter[t])' = Candidate(t, iter[t] + 1)
            /\ Candidate(t, Iters)' = Candidate(t, Iters)
        BY <1>a, <4>1, Zenon DEF Candidate
      <4>. QED  BY <3>1, <4>1, <4>3, <4>4, Zenon DEF TestedBehind
    <3>2. CASE u # t
      <4>1. kpc'[u] = kpc[u] /\ iter'[u] = iter[u]
        BY <1>d, <3>2
      <4>2. Candidate(u, 0)' = Candidate(u, 0) /\ Candidate(u, iter[u])' = Candidate(u, iter[u])
            /\ Candidate(u, Iters)' = Candidate(u, Iters)
        BY <1>a, <4>1, Zenon DEF Candidate
      <4>3. iter[u] \in 0..Iters /\ 0 \in 0..Iters
        BY <1>b, Grid
      <4>4. /\ c < Candidate(u, 0) \/ c >= Candidate(u, Iters)
            /\ c < Candidate(u, iter[u]) \/ c >= Candidate(u, Iters)
        BY <1>a, <2>1, <3>2, <4>3, CandidatesApart
      <4>5. TestedBehind(u)
        BY <1>c
      <4>. HIDE DEF c
      <4>. QED  BY <2>1, <4>1, <4>2, <4>4, <4>5, Zenon DEF TestedBehind
    <3>. QED  BY <3>1, <3>2
  <2>5. \A x \in tested' : x < start_scalar + 8 * keys_checked
    BY <1>c, <2>1, <2>2
  <2>6. tested' \subseteq Int
    BY <1>c, <2>1, <2>2
  <2>. QED  BY <2>1, <2>4, <2>5, <2>6
<1>2. CASE ~(Scan(t) \/ ScanHit(t))
  <2>1. tested' = tested /\ retested' = retested
    BY <1>2 DEF KernelStep, KernelStart, NextBatch, EarlyExit, LastBatchDone, Claim, WriteKey,
       WriteScalar, Misreport
  <2>2. ASSUME NEW u \in Threads PROVE TestedBehind(u)'
    <3>1. TestedBehind(u)
      BY <1>c
    <3>2. CASE kpc'[u] = kpc[u] /\ iter'[u] = iter[u]
      <4>1. Candidate(u, 0)' = Candidate(u, 0) /\ Candidate(u, iter[u])' = Candidate(u, iter[u])
            /\ Candidate(u, Iters)' = Candidate(u, Iters)
        BY <1>a, <3>2, Zenon DEF Candidate
      <4>. QED  BY <2>1, <3>1, <3>2, <4>1, Zenon DEF TestedBehind
    <3>3. CASE u = t /\ KernelStart(t)
      <4>1. kpc[t] = "launched" /\ kpc'[t] = "batch" /\ iter'[t] = 0
        BY <1>b, <3>3 DEF KernelStart, Goto
      <4>2. Candidate(t, iter[t])' = Candidate(t, 0) /\ Candidate(t, Iters)' = Candidate(t, Iters)
        BY <1>a, <4>1, Zenon DEF Candidate
      <4>3. kpc'[t] # "launched"
        BY <4>1
      <4>. QED  BY <2>1, <3>1, <3>3, <4>1, <4>2, <4>3, Zenon DEF TestedBehind
    <3>4. CASE u = t /\ NextBatch(t)
      <4>1. kpc[t] = "batch" /\ kpc'[t] = "scan" /\ iter'[t] = iter[t]
        BY <1>b, <3>4 DEF NextBatch, Goto, threadVars
      <4>2. Candidate(t, iter[t])' = Candidate(t, iter[t])
            /\ Candidate(t, Iters)' = Candidate(t, Iters)
        BY <1>a, <4>1, Zenon DEF Candidate
      <4>3. kpc[t] \in {"batch", "scan"} /\ kpc'[t] # "launched"
        BY <4>1
      <4>. QED  BY <2>1, <3>1, <3>4, <4>2, <4>3, Zenon DEF TestedBehind
    <3>5. CASE u = t /\ kpc'[t] \notin {"launched", "batch", "scan"}
      BY <3>5 DEF TestedBehind
    <3>. QED
      BY <1>2, <1>b, <1>d, <3>2, <3>3, <3>4, <3>5 DEF KernelStep, EarlyExit, LastBatchDone, Claim,
         WriteKey, WriteScalar, Misreport, Goto
  <2>. QED  BY <1>c, <2>1, <2>2
<1>. QED  BY <1>1, <1>2

\* What has been compared stays behind the chain.
LEMMA TestedOKStep ==
  ASSUME GTypeOK, StartOK, ThreadsOK, TestedOK, [Next]_vars
  PROVE  TestedOK'
<1>a. tested \subseteq Int /\ retested = FALSE
  BY Zenon DEF TestedOK
<1>1. ASSUME NEW t \in Threads, KernelStep(t) PROVE TestedOK'
  BY <1>1, TestedOKKernelStep
<1>2. ASSUME tested' = tested, retested' = retested, host' \notin {"idle", "waiting", "synced"}
      PROVE  TestedOK'
  BY <1>a, <1>2 DEF TestedOK
<1>3. ASSUME tested' = tested, retested' = retested, host' = "idle",
             \A x \in tested : x < start_scalar'
      PROVE  TestedOK'
  BY <1>a, <1>3 DEF TestedOK
<1>4. CASE Opened
  BY <1>3, <1>4 DEF Opened, StartOK
<1>5. CASE ReturnCount \/ ReturnMiss
  <2>1. /\ host = "synced" /\ host' = "idle" /\ tested' = tested /\ retested' = retested
        /\ start_scalar' = advance_scalar(start_scalar, 8 * keys_checked)
    BY <1>5 DEF ReturnCount, ReturnMiss, Return
  <2>2. start_scalar' = start_scalar + 8 * keys_checked
    BY <2>1, ReturnAdvances
  <2>3. \A x \in tested : x < start_scalar + 8 * keys_checked
    BY <2>1 DEF TestedOK
  <2>. QED  BY <1>3, <2>1, <2>2, <2>3
<1>6. CASE LaunchSearch \/ LaunchCount
  <2>1. /\ host = "idle" /\ host' = "waiting" /\ tested' = tested /\ retested' = retested
        /\ start_scalar' = start_scalar /\ \A t \in Threads : kpc'[t] = "launched"
    BY <1>6 DEF LaunchSearch, LaunchCount, Launch
  <2>2. start_scalar \in Nat /\ \A x \in tested : x \in Int /\ x < start_scalar
    BY <1>a, <2>1, HostVarTypes DEF TestedOK
  <2>3. \A x \in tested : x < start_scalar' + 8 * keys_checked
    BY <2>1, <2>2, Keys
  <2>4. ASSUME NEW t \in Threads, NEW x \in tested PROVE x < Candidate(t, 0)'
    <3>1. t * Iters \in Nat
      BY StretchInBlock
    <3>2. Candidate(t, 0)' = start_scalar + 8 * (t * Iters + 0)
      BY <2>1 DEF Candidate
    <3>. QED  BY <2>2, <3>1, <3>2
  <2>5. \A t \in Threads : kpc'[t] \notin {"batch", "scan"}
    BY <2>1
  <2>6. (\A x \in tested : x < start_scalar + 8 * keys_checked)'
    BY <2>1, <2>3 DEF keys_checked
  <2>7. host' # "idle"
    BY <2>1
  <2>. QED  BY <1>a, <2>1, <2>4, <2>5, <2>6, <2>7, Zenon DEF TestedOK
<1>7. CASE Sync
  <2>1. /\ host = "waiting" /\ host' = "synced" /\ tested' = tested /\ retested' = retested
        /\ start_scalar' = start_scalar
    BY <1>7 DEF Sync
  <2>. QED  BY <2>1 DEF TestedOK, keys_checked
<1>8. CASE CommandFails
  <2>1. /\ host = "waiting" /\ host' = "waiting" /\ tested' = tested /\ retested' = retested
        /\ start_scalar' = start_scalar /\ \A t \in Threads : kpc'[t] = "exited"
    BY <1>8 DEF CommandFails
  <2>. QED  BY <2>1 DEF TestedOK, keys_checked
<1>9. CASE UNCHANGED vars
  <2>1. /\ host' = host /\ tested' = tested /\ retested' = retested
        /\ start_scalar' = start_scalar /\ kpc' = kpc /\ iter' = iter
    BY <1>9, Zenon DEF vars, hostVars, threadVars
  <2>. QED  BY <2>1, Zenon DEF TestedOK, Candidate, keys_checked
<1>10. CASE HostStep
  <2>1. tested' = tested /\ retested' = retested
    BY <1>10, HostFrame, Zenon
  <2>2. host' = "dead" => TestedOK'
    BY <1>2, <2>1
  <2>. QED
    BY <1>4, <1>5, <1>6, <1>7, <1>8, <1>10, <2>2, HostFrame, Zenon DEF HostRuns
<1>. QED  BY <1>1, <1>9, <1>10, Zenon DEF Next, Terminated

\* The hits of a set of stretches are finitely many.
LEMMA TalliedFinite ==
  ASSUME start_scalar \in Nat, NEW E \in SUBSET Threads
  PROVE  IsFiniteSet(Tallied(E)) /\ Cardinality(Tallied(E)) \in Nat
<1>. DEFINE hi == start_scalar + 8 * keys_checked
<1>1. IsFiniteSet(start_scalar..hi)
  BY Keys, FS_Interval
<1>2. ASSUME NEW x \in Tallied(E) PROVE x \in start_scalar..hi
  <2>1. PICK t \in E : x \in Stretch(t, Iters)
    BY <1>2 DEF Tallied, HitsAmong
  <2>2. t \in Threads /\ Iters \in Nat
    BY Grid
  <2>. DEFINE p == t * Iters
  <2>3. p \in Nat /\ p + Iters <= keys_checked
    BY <2>2, StretchInBlock
  <2>4. x \in (start_scalar + 8 * p)..(start_scalar + 8 * p + 8 * Iters - 8)
    BY <2>1, <2>2, StretchGrows
  <2>. HIDE DEF p
  <2>. QED  BY <2>2, <2>3, <2>4, Keys
<1>3. Tallied(E) \in SUBSET (start_scalar..hi)
  BY <1>2
<1>. HIDE DEF hi
<1>. QED  BY <1>1, <1>3, FS_Subset, FS_CardinalityType

\* A thread that adds its hits adds hits no other thread has.
LEMMA TalliedGrows ==
  ASSUME start_scalar \in Nat, NEW E \in SUBSET Threads, NEW t \in Threads, t \notin E
  PROVE  Cardinality(Tallied(E \cup {t})) =
           Cardinality(Tallied(E)) + Cardinality(HitsAmong(Stretch(t, Iters)))
<1>. DEFINE S == Tallied(E)
            T == HitsAmong(Stretch(t, Iters))
<1>0. Iters \in Nat
  BY Grid
<1>1. Tallied(E \cup {t}) = S \cup T
  <2>1. UNION {Stretch(u, Iters) : u \in E \cup {t}}
          = (UNION {Stretch(u, Iters) : u \in E}) \cup Stretch(t, Iters)
    OBVIOUS
  <2>. QED  BY <2>1, Zenon DEF Tallied, HitsAmong
<1>2. IsFiniteSet(S) /\ IsFiniteSet(T)
  BY <1>0, TalliedFinite, StretchFinite
<1>3. S \cap T = {}
  <2>. SUFFICES ASSUME NEW x, x \in S, x \in T PROVE FALSE
    OBVIOUS
  <2>1. PICK u \in E : x \in Stretch(u, Iters)
    BY DEF Tallied, HitsAmong
  <2>2. x \in Stretch(t, Iters) /\ u \in Threads /\ u # t
    BY DEF HitsAmong
  <2>. DEFINE p == t * Iters
              q == u * Iters
  <2>3. p \in Nat /\ q \in Nat
    BY <2>2, StretchInBlock
  <2>4. /\ x \in (start_scalar + 8 * p)..(start_scalar + 8 * p + 8 * Iters - 8)
        /\ x \in (start_scalar + 8 * q)..(start_scalar + 8 * q + 8 * Iters - 8)
    BY <1>0, <2>1, <2>2, StretchGrows
  <2>5. p + Iters <= q \/ q + Iters <= p
    <3>1. t < u \/ u < t
      BY <2>2, Grid DEF Threads
    <3>. QED  BY <2>2, <3>1, StretchesApart
  <2>. HIDE DEF p, q, S, T
  <2>. QED  BY <1>0, <2>3, <2>4, <2>5
<1>. HIDE DEF S, T
<1>4. Cardinality(S \cup T) = Cardinality(S) + Cardinality(T) - Cardinality(S \cap T)
  BY <1>2, FS_Union
<1>5. Cardinality(S \cap T) = 0
  BY <1>3, FS_EmptySet
<1>6. Cardinality(S) \in Nat /\ Cardinality(T) \in Nat
  BY <1>2, FS_CardinalityType
<1>7. Cardinality(S \cup T) = Cardinality(S) + Cardinality(T)
  BY <1>4, <1>5, <1>6
<1>. QED  BY <1>1, <1>7 DEF S, T

\* The stretches of all threads are the block.
LEMMA TalliedAll ==
  ASSUME GTypeOK, StartOK, host = "synced"
  PROVE  Tallied(Threads) = Contract!HitsFrom(start_scalar)
<1>1. start_scalar \in Nat /\ start_scalar + 8 * keys_checked <= ScalarMod - 8
  BY BlockRange
<1>2. ASSUME NEW j \in 0..(keys_checked - 1)
      PROVE  (start_scalar + 8 * j) % ScalarMod = start_scalar + 8 * j
  BY <1>1, <1>2, Keys, Grid
<1>3. ASSUME NEW t \in Threads, NEW x \in Stretch(t, Iters)
      PROVE  x \in Contract!Block(start_scalar)
  <2>1. PICK i \in 0..(Iters - 1) : x = Candidate(t, i)
    BY <1>3 DEF Stretch
  <2>. QED  BY <2>1, CandidateKeys
<1>4. ASSUME NEW x \in Contract!Block(start_scalar)
      PROVE  \E t \in Threads : x \in Stretch(t, Iters)
  <2>1. PICK j \in 0..(keys_checked - 1) : x = start_scalar + 8 * j
    BY <1>2, <1>4 DEF Contract!Block
  <2>. DEFINE t == j \div Iters
              i == j % Iters
  <2>2. j = Iters * t + i /\ t \in Int
    BY <2>1, Grid, Keys, Quotient
  <2>3. i \in 0..(Iters - 1)
    BY <2>1, Grid, Keys
  <2>. HIDE DEF t, i
  <2>4. t \in 0..(NumThreads - 1)
    <3>1. j >= 0 /\ j < NumThreads * Iters
      BY <2>1, Keys, Grid DEF keys_checked
    <3>2. t >= 0
      <4>. SUFFICES ASSUME t + 1 <= 0 PROVE FALSE
        BY <2>2
      <4>1. (t + 1) * Iters <= 0 * Iters
        BY <2>2, Grid, MultMonotone
      <4>. QED  BY <2>1, <2>2, <2>3, <3>1, <4>1, Grid
    <3>3. t < NumThreads
      <4>. SUFFICES ASSUME NumThreads <= t PROVE FALSE
        BY <2>2, Grid
      <4>1. NumThreads * Iters <= t * Iters
        BY <2>2, Grid, MultMonotone
      <4>. QED  BY <2>1, <2>2, <2>3, <3>1, <4>1, Grid
    <3>. QED  BY <2>2, <3>2, <3>3, Grid
  <2>5. t * Iters = Iters * t
    BY <2>2, Grid
  <2>6. x = Candidate(t, i)
    BY <2>1, <2>2, <2>5 DEF Candidate
  <2>. QED  BY <2>3, <2>4, <2>6 DEF Threads, Stretch
<1>5. UNION {Stretch(t, Iters) : t \in Threads} = Contract!Block(start_scalar)
  BY <1>3, <1>4
<1>. QED  BY <1>5, Zenon DEF Tallied, HitsAmong, Contract!HitsFrom

\* The hits of a set of threads depend on the block alone.
LEMMA SameTallied ==
  ASSUME start_scalar' = start_scalar, NEW E
  PROVE  Tallied(E)' = Tallied(E)
<1>1. \A t : Stretch(t, Iters)' = Stretch(t, Iters)
  BY Zenon DEF Stretch, Candidate
<1>2. Tallied(E)' = {s \in UNION {Stretch(t, Iters)' : t \in E} : Hit(Mult(s))}
  BY Zenon DEF Tallied, HitsAmong
<1>3. Tallied(E) = {s \in UNION {Stretch(t, Iters) : t \in E} : Hit(Mult(s))}
  BY Zenon DEF Tallied, HitsAmong
<1>4. UNION {Stretch(t, Iters)' : t \in E} = UNION {Stretch(t, Iters) : t \in E}
  BY <1>1
<1>. QED  BY <1>2, <1>3, <1>4, Zenon

\* Which threads have added their hits.
Exited == {u \in Threads : kpc[u] = "exited"}

\* The tally is preserved when nobody adds to it and the same threads are
\* out of the kernel, or some left it early.
LEMMA TallyOKFrame ==
  ASSUME TallyOK, host \in {"waiting", "synced"}, mode' = mode, start_scalar' = start_scalar,
         buf'.tally = buf.tally,
         ~lossy' /\ (mode = "count" \/ buf'.flag = 0) =>
           ~lossy /\ (mode = "count" \/ buf.flag = 0) /\ Exited' = Exited
  PROVE  TallyOK'
<1>1. PICK E \in SUBSET Threads :
        /\ buf.tally = Cardinality(Tallied(E))
        /\ ~lossy /\ (mode = "count" \/ buf.flag = 0) => E = Exited
  BY Zenon DEF TallyOK, Exited
<1>2. Tallied(E)' = Tallied(E)
  BY SameTallied
<1>3. /\ buf'.tally = Cardinality(Tallied(E)')
      /\ ~lossy' /\ (mode' = "count" \/ buf'.flag = 0) => E = Exited'
  BY <1>1, <1>2, Zenon
<1>4. mode' = "search" => buf'.tally = 0
  BY Zenon DEF TallyOK
<1>. QED  BY <1>3, <1>4, Zenon DEF TallyOK, Exited

\* The tally is preserved by the threads of a grid.
LEMMA TallyOKKernelStep ==
  ASSUME GTypeOK, StartOK, ThreadsOK, SlotOK, TallyOK, NEW t \in Threads, KernelStep(t)
  PROVE  TallyOK'
<1>a. /\ host = "waiting" /\ host' = host /\ start_scalar' = start_scalar /\ mode' = mode
      /\ lossy' = lossy /\ kpc[t] # "exited"
  BY KernelFrame DEF hostVars
<1>b. \A u \in Threads : u # t => kpc'[u] = kpc[u]
  BY KernelFrame
<1>c. buf \in Slots /\ kpc \in [Threads -> Places] /\ start_scalar \in Nat
  BY <1>a, ThreadTypes, BlockRange
<1>d. ~lossy
  BY <1>a DEF StartOK
<1>e. ThreadOK(t) /\ (mode = "search" => local[t] = 0)
  BY <1>a, Zenon DEF ThreadsOK
<1>1. CASE LastBatchDone(t)
  <2>1. /\ kpc[t] = "batch" /\ kpc'[t] = "exited" /\ iter[t] = Iters
        /\ buf' = [buf EXCEPT !.tally = buf.tally + local[t]]
    BY <1>c, <1>1, LastIterIsIters DEF LastBatchDone, Goto
  <2>2. buf'.tally = buf.tally + local[t] /\ buf'.flag = buf.flag /\ buf.tally \in Nat
    BY <1>c, <2>1 DEF Slots
  <2>3. local[t] = Cardinality(HitsAmong(Stretch(t, Iters)))
    BY <1>e, <2>1 DEF ThreadOK
  <2>4. PICK E \in SUBSET Threads :
          /\ buf.tally = Cardinality(Tallied(E))
          /\ ~lossy /\ (mode = "count" \/ buf.flag = 0) => E = Exited
    BY <1>a, Zenon DEF TallyOK, Exited
  <2>5. Exited' = Exited \cup {t} /\ t \notin Exited
    BY <1>a, <1>b, <2>1 DEF Exited
  <2>6. mode = "search" => buf'.tally = 0
    BY <1>e, <2>2 DEF TallyOK
  <2>7. CASE mode = "count" \/ buf.flag = 0
    <3>1. E = Exited
      BY <1>d, <2>4, <2>7
    <3>2. buf'.tally = Cardinality(Tallied(E \cup {t}))
      BY <1>c, <2>2, <2>3, <2>4, <2>5, <3>1, TalliedGrows
    <3>3. Tallied(E \cup {t})' = Tallied(E \cup {t})
      BY <1>a, SameTallied
    <3>4. E \cup {t} = Exited' /\ E \cup {t} \in SUBSET Threads
      BY <2>5, <3>1
    <3>. QED  BY <1>a, <2>6, <3>2, <3>3, <3>4, Zenon DEF TallyOK, Exited
  <2>8. CASE mode # "count" /\ buf.flag # 0
    <3>1. mode = "search"
      BY <2>8, HostVarTypes
    <3>2. buf'.tally = buf.tally
      BY <2>6, <3>1 DEF TallyOK
    <3>3. buf'.flag # 0
      BY <2>2, <2>8
    <3>. QED  BY <1>a, <2>8, <3>2, <3>3, TallyOKFrame
  <2>. QED  BY <2>7, <2>8
<1>2. CASE EarlyExit(t)
  <2>1. mode = "search" /\ buf' = buf /\ buf.flag # 0
    BY <1>2 DEF EarlyExit
  <2>. QED  BY <1>a, <2>1, TallyOKFrame
<1>3. CASE Claim(t) \/ WriteScalar(t) \/ Misreport(t)
  <2>1. Claiming(t) /\ kpc[t] \notin {"launched", "exited"}
    BY <1>3 DEF Claim, WriteScalar, Misreport, Claiming
  <2>2. mode = "search"
    BY <1>e, <2>1 DEF ThreadOK
  <2>3. buf'.tally = buf.tally
    BY <1>c, <1>3 DEF Slots, Claim, WriteScalar, Misreport
  <2>4. buf'.flag = 1
    <3>1. CASE Claim(t)
      BY <1>c, <3>1 DEF Slots, Claim
    <3>2. CASE WriteScalar(t) \/ Misreport(t)
      <4>1. Writing(t)
        BY <3>2 DEF WriteScalar, Misreport, Writing
      <4>2. buf.flag = 1
        BY <1>a, <4>1, Zenon DEF SlotOK
      <4>. QED  BY <1>c, <3>2, <4>2 DEF Slots, WriteScalar, Misreport
    <3>. QED  BY <1>3, <3>1, <3>2
  <2>5. buf'.flag # 0 /\ mode # "count"
    BY <2>2, <2>4
  <2>. QED  BY <1>a, <2>3, <2>5, TallyOKFrame
<1>4. CASE KernelStart(t) \/ NextBatch(t) \/ Scan(t) \/ ScanHit(t) \/ WriteKey(t)
  <2>1. buf'.tally = buf.tally /\ buf'.flag = buf.flag /\ kpc'[t] # "exited"
    BY <1>c, <1>4 DEF Slots, KernelStart, NextBatch, Scan, ScanHit, WriteKey, Goto
  <2>2. Exited' = Exited
    BY <1>a, <1>b, <2>1 DEF Exited
  <2>. QED  BY <1>a, <2>1, <2>2, TallyOKFrame
<1>. QED  BY <1>1, <1>2, <1>3, <1>4, Zenon DEF KernelStep

\* The tally is preserved.
LEMMA TallyOKStep ==
  ASSUME GTypeOK, StartOK, ThreadsOK, SlotOK, TallyOK, [Next]_vars
  PROVE  TallyOK'
<1>1. ASSUME NEW t \in Threads, KernelStep(t) PROVE TallyOK'
  BY <1>1, TallyOKKernelStep
<1>2. CASE LaunchSearch \/ LaunchCount
  <2>1. buf' = ZeroBuffer /\ \A t \in Threads : kpc'[t] = "launched"
    BY <1>2 DEF LaunchSearch, LaunchCount, Launch, Cleared
  <2>2. buf'.tally = 0
    BY <2>1 DEF ZeroBuffer
  <2>3. Tallied({})' = {}
    BY DEF Tallied, HitsAmong
  <2>4. Cardinality(Tallied({})') = 0
    BY <2>3, FS_EmptySet
  <2>5. Exited' = {}
    BY <2>1 DEF Exited
  <2>6. {} \in SUBSET Threads
    OBVIOUS
  <2>. QED  BY <2>2, <2>4, <2>5, <2>6, Zenon DEF TallyOK, Exited
<1>3. CASE Sync
  <2>1. /\ host = "waiting" /\ start_scalar' = start_scalar /\ mode' = mode
        /\ lossy' = lossy /\ buf' = buf /\ kpc' = kpc
    BY <1>3 DEF Sync
  <2>2. Exited' = Exited
    BY <2>1 DEF Exited
  <2>. QED  BY <2>1, <2>2, TallyOKFrame
<1>4. CASE CommandFails
  <2>1. /\ host = "waiting" /\ start_scalar' = start_scalar /\ mode' = mode
        /\ lossy' = TRUE /\ buf' = buf
    BY <1>4 DEF CommandFails
  <2>. QED  BY <2>1, TallyOKFrame
<1>5. ASSUME host' \notin {"waiting", "synced"}, mode' = mode, buf' = buf PROVE TallyOK'
  BY <1>5 DEF TallyOK
<1>6. CASE UNCHANGED vars
  <2>1. /\ host' = host /\ start_scalar' = start_scalar /\ mode' = mode
        /\ lossy' = lossy /\ buf' = buf /\ kpc' = kpc
    BY <1>6, Zenon DEF vars, hostVars
  <2>2. Exited' = Exited
    BY <2>1 DEF Exited
  <2>. QED  BY <1>5, <2>1, <2>2, TallyOKFrame
<1>7. CASE HostStep
  <2>1. mode' = mode /\ (~(LaunchSearch \/ LaunchCount) => buf' = buf)
    BY <1>7, HostFrame, Zenon
  <2>2. host' \in {"waiting", "synced"} => LaunchSearch \/ LaunchCount \/ CommandFails \/ Sync
    BY <1>7 DEF HostStep, CudaNew, MetalNew, Opened, NewFails, DriverError, ReturnCount,
       ReturnMiss, ReturnKey, Return, Reject
  <2>. QED  BY <1>2, <1>3, <1>4, <1>5, <2>1, <2>2
<1>. QED  BY <1>1, <1>6, <1>7, Zenon DEF Next, Terminated

\* The invariant is inductive.
LEMMA GInvStep == GInv /\ [Next]_vars => GInv'
<1>. SUFFICES ASSUME GInv, [Next]_vars PROVE GInv'
  OBVIOUS
<1>1. GTypeOK /\ StartOK /\ ReplyOK /\ ThreadsOK /\ SlotOK /\ TestedOK /\ TallyOK
  BY Zenon DEF GInv
<1>2. GTypeOK' /\ StartOK' /\ ReplyOK'
  BY <1>1, GTypesStep, StartOKStep, ReplyOKStep, Zenon
<1>3. ThreadsOK' /\ SlotOK' /\ TestedOK' /\ TallyOK'
  BY <1>1, ThreadsOKStep, SlotOKStep, TestedOKStep, TallyOKStep, Zenon
<1>. QED  BY <1>2, <1>3, Zenon DEF GInv

(***************************************************************************)
(* 5. The theorems.                                                        *)
(***************************************************************************)

\* GInv: the places of the chain, the threads and the host, what the slot
\* and the tally may hold, and what has been compared, are as GpuDevice says
\* in every reachable state, for every grid.
THEOREM DeviceInvariance == Spec => []GInv
BY GInit, GInvStep, PTL DEF Spec

\* gpu.rs: "successive batches cover fresh territory": no scalar is compared
\* twice, for every grid and every number of launches.
THEOREM NoCandidateTwice == Spec => []FreshTerritory
<1>1. GInv => FreshTerritory
  BY Zenon DEF GInv, TestedOK, FreshTerritory
<1>. QED  BY <1>1, DeviceInvariance, PTL

\* A pair is refused only when its slot was torn.
LEMMA RejectedStep ==
  ASSUME GInv, RejectedOnlyAfterLoss, [Next]_vars
  PROVE  RejectedOnlyAfterLoss'
<1>a. GTypeOK /\ StartOK /\ ReplyOK /\ SlotOK
  BY Zenon DEF GInv
<1>1. ASSUME NEW t \in Threads, KernelStep(t) PROVE RejectedOnlyAfterLoss'
  BY <1>1, <1>a, KernelFrame DEF RejectedOnlyAfterLoss, hostVars
<1>2. CASE UNCHANGED vars
  BY <1>2 DEF RejectedOnlyAfterLoss, vars, hostVars
<1>3. CASE Reject
  <2>1. /\ host = "synced" /\ buf.flag # 0 /\ ~Validated(buf)
        /\ lossy' = lossy /\ faulty' = faulty
    BY <1>3 DEF Reject
  <2>2. \A t \in Threads : ~Writing(t)
    BY <1>a, <2>1 DEF StartOK, Writing
  <2>3. buf.flag = 1
    BY <1>a, <2>1, ThreadTypes DEF Slots
  <2>4. PairFound \/ PairRefused
    BY <1>a, <2>1, <2>2, <2>3, Zenon DEF SlotOK
  <2>5. ~PairFound
    BY <2>1 DEF PairFound, Validated
  <2>. QED  BY <2>1, <2>4, <2>5 DEF PairRefused, RejectedOnlyAfterLoss
<1>4. CASE LaunchSearch \/ LaunchCount
  <2>1. host = "idle" /\ reply' = reply
    BY <1>4 DEF LaunchSearch, LaunchCount, Launch
  <2>. QED  BY <1>a, <2>1 DEF ReplyOK, RejectedOnlyAfterLoss
<1>5. CASE NewFails \/ DriverError \/ ReturnCount \/ ReturnMiss \/ ReturnKey
  <2>1. reply'.kind # "invalid"
    <3>1. CASE NewFails \/ DriverError \/ ReturnMiss
      BY <3>1 DEF NewFails, DriverError, ReturnMiss, Return, Plain
    <3>2. CASE ReturnCount
      BY <3>2 DEF ReturnCount, Return, Plain
    <3>3. CASE ReturnKey
      BY <3>3 DEF ReturnKey, Return, Plain
    <3>. QED  BY <1>5, <3>1, <3>2, <3>3
  <2>. QED  BY <2>1 DEF RejectedOnlyAfterLoss
<1>6. CASE Opened \/ CommandFails \/ Sync
  BY <1>6 DEF Opened, CommandFails, Sync, RejectedOnlyAfterLoss
<1>. QED
  BY <1>1, <1>2, <1>3, <1>4, <1>5, <1>6 DEF Next, Terminated, HostStep, CudaNew, MetalNew

\* Threads race for one slot, yet a correct kernel that ran to its end leaves
\* no torn pair in it: the host refuses a pair only after a failed Metal
\* command or from a faulty kernel.
THEOREM SlotIsNeverTorn == Spec => []RejectedOnlyAfterLoss
<1>1. Init => RejectedOnlyAfterLoss
  BY DEF Init, Plain, RejectedOnlyAfterLoss
<1>2. GInv /\ RejectedOnlyAfterLoss /\ [Next]_vars => RejectedOnlyAfterLoss'
  BY RejectedStep
<1>. QED  BY <1>1, <1>2, DeviceInvariance, PTL DEF Spec

-----------------------------------------------------------------------------
(***************************************************************************)
(* 6. A searcher keeps its contract.                                       *)
(***************************************************************************)

\* The contract counts as everybody does.
LEMMA SameCardinality ==
  ASSUME NEW S
  PROVE  Contract!Cardinality(S) = Cardinality(S)
BY DEF Contract!Cardinality, Cardinality

\* A new searcher has reported nothing.
LEMMA ContractInit == Init => Contract!Init
BY DEF Init, Contract!Init, Report, Plain, Contract!Plain

\* Steps that the contract does not see: a thread of a grid, and the end of
\* one.
LEMMA ContractStutter ==
  ASSUME host # "unopened", host' # "unopened",
         start_scalar' = start_scalar, lossy' = lossy, reply' = reply
  PROVE  UNCHANGED Contract!vars
BY DEF Contract!vars, Report

\* Until the host has read the buffer, the contract is open for a report.
LEMMA ContractOpen ==
  ASSUME ReplyOK, host \in {"idle", "waiting", "synced"}
  PROVE  Report = reply /\ Contract!Open
BY DEF ReplyOK, Report, Contract!Open

\* The block's report, when a call returns.
LEMMA ContractReturns ==
  ASSUME GInv, ReturnCount \/ ReturnMiss \/ ReturnKey
  PROVE  Contract!Next
<1>a. GTypeOK /\ StartOK /\ ReplyOK /\ ThreadsOK /\ SlotOK /\ TallyOK
  BY Zenon DEF GInv
<1>b. /\ host = "synced" /\ host' # "unopened" /\ lossy' = lossy
      /\ start_scalar' = advance_scalar(start_scalar, 8 * keys_checked)
  BY DEF ReturnCount, ReturnMiss, ReturnKey, Return
<1>c. Report = reply /\ Contract!Open
  BY <1>a, <1>b, ContractOpen
<1>d. reply'.kind # "invalid" => Report' = reply'
  BY <1>b DEF Report
<1>e. Contract!Advance
  BY <1>b DEF Contract!Advance, advance_scalar
<1>f. \A t \in Threads : kpc[t] = "exited" /\ ~Writing(t)
  BY <1>a, <1>b DEF StartOK, Writing
<1>g. buf \in Slots /\ start_scalar \in Nat
  BY <1>a, <1>b, ThreadTypes, BlockRange
<1>h. PICK E \in SUBSET Threads :
        /\ buf.tally = Cardinality(Tallied(E))
        /\ ~lossy /\ (mode = "count" \/ buf.flag = 0) => E = Exited
  BY <1>a, <1>b, Zenon DEF TallyOK, Exited
<1>i. Exited = Threads
  BY <1>f DEF Exited
<1>j. Tallied(Threads) = Contract!HitsFrom(start_scalar)
  BY <1>a, <1>b, TalliedAll
<1>k. IsFiniteSet(Tallied(Threads)) /\ Tallied(E) \in SUBSET Tallied(Threads)
  <2>1. IsFiniteSet(Tallied(Threads))
    BY <1>g, TalliedFinite
  <2>. QED  BY <2>1 DEF Tallied, HitsAmong
<1>1. CASE ReturnCount
  <2>1. mode = "count" /\ reply' = [Plain("count") EXCEPT !.count = buf.tally]
    BY <1>1 DEF ReturnCount, Return
  <2>2. ~lossy => buf.tally = Cardinality(Contract!HitsFrom(start_scalar))
    BY <1>h, <1>i, <1>j, <2>1, Zenon
  <2>3. buf.tally \in 0..Cardinality(Contract!HitsFrom(start_scalar))
    <3>1. buf.tally <= Cardinality(Tallied(Threads))
      BY <1>h, <1>k, FS_Subset
    <3>2. Cardinality(Tallied(Threads)) \in Nat
      BY <1>g, TalliedFinite
    <3>. QED  BY <1>g, <1>j, <3>1, <3>2 DEF Slots
  <2>4. Report' = [Contract!Plain("count") EXCEPT !.count = buf.tally]
    BY <1>d, <2>1 DEF Plain, Contract!Plain
  <2>5. Contract!Count
    <3>. DEFINE n == buf.tally
    <3>1. /\ n \in 0..Cardinality(Contract!HitsFrom(start_scalar))
          /\ lossy \/ n = Cardinality(Contract!HitsFrom(start_scalar))
          /\ Report' = [Contract!Plain("count") EXCEPT !.count = n]
      BY <2>2, <2>3, <2>4
    <3>. HIDE DEF n
    <3>2. \E m \in 0..Cardinality(Contract!HitsFrom(start_scalar)) :
            /\ lossy \/ m = Cardinality(Contract!HitsFrom(start_scalar))
            /\ Report' = [Contract!Plain("count") EXCEPT !.count = m]
      BY <3>1
    <3>3. Contract!Cardinality(Contract!HitsFrom(start_scalar))
            = Cardinality(Contract!HitsFrom(start_scalar))
      BY SameCardinality
    <3>. QED  BY <1>c, <1>e, <3>2, <3>3, Zenon DEF Contract!Count
  <2>. QED  BY <2>5, Zenon DEF Contract!Next
<1>2. CASE ReturnMiss
  <2>1. mode = "search" /\ buf.flag = 0 /\ reply' = Plain("miss")
    BY <1>2 DEF ReturnMiss, Return
  <2>2. buf.tally = 0
    BY <1>a, <2>1 DEF TallyOK
  <2>3. ~lossy => Contract!HitsFrom(start_scalar) = {}
    <3>1. ~lossy => Cardinality(Tallied(Threads)) = 0
      BY <1>h, <1>i, <2>1, <2>2, Zenon
    <3>. QED  BY <1>j, <1>k, <3>1, FS_EmptySet, Zenon
  <2>4. Report' = Contract!Plain("miss")
    BY <1>d, <2>1 DEF Plain, Contract!Plain
  <2>5. Contract!Miss
    BY <1>c, <1>e, <2>3, <2>4, Zenon DEF Contract!Miss
  <2>. QED  BY <2>5, Zenon DEF Contract!Next
<1>3. CASE ReturnKey
  <2>1. /\ buf.flag # 0 /\ Validated(buf)
        /\ reply' = [Plain("key") EXCEPT !.scalar = buf.scalar, !.public = buf.public]
    BY <1>3 DEF ReturnKey, Return
  <2>2. buf.flag = 1
    BY <1>g, <2>1 DEF Slots
  <2>3. PairFound \/ PairRefused
    BY <1>a, <1>b, <1>f, <2>2, Zenon DEF SlotOK
  <2>4. PICK s \in Contract!HitsFrom(start_scalar) : buf.scalar = s /\ buf.public = Mult(s)
    BY <2>1, <2>3, Zenon DEF PairFound, PairRefused
  <2>5. Report' = [Contract!Plain("key") EXCEPT !.scalar = s, !.public = Mult(s)]
    BY <1>d, <2>1, <2>4 DEF Plain, Contract!Plain
  <2>6. Contract!Found
    BY <1>c, <1>e, <2>5, Zenon DEF Contract!Found
  <2>. QED  BY <2>6, Zenon DEF Contract!Next
<1>. QED  BY <1>1, <1>2, <1>3

\* Every step of the searcher is one of the contract, or none.
LEMMA ContractStep ==
  ASSUME GInv, [Next]_vars
  PROVE  [Contract!Next]_(Contract!vars)
<1>a. GTypeOK /\ StartOK /\ ReplyOK
  BY Zenon DEF GInv
<1>1. ASSUME NEW t \in Threads, KernelStep(t) PROVE UNCHANGED Contract!vars
  <2>1. host = "waiting" /\ UNCHANGED hostVars
    BY <1>1, <1>a, KernelFrame
  <2>. QED  BY <2>1, ContractStutter DEF hostVars
<1>2. CASE UNCHANGED vars
  BY <1>2 DEF vars, hostVars, Contract!vars, Report
<1>3. CASE ReturnCount \/ ReturnMiss \/ ReturnKey
  BY <1>3, ContractReturns
<1>4. CASE Opened
  <2>1. /\ host = "unopened" /\ host' = "idle" /\ start_scalar' \in Starts
        /\ reply' = reply /\ lossy' = lossy /\ reply = Plain("none")
    BY <1>4, <1>a DEF Opened, ReplyOK
  <2>2. Report = Contract!Plain("unopened") /\ Report' = Contract!Plain("none")
    BY <2>1 DEF Report, Plain, Contract!Plain
  <2>3. Contract!New
    BY <2>1, <2>2 DEF Contract!New
  <2>. QED  BY <2>3 DEF Contract!Next
<1>5. CASE NewFails \/ DriverError \/ Reject
  <2>1. /\ host' = "dead" /\ start_scalar' = start_scalar /\ lossy' = lossy
        /\ reply' \in {Plain("error"), Plain("invalid")}
        /\ host \in {"unopened", "idle", "waiting", "synced"}
    BY <1>5 DEF NewFails, DriverError, Reject
  <2>2. Report' = Contract!Plain("error")
    BY <2>1 DEF Report, Plain, Contract!Plain
  <2>3. Contract!Open \/ Report = Contract!Plain("unopened")
    <3>1. CASE host = "unopened"
      BY <3>1 DEF Report, Plain, Contract!Plain
    <3>2. CASE host # "unopened"
      BY <1>a, <2>1, <3>2, ContractOpen
    <3>. QED  BY <3>1, <3>2
  <2>4. Contract!Fail
    BY <2>1, <2>2, <2>3 DEF Contract!Fail
  <2>. QED  BY <2>4 DEF Contract!Next
<1>6. CASE LaunchSearch \/ LaunchCount \/ CommandFails
  <2>1. /\ host \in {"idle", "waiting"} /\ host' = "waiting"
        /\ start_scalar' = start_scalar /\ reply' = reply /\ lossy' \in BOOLEAN
    BY <1>6 DEF LaunchSearch, LaunchCount, Launch, CommandFails
  <2>2. Contract!Open
    BY <1>a, <2>1, ContractOpen
  <2>3. Report' = Report
    BY <2>1 DEF Report
  <2>4. Contract!Disturb
    BY <2>1, <2>2, <2>3 DEF Contract!Disturb
  <2>. QED  BY <2>4 DEF Contract!Next
<1>7. CASE Sync
  <2>1. host = "waiting" /\ host' = "synced" /\ UNCHANGED <<start_scalar, lossy, reply>>
    BY <1>7 DEF Sync
  <2>. QED  BY <2>1, ContractStutter
<1>. QED
  BY <1>1, <1>2, <1>3, <1>4, <1>5, <1>6, <1>7, Zenon DEF Next, Terminated, HostStep, CudaNew,
     MetalNew

\* A searcher, CUDA or Metal, with any grid of racing threads, keeps the
\* contract its dispatch loop relies on: each call reports on the next block
\* of candidates, exactly (a failed Metal command aside).
THEOREM DeviceImplementation == Spec => ImplementsContract
<1>1. Init => Contract!Init
  BY ContractInit
<1>2. GInv /\ [Next]_vars => [Contract!Next]_(Contract!vars)
  BY ContractStep
<1>. QED
  BY <1>1, <1>2, DeviceInvariance, PTL DEF Spec, Contract!Spec, ImplementsContract
=============================================================================
