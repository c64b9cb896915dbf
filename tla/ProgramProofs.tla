--------------------------- MODULE ProgramProofs ---------------------------
(***************************************************************************)
(* Proofs about the search engine, module Search, and about the program    *)
(* around it, module Frontend, which extends it: for every number of       *)
(* threads, every batch size, every set of prefixes and every group with   *)
(* the homomorphism law, every command line and every machine.             *)
(*                                                                         *)
(* The search engine:                                                      *)
(*   1. arithmetic of scalars and the choice of a prefix                   *)
(*   2. frames: what the step of one thread leaves alone                   *)
(*   3. each conjunct of IInv is preserved                                 *)
(*   4. the counts: what is in `attempts`, with what the threads hold, is  *)
(*      what they have tested                                              *)
(*   5. the theorems: invariance, type correctness, GenuineResult,         *)
(*      FoundNotLost, NothingOverlooked, KeyNearDraw, the counts, and the  *)
(*      implementation of VanitySearch                                     *)
(* The program:                                                            *)
(*   6. a step of main is a step of the engine, or leaves it alone, so     *)
(*      what holds of the engine holds inside the program                  *)
(*   7. each conjunct of FInv is preserved                                 *)
(*   8. the theorems                                                       *)
(***************************************************************************)
EXTENDS Frontend, SumLemmas

-----------------------------------------------------------------------------
(***************************************************************************)
(* 1. Scalars and prefixes.                                                *)
(***************************************************************************)

\* FindPrefix returns the earliest prefix that matches.
LEMMA FindPrefixEarliest ==
  ASSUME NEW key, MatchingPositions(key) # {}
  PROVE  \E i \in DOMAIN Prefixes :
           /\ FindPrefix(key) = Prefixes[i] /\ Matches(Prefixes[i], key)
           /\ \A j \in 1..(i - 1) : ~Matches(Prefixes[j], key)
<1>1. DOMAIN Prefixes = 1..Len(Prefixes) /\ Len(Prefixes) \in Nat
  BY PrefixesAssumption
<1>. DEFINE i == Min(MatchingPositions(key))
<1>2. i \in MatchingPositions(key) /\ \A x \in MatchingPositions(key) : i <= x
  BY <1>1, MinInSet DEF MatchingPositions
<1>3. i \in 1..Len(Prefixes) /\ Matches(Prefixes[i], key)
  BY <1>1, <1>2 DEF MatchingPositions
<1>. HIDE DEF i
<1>4. ASSUME NEW j \in 1..(i - 1), Matches(Prefixes[j], key) PROVE FALSE
  <2>1. j \in DOMAIN Prefixes /\ ~(i <= j)
    BY <1>1, <1>3
  <2>. QED  BY <1>2, <1>4, <2>1 DEF MatchingPositions
<1>. QED  BY <1>1, <1>3, <1>4 DEF i, FindPrefix

\* A multiple, plus one more, is a multiple.
LEMMA NextMultiple ==
  ASSUME NEW q \in Int, NEW c \in Int, c > 0
  PROVE  c * q + c = c * (q + 1) /\ (c * (q + 1)) % c = 0
OBVIOUS

\* Multiples of c are at least c apart.
LEMMA MultiplesApart ==
  ASSUME NEW p \in Int, NEW q \in Int, NEW c \in Int, c > 0, c * p < c * q
  PROVE  c * p + c <= c * q
<1>1. p + 1 <= q
  OBVIOUS
<1>2. c * (p + 1) <= c * q
  BY <1>1
<1>. QED  BY <1>2

\* A count of whole batches below the flush threshold has room for another.
LEMMA RoomForABatch ==
  ASSUME NEW a \in Nat, NEW b \in Nat, NEW c \in Int, c > 0,
         a % c = 0, b % c = 0, a < b
  PROVE  a + c <= b /\ (a + c) % c = 0
<1>. DEFINE p == a \div c  q == b \div c
<1>1. a = c * p /\ b = c * q /\ p \in Int /\ q \in Int
  BY Quotient
<1>. HIDE DEF p, q
<1>2. a + c <= b
  BY <1>1, MultiplesApart
<1>3. (a + c) % c = 0
  BY <1>1, NextMultiple
<1>. QED  BY <1>2, <1>3

\* The range of a remainder.
LEMMA ModRange ==
  ASSUME NEW a \in Int, NEW b \in Nat \ {0}
  PROVE  a % b \in 0..(b - 1)
OBVIOUS

\* Clamping any 32 bytes gives a multiple of the cofactor in 2^254..2^255-1.
LEMMA ClampedRange ==
  ASSUME NEW r \in RandomDraws
  PROVE  clamp_scalar(r) \in ClampBase..(ClampTop - 1) /\ clamp_scalar(r) % 8 = 0
<1>. DEFINE a == r - (r % 8)
<1>1. r \in 0..(4*ClampBase - 1) BY ScalarAssumption
<1>2. a \in 0..(4*ClampBase - 1) /\ a % 8 = 0
  BY <1>1, ScalarAssumption
<1>3. a % ClampBase \in {a, a - ClampBase, a - 2*ClampBase, a - 3*ClampBase}
  BY <1>2, ScalarAssumption
<1>4. a % ClampBase \in 0..(ClampBase - 1)
  BY <1>2, ScalarAssumption, ModRange
<1>5. (a % ClampBase) % 8 = 0
  BY <1>2, <1>3, <1>4, ScalarAssumption
<1>. QED  BY <1>4, <1>5, ScalarAssumption DEF clamp_scalar

\* Below 2^256 the byte-wise addition does not wrap.
LEMMA NoWrap ==
  ASSUME NEW s \in 0..(ScalarMod - 1)
  PROVE  s % ScalarMod = s
BY ScalarAssumption

\* Advancing within the chain is addition.
LEMMA AdvanceInChain ==
  ASSUME NEW s \in Nat, NEW d \in Nat, s + d \in ClampBase..(ChainLimit - 1)
  PROVE  advance_scalar(s, d) = s + d
<1>1. s + d \in 0..(ScalarMod - 1)
  BY ScalarAssumption
<1>. QED  BY <1>1, NoWrap DEF advance_scalar

\* A step of whole candidates keeps a scalar a multiple of the cofactor.
LEMMA StepsKeepCofactor ==
  ASSUME NEW s \in Nat, NEW n \in Nat, s % 8 = 0
  PROVE  (s + 8 * n) % 8 = 0 /\ s + 8 * n >= s
OBVIOUS

\* What a chain may begin with.
LEMMA StartsClamped ==
  ASSUME NEW s \in Starts
  PROVE  s \in ClampBase..(ChainLimit - 1) /\ s % 8 = 0
BY ClampedRange, ScalarAssumption DEF Starts

\* The types of the constants, without the arithmetic between them.
LEMMA Sizes ==
  /\ MaxThreads \in Nat /\ ChainBatch \in Nat /\ ChainBatch > 0
  /\ BatchSize \in Nat /\ GpuBatchKeys \in Nat /\ GpuBatchKeys > 0
  /\ ClampBase \in Nat /\ ChainLimit \in Nat /\ ScalarMod \in Nat
  /\ ChainLimit <= ScalarMod
BY SizesAssumption, ScalarAssumption

\* A request asks for at most MaxThreads threads.
LEMMA RequestFacts ==
  ASSUME request \in Requests
  PROVE  /\ request.cpu \in Nat /\ request.gpu \in Nat /\ request.metal \in BOOLEAN
         /\ Total \in 0..MaxThreads
BY RequestsAssumption DEF Total

(***************************************************************************)
(* 2. Frames.                                                              *)
(***************************************************************************)

\* A step of one thread leaves the locals of the others alone.
LEMMA ThreadFrame ==
  ASSUME TypeOK, NEW w \in Threads, ThreadStep(w), NEW v \in Threads, v # w
  PROVE  /\ pc'[v] = pc[v] /\ scalar'[v] = scalar[v] /\ point'[v] = point[v]
         /\ nextPoint'[v] = nextPoint[v] /\ idx'[v] = idx[v]
         /\ match'[v] = match[v] /\ start'[v] = start[v]
         /\ localCount'[v] = localCount[v]
<1>. USE DEF TypeOK, Goto, handleVars, chainVars, histories
<1>1. CASE CpuStep(w)
  BY <1>1 DEF CpuStep, CpuStart, CpuContinue, CpuMiss, CpuMatch, CpuPublish,
              CpuEndBatch, CpuStop, CpuDrain
<1>2. CASE GpuStep(w)
  BY <1>2 DEF GpuStep, GpuStart, GpuContinue, GpuCompare, GpuMiss, GpuLossyMiss, GpuMatch,
              LaunchDone, GpuPublish, GpuError, GpuStop
<1>3. CASE Announce(w) \/ RngPanic(w)
  BY <1>3 DEF Announce, RngPanic
<1>. QED  BY <1>1, <1>2, <1>3 DEF ThreadStep

\* ... and their histories.
LEMMA TestedFrame ==
  ASSUME TypeOK, NEW w \in Threads, ThreadStep(w), NEW v \in Threads, v # w
  PROVE  tested'[v] = tested[v] /\ uncounted'[v] = uncounted[v]
<1>. USE DEF TypeOK, histories
<1>1. CASE CpuStep(w)
  BY <1>1 DEF CpuStep, CpuStart, CpuContinue, CpuMiss, CpuMatch, CpuPublish,
              CpuEndBatch, CpuStop, CpuDrain
<1>2. CASE GpuStep(w)
  BY <1>2 DEF GpuStep, GpuStart, GpuContinue, GpuCompare, GpuMiss, GpuLossyMiss, GpuMatch,
              LaunchDone, GpuPublish, GpuError, GpuStop
<1>3. CASE Announce(w) \/ RngPanic(w)
  BY <1>3 DEF Announce, RngPanic
<1>. QED  BY <1>1, <1>2, <1>3 DEF ThreadStep

\* Only a running thread steps, and it leaves the handle alone.
LEMMA ThreadActive ==
  ASSUME TypeOK, NEW w \in Threads, ThreadStep(w)
  PROVE  /\ UNCHANGED handleVars
         /\ pc[w] \notin {"unspawned", "returned", "panicked"}
<1>. USE DEF TypeOK, Goto, handleVars, chainVars, histories
<1>1. CASE CpuStep(w)
  BY <1>1 DEF CpuStep, CpuStart, CpuContinue, CpuMiss, CpuMatch, CpuPublish,
              CpuEndBatch, CpuStop, CpuDrain
<1>2. CASE GpuStep(w)
  BY <1>2 DEF GpuStep, GpuStart, GpuContinue, GpuCompare, GpuMiss, GpuLossyMiss, GpuMatch,
              LaunchDone, GpuPublish, GpuError, GpuStop
<1>3. CASE Announce(w) \/ RngPanic(w)
  BY <1>3 DEF Announce, RngPanic
<1>. QED  BY <1>1, <1>2, <1>3 DEF ThreadStep

\* A step of the owner moves no thread, apart from spawning one.
LEMMA OwnerFrame ==
  ASSUME TypeOK, HandleOK, OwnerStep \/ UNCHANGED vars
  PROVE  /\ UNCHANGED <<request, found, chainVars, localCount, match>>
         /\ \A v \in Threads :
              \/ pc'[v] = pc[v]
              \/ pc[v] = "unspawned" /\ pc'[v] = "spawned"
<1>. USE DEF TypeOK, HandleOK, Goto, handleVars, chainVars, histories
<1>1. CASE Spawn
  <2>1. spawned + 1 > spawned
    OBVIOUS
  <2>. QED  BY <1>1, <2>1 DEF Spawn
<1>2. CASE Started \/ BeginFinish \/ Join \/ JoinPanics \/ Take
  BY <1>2 DEF Started, BeginFinish, Join, JoinPanics, Take
<1>3. CASE UNCHANGED vars
  BY <1>3 DEF vars
<1>. QED  BY <1>1, <1>2, <1>3 DEF OwnerStep, FinishStep

\* finish() has returned only when no thread can take a step any more.
LEMMA DoneIsQuiet ==
  ASSUME TypeOK, HandleOK, handle = "done", NEW w \in Threads
  PROVE  ~ThreadStep(w)
<1>1. w <= spawned => w \in 1..joined
  BY DEF HandleOK, Threads, TypeOK
<1>2. pc[w] \in {"unspawned", "returned"}
  BY <1>1, RequestFacts DEF HandleOK, TypeOK, Threads
<1>. QED  BY <1>2, ThreadActive

(***************************************************************************)
(* 3. The conjuncts of the invariant.                                      *)
(***************************************************************************)

\* TypeOK is preserved; the scalar of a chain stays in range because the
\* next batch starts below ChainLimit.
LEMMA TypeOKStep == TypeOK /\ ChainLockstep /\ [Next]_vars => TypeOK'
<1>. SUFFICES ASSUME TypeOK, ChainLockstep, [Next]_vars PROVE TypeOK'
  OBVIOUS
<1>a. /\ request.cpu \in Nat /\ request.gpu \in Nat /\ Total \in 0..MaxThreads
      /\ MaxThreads \in Nat /\ GpuBatchKeys \in Nat /\ ChainBatch \in Nat
  BY RequestFacts, SizesAssumption DEF TypeOK
<1>. USE DEF TypeOK, Goto, handleVars, chainVars, histories, Total
<1>1. CASE Spawn
  <2>. USE <1>a, <1>1 DEF Spawn
  <2>1. spawned' \in 0..Total' /\ joined' \in 0..spawned'
    OBVIOUS
  <2>2. pc' \in [Threads -> Labels]
    BY DEF Labels
  <2>. QED  BY <2>1, <2>2
<1>2. CASE Started
  BY <1>2, <1>a DEF Started
<1>3. CASE BeginFinish
  BY <1>3, <1>a DEF BeginFinish
<1>4. CASE Join
  BY <1>4, <1>a DEF Join
<1>5. CASE JoinPanics
  BY <1>5, <1>a DEF JoinPanics
<1>6. CASE Take
  BY <1>6, <1>a DEF Take
<1>7. ASSUME NEW w \in Threads, CpuStart(w) PROVE TypeOK'
  <2>. USE <1>a, <1>7 DEF CpuStart
  <2>1. pc' \in [Threads -> Labels]
    BY DEF Labels
  <2>2. scalar' \in [Threads -> {0} \cup (ClampBase..(ChainLimit - 1))]
    BY StartsClamped DEF Starts
  <2>3. DOMAIN point' = Threads
    OBVIOUS
  <2>4. localCount' \in [Threads -> Nat]
    OBVIOUS
  <2>5. start' \in [Threads -> {0} \cup Starts]
    BY DEF Starts
  <2>. QED  BY <2>1, <2>2, <2>3, <2>4, <2>5
<1>8. ASSUME NEW w \in Threads, CpuContinue(w) PROVE TypeOK'
  <2>. USE <1>a, <1>8 DEF CpuContinue
  <2>1. pc' \in [Threads -> Labels]
    BY DEF Labels
  <2>2. DOMAIN nextPoint' = Threads
    OBVIOUS
  <2>3. idx' \in [Threads -> 0..ChainBatch]
    OBVIOUS
  <2>. QED  BY <2>1, <2>2, <2>3
<1>9. ASSUME NEW w \in Threads, CpuMiss(w) PROVE TypeOK'
  <2>. USE <1>a, <1>9 DEF CpuMiss
  <2>1. DOMAIN nextPoint' = Threads
    OBVIOUS
  <2>2. idx' \in [Threads -> 0..ChainBatch]
    OBVIOUS
  <2>3. tested' \in [Threads -> Nat]
    OBVIOUS
  <2>. QED  BY <2>1, <2>2, <2>3
<1>10. ASSUME NEW w \in Threads, CpuMatch(w) PROVE TypeOK'
  <2>. USE <1>a, <1>10 DEF CpuMatch
  <2>1. pc' \in [Threads -> Labels]
    BY DEF Labels
  <2>2. DOMAIN match' = Threads
    OBVIOUS
  <2>3. tested' \in [Threads -> Nat]
    OBVIOUS
  <2>4. attempts' \in Nat
    BY DEF HitCount
  <2>. QED  BY <2>1, <2>2, <2>3, <2>4
<1>11. ASSUME NEW w \in Threads, CpuPublish(w) PROVE TypeOK'
  BY <1>11 DEF CpuPublish, Labels
<1>12. ASSUME NEW w \in Threads, CpuEndBatch(w) PROVE TypeOK'
  <2>. USE <1>a, <1>12 DEF CpuEndBatch
  <2>1. pc' \in [Threads -> Labels]
    BY DEF Labels
  <2>2. attempts' \in Nat
    OBVIOUS
  <2>3. localCount' \in [Threads -> Nat]
    OBVIOUS
  <2>4. DOMAIN point' = Threads
    OBVIOUS
  <2>5. scalar' \in [Threads -> {0} \cup (ClampBase..(ChainLimit - 1))]
    <3>1. scalar[w] \in ClampBase..(ChainLimit - 1)
      BY ScalarAssumption DEF ChainLockstep, ChainOK
    <3>2. scalar[w] + 8 * ChainBatch \in ClampBase..(ChainLimit - 1)
      BY <3>1, ScalarAssumption DEF ChainLockstep, ChainOK
    <3>3. advance_scalar(scalar[w], 8 * ChainBatch) = scalar[w] + 8 * ChainBatch
      <4>1. scalar[w] \in Nat /\ 8 * ChainBatch \in Nat
        BY <3>1, ScalarAssumption, Sizes
      <4>. QED  BY <3>2, <4>1, AdvanceInChain, Zenon
    <3>. QED  BY <3>2, <3>3, SMTT(30)
  <2>6. idx' \in [Threads -> 0..ChainBatch]
    OBVIOUS
  <2>. QED  BY <2>1, <2>2, <2>3, <2>4, <2>5, <2>6
<1>13. ASSUME NEW w \in Threads, CpuStop(w) PROVE TypeOK'
  BY <1>13 DEF CpuStop, Labels
<1>14. ASSUME NEW w \in Threads, CpuDrain(w) PROVE TypeOK'
  <2>. USE <1>a, <1>14 DEF CpuDrain
  <2>1. pc' \in [Threads -> Labels]
    BY DEF Labels
  <2>2. attempts' \in Nat
    OBVIOUS
  <2>3. localCount' \in [Threads -> Nat]
    OBVIOUS
  <2>. QED  BY <2>1, <2>2, <2>3
<1>15. ASSUME NEW w \in Threads, GpuStart(w) PROVE TypeOK'
  <2>. USE <1>a, <1>15 DEF GpuStart
  <2>1. pc' \in [Threads -> Labels]
    BY DEF Labels
  <2>2. scalar' \in [Threads -> {0} \cup (ClampBase..(ChainLimit - 1))]
    BY StartsClamped DEF Starts
  <2>3. start' \in [Threads -> {0} \cup Starts]
    BY DEF Starts
  <2>. QED  BY <2>1, <2>2, <2>3
<1>16. ASSUME NEW w \in Threads, GpuContinue(w) PROVE TypeOK'
  BY <1>16 DEF GpuContinue, Labels
<1>18. ASSUME NEW w \in Threads, GpuCompare(w) PROVE TypeOK'
  <2>. USE <1>a, <1>18 DEF GpuCompare
  <2>1. tested' \in [Threads -> Nat]
    OBVIOUS
  <2>2. uncounted' \in [Threads -> 0..GpuBatchKeys]
    OBVIOUS
  <2>. QED  BY <2>1, <2>2
<1>17. ASSUME NEW w \in Threads,
              GpuMiss(w) \/ GpuLossyMiss(w) \/ GpuMatch(w)
       PROVE  TypeOK'
  <2>. USE <1>a, <1>17 DEF GpuMiss, GpuLossyMiss, GpuMatch, LaunchDone
  <2>1. pc' \in [Threads -> Labels]
    BY DEF Labels
  <2>2. attempts' \in Nat
    OBVIOUS
  <2>3. tested' = tested /\ uncounted' \in [Threads -> 0..GpuBatchKeys]
    OBVIOUS
  <2>4. scalar' \in [Threads -> {0} \cup (ClampBase..(ChainLimit - 1))]
    <3>1. pc[w] = "dispatch" /\ ChainOK(w)
      BY DEF ChainLockstep
    <3>2. scalar[w] + 8 * GpuBatchKeys \in ClampBase..(ChainLimit - 1)
      BY <3>1, Sizes DEF ChainOK
    <3>3. advance_scalar(scalar[w], 8 * GpuBatchKeys) = scalar[w] + 8 * GpuBatchKeys
      <4>. HIDE DEF GpuMiss, GpuLossyMiss, GpuMatch, LaunchDone, Goto, chainVars, histories
      <4>1. scalar[w] \in Nat /\ 8 * GpuBatchKeys \in Nat
        BY <3>1, Sizes DEF ChainOK
      <4>. QED  BY <3>2, <4>1, AdvanceInChain, Zenon
    <3>4. scalar' = [scalar EXCEPT ![w] = scalar[w] + 8 * GpuBatchKeys]
      BY <3>3
    <3>5. scalar \in [Threads -> {0} \cup (ClampBase..(ChainLimit - 1))]
      OBVIOUS
    <3>. HIDE DEF TypeOK, GpuMiss, GpuLossyMiss, GpuMatch, LaunchDone
    <3>. DEFINE x == scalar[w] + 8 * GpuBatchKeys  R == {0} \cup (ClampBase..(ChainLimit - 1))
    <3>6. x \in R /\ scalar \in [Threads -> R] /\ scalar' = [scalar EXCEPT ![w] = x]
      BY <3>2, <3>4, <3>5
    <3>. HIDE DEF x, R
    <3>7. scalar' \in [Threads -> R]
      BY <3>6, Zenon
    <3>. QED  BY <3>7 DEF R
  <2>5. DOMAIN match' = Threads
    OBVIOUS
  <2>6. UNCHANGED <<handleVars, found, point, nextPoint, idx, start, localCount>>
    OBVIOUS
  <2>. QED  BY <2>1, <2>2, <2>3, <2>4, <2>5, <2>6
<1>19. ASSUME NEW w \in Threads, GpuPublish(w) PROVE TypeOK'
  <2>. USE <1>a, <1>19 DEF GpuPublish
  <2>1. pc' \in [Threads -> Labels]
    BY DEF Labels
  <2>2. DOMAIN match' = Threads
    OBVIOUS
  <2>. QED  BY <2>1, <2>2
<1>20. ASSUME NEW w \in Threads, GpuError(w) PROVE TypeOK'
  BY <1>20 DEF GpuError, Labels
<1>21. ASSUME NEW w \in Threads, GpuStop(w) PROVE TypeOK'
  BY <1>21 DEF GpuStop, Labels
<1>22. ASSUME NEW w \in Threads, Announce(w) PROVE TypeOK'
  <2>. USE <1>a, <1>22 DEF Announce
  <2>1. pc' \in [Threads -> Labels]
    BY DEF Labels
  <2>. QED  BY <2>1
<1>23. ASSUME NEW w \in Threads, RngPanic(w) PROVE TypeOK'
  BY <1>23 DEF RngPanic, Labels
<1>24. CASE UNCHANGED vars
  BY <1>24 DEF vars
<1>. QED
  BY <1>1, <1>2, <1>3, <1>4, <1>5, <1>6, <1>7, <1>8, <1>9, <1>10, <1>11,
     <1>12, <1>13, <1>14, <1>15, <1>16, <1>17, <1>18, <1>19, <1>20, <1>21, <1>22,
     <1>23, <1>24
  DEF Next, OwnerStep, FinishStep, ThreadStep, CpuStep, GpuStep, Terminated, BoundReached

\* HandleOK is preserved: a thread that steps is spawned and not yet joined.
LEMMA HandleOKStep == TypeOK /\ HandleOK /\ [Next]_vars => HandleOK'
<1>. SUFFICES ASSUME TypeOK, HandleOK, [Next]_vars PROVE HandleOK'
  OBVIOUS
<1>a. /\ request.cpu \in Nat /\ request.gpu \in Nat /\ Total \in 0..MaxThreads
      /\ MaxThreads \in Nat /\ spawned \in Nat /\ joined \in 0..spawned
  BY RequestFacts, SizesAssumption DEF TypeOK
<1>. USE <1>a DEF HandleOK, TypeOK, Goto, handleVars, chainVars
<1>1. CASE Spawn
  <2>1. \A v \in Threads : v # spawned + 1 => pc'[v] = pc[v]
    BY <1>1 DEF Spawn
  <2>2. Total' = Total
    BY <1>1 DEF Spawn, Total
  <2>3. /\ handle = "starting" /\ handle' = "starting" /\ spawned' = spawned + 1
        /\ UNCHANGED <<joined, outcome, attempts>>
    BY <1>1 DEF Spawn
  <2>4. \A v \in Threads : v > spawned' => pc'[v] = "unspawned"
    BY <2>1, <2>3 DEF Threads
  <2>. QED  BY <2>2, <2>3, <2>4
<1>2. CASE Started
  BY <1>2 DEF Started, Total
<1>3. CASE BeginFinish
  BY <1>3 DEF BeginFinish, Total
<1>4. CASE Join
  <2>1. \A v \in 1..joined' : v \in 1..joined \/ v = joined + 1
    BY <1>4 DEF Join
  <2>. QED  BY <1>4, <2>1 DEF Join, Total
<1>5. CASE JoinPanics
  BY <1>5 DEF JoinPanics, Total
<1>6. CASE Take
  BY <1>6 DEF Take, JoinedAll, Total
<1>7. ASSUME NEW w \in Threads, ThreadStep(w) PROVE HandleOK'
  <2>1. UNCHANGED handleVars /\ pc[w] \notin {"unspawned", "returned", "panicked"}
    BY <1>7, ThreadActive
  <2>2. \A v \in Threads : v # w => pc'[v] = pc[v]
    BY <1>7, ThreadFrame
  <2>3. w <= spawned
    BY <2>1 DEF Threads
  <2>4. \A v \in Threads : v > spawned' => pc'[v] = "unspawned"
    BY <2>1, <2>2, <2>3
  <2>5. \A v \in 1..joined' : pc'[v] = "returned"
    BY <2>1, <2>2, SMTT(30) DEF Threads
  <2>6. handle' # "done"
    BY <1>7, <2>1, DoneIsQuiet
  <2>. QED  BY <2>1, <2>4, <2>5, <2>6 DEF Total
<1>8. CASE UNCHANGED vars
  BY <1>8 DEF vars, Total
<1>. QED
  BY <1>1, <1>2, <1>3, <1>4, <1>5, <1>6, <1>7, <1>8
  DEF Next, OwnerStep, FinishStep, Terminated, BoundReached

\* A launch moves the searcher's scalar by the keys it claims, without a wrap.
LEMMA LaunchAdvances ==
  ASSUME TypeOK, ChainLockstep, NEW w \in Threads, LaunchDone(w)
  PROVE  /\ scalar'[w] = scalar[w] + 8 * GpuBatchKeys
         /\ scalar[w] \in Nat /\ scalar[w] + 8 * GpuBatchKeys < ScalarMod
<1>1. pc[w] = "dispatch" /\ ChainOK(w)
  BY DEF LaunchDone, ChainLockstep
<1>2. scalar[w] \in Nat /\ scalar[w] + 8 * GpuBatchKeys \in 0..(ScalarMod - 1)
  BY <1>1, Sizes DEF ChainOK, TypeOK
<1>3. advance_scalar(scalar[w], 8 * GpuBatchKeys) = scalar[w] + 8 * GpuBatchKeys
  BY <1>2, NoWrap DEF advance_scalar
<1>. QED  BY <1>2, <1>3, Sizes DEF LaunchDone, TypeOK

\* The hits of a launch are those of the next GpuBatchKeys candidates.
LEMMA LaunchBlock ==
  ASSUME TypeOK, ChainLockstep, NEW w \in Threads, LaunchDone(w), NEW s
  PROVE  s \in LaunchHits(w) <=>
           /\ \E i \in 0..(GpuBatchKeys - 1) : s = scalar[w] + 8 * i
           /\ Hit(Mult(s))
<1>1. scalar[w] \in Nat /\ scalar[w] + 8 * GpuBatchKeys < ScalarMod
  BY LaunchAdvances
<1>2. \A i \in 0..(GpuBatchKeys - 1) :
        (scalar[w] + 8 * i) % ScalarMod = scalar[w] + 8 * i
  <2>1. \A i \in 0..(GpuBatchKeys - 1) : scalar[w] + 8 * i \in 0..(ScalarMod - 1)
    BY <1>1, Sizes
  <2>. QED  BY <2>1, NoWrap
<1>. QED  BY <1>2 DEF LaunchHits, Device!HitsFrom, Device!Block

\* The thread that steps keeps its scalar and its point in lockstep.
LEMMA ChainStep ==
  ASSUME TypeOK, ChainLockstep, NEW w \in Threads, ThreadStep(w)
  PROVE  ChainOK(w)'
<1>. USE DEF TypeOK, ChainOK, Goto, handleVars, chainVars, histories, IsCpu, IsGpu
<1>a. ChainOK(w)
  BY DEF ChainLockstep
<1>b. /\ scalar[w] \in Nat /\ idx[w] \in 0..ChainBatch
      /\ ChainBatch \in Nat /\ ChainBatch > 0
  BY Sizes
<1>c. request.cpu \in Nat /\ w \in Nat
  BY RequestFacts DEF Threads
<1>1. CASE CpuStart(w)
  <2>1. \A r \in RandomDraws :
          clamp_scalar(r) >= ClampBase /\ clamp_scalar(r) % 8 = 0
    BY ClampedRange, ScalarAssumption
  <2>. QED  BY <1>a, <1>c, <1>1, <2>1 DEF CpuStart
<1>2. CASE CpuContinue(w)
  <2>1. 8 * 0 = 0 /\ scalar[w] + 0 = scalar[w]
    BY <1>b
  <2>. QED  BY <1>a, <1>b, <1>2, <2>1 DEF CpuContinue
<1>3. CASE CpuMiss(w)
  <2>1. scalar[w] + 8 * idx[w] \in 0..(ScalarMod - 1)
    BY <1>a, <1>b, <1>3, Sizes DEF CpuMiss
  <2>2. scalar[w] + 8 * (idx[w] + 1) = (scalar[w] + 8 * idx[w]) + 8
    BY <1>b
  <2>3. Add8B(nextPoint[w]) = Mult(scalar[w] + 8 * (idx[w] + 1))
    BY <1>a, <1>3, <2>1, <2>2, GroupAssumption DEF CpuMiss
  <2>4. /\ pc[w] = "batch" /\ pc'[w] = "batch" /\ idx'[w] = idx[w] + 1
        /\ UNCHANGED <<request, scalar, point, localCount>>
        /\ nextPoint'[w] = Mult(scalar[w] + 8 * (idx[w] + 1))
    BY <1>3, <2>3 DEF CpuMiss
  <2>5. IsCpu(w) /\ ~IsGpu(w) /\ IsCpu(w)' /\ ~IsGpu(w)'
    BY <1>a, <1>c, <2>4
  <2>6. /\ scalar'[w] >= ClampBase /\ scalar'[w] % 8 = 0
        /\ scalar'[w] + 8 * ChainBatch < ChainLimit
    BY <1>a, <2>4
  <2>7. nextPoint'[w] = Mult(scalar'[w] + 8 * idx'[w])
    BY <2>4
  <2>. HIDE DEF TypeOK, IsCpu, IsGpu
  <2>8. pc'[w] = "batch"
    BY <2>4
  <2>9. (pc[w] = "batch" => /\ IsCpu(w) /\ scalar[w] + 8 * ChainBatch < ChainLimit
                           /\ nextPoint[w] = Mult(scalar[w] + 8 * idx[w]))'
    BY <2>5, <2>6, <2>7
  <2>10. (pc[w] \in {"loop", "batch"} /\ IsCpu(w) => point[w] = Mult(scalar[w]))'
    BY <1>a, <2>4, <2>5
  <2>. QED  BY <2>5, <2>6, <2>8, <2>9, <2>10
<1>4. CASE CpuMatch(w)
  BY <1>a, <1>c, <1>4 DEF CpuMatch
<1>5. CASE CpuPublish(w)
  BY <1>a, <1>c, <1>5 DEF CpuPublish
<1>6. CASE CpuEndBatch(w)
  <2>1. advance_scalar(scalar[w], 8 * ChainBatch) = scalar[w] + 8 * ChainBatch
    <3>1. scalar[w] + 8 * ChainBatch < ChainLimit
      BY <1>a, <1>6 DEF CpuEndBatch
    <3>2. scalar[w] + 8 * ChainBatch \in 0..(ScalarMod - 1)
      BY <1>b, <3>1, Sizes
    <3>. QED  BY <3>2, NoWrap DEF advance_scalar
  <2>2. /\ (scalar[w] + 8 * ChainBatch) % 8 = 0
        /\ scalar[w] + 8 * ChainBatch >= ClampBase
    <3>1. scalar[w] % 8 = 0 /\ scalar[w] >= ClampBase
      BY <1>a, <1>6 DEF CpuEndBatch
    <3>. QED  BY <1>b, <3>1, Sizes, StepsKeepCofactor
  <2>. QED  BY <1>a, <1>6, <2>1, <2>2 DEF CpuEndBatch
<1>7. CASE CpuStop(w)
  BY <1>a, <1>c, <1>7 DEF CpuStop
<1>8. CASE CpuDrain(w)
  BY <1>a, <1>c, <1>8 DEF CpuDrain
<1>9. CASE GpuStart(w)
  <2>1. \A r \in RandomDraws :
          clamp_scalar(r) >= ClampBase /\ clamp_scalar(r) % 8 = 0
    BY ClampedRange, ScalarAssumption
  <2>. QED  BY <1>a, <1>c, <1>9, <2>1 DEF GpuStart
<1>10. CASE GpuContinue(w)
  BY <1>a, <1>c, <1>10 DEF GpuContinue
<1>12. CASE GpuCompare(w)
  BY <1>a, <1>c, <1>12 DEF GpuCompare
<1>11. CASE GpuMiss(w) \/ GpuLossyMiss(w) \/ GpuMatch(w)
  <2>1. pc[w] = "dispatch" /\ LaunchDone(w)
    BY <1>11 DEF GpuMiss, GpuLossyMiss, GpuMatch, LaunchDone
  <2>2. scalar'[w] = scalar[w] + 8 * GpuBatchKeys
    BY <2>1, LaunchAdvances
  <2>3. scalar'[w] >= ClampBase /\ scalar'[w] % 8 = 0
    BY <1>a, <1>b, <2>1, <2>2, Sizes, StepsKeepCofactor
  <2>4. pc'[w] \in {"loop", "announce"} /\ IsGpu(w) /\ ~IsCpu(w)
    BY <1>a, <1>c, <1>11, <2>1 DEF GpuMiss, GpuLossyMiss, GpuMatch
  <2>5. UNCHANGED <<request, point, nextPoint, idx, localCount>>
    BY <2>1 DEF LaunchDone
  <2>. QED  BY <1>a, <2>3, <2>4, <2>5
<1>13. CASE GpuPublish(w)
  BY <1>a, <1>c, <1>13 DEF GpuPublish
<1>14. CASE GpuError(w)
  BY <1>a, <1>c, <1>14 DEF GpuError
<1>15. CASE GpuStop(w)
  BY <1>a, <1>c, <1>15 DEF GpuStop
<1>16. CASE Announce(w)
  BY <1>a, <1>c, <1>16 DEF Announce
<1>17. CASE RngPanic(w)
  BY <1>a, <1>c, <1>17 DEF RngPanic
<1>. QED
  BY <1>1, <1>2, <1>3, <1>4, <1>5, <1>6, <1>7, <1>8, <1>9, <1>10, <1>11,
     <1>12, <1>13, <1>14, <1>15, <1>16, <1>17 DEF ThreadStep, CpuStep, GpuStep

\* ChainLockstep is preserved.
LEMMA ChainLockstepStep ==
  TypeOK /\ HandleOK /\ ChainLockstep /\ [Next]_vars => ChainLockstep'
<1>. SUFFICES ASSUME TypeOK, HandleOK, ChainLockstep, [Next]_vars,
                     NEW v \in Threads
              PROVE  ChainOK(v)'
  BY DEF ChainLockstep
<1>a. ChainOK(v)
  BY DEF ChainLockstep
<1>1. CASE OwnerStep \/ UNCHANGED vars
  BY <1>a, <1>1, OwnerFrame DEF ChainOK, IsCpu, IsGpu, chainVars
<1>2. ASSUME NEW w \in Threads, ThreadStep(w) PROVE ChainOK(v)'
  <2>1. CASE v = w
    BY <1>2, <2>1, ChainStep
  <2>2. CASE v # w
    BY <1>a, <1>2, <2>2, ThreadFrame, ThreadActive
    DEF ChainOK, IsCpu, IsGpu, handleVars
  <2>. QED  BY <2>1, <2>2
<1>. QED  BY <1>1, <1>2 DEF Next, Terminated, BoundReached

\* The key pair a CPU worker builds at a hit is genuine.
LEMMA MatchGenuine ==
  ASSUME TypeOK, ChainLockstep, NEW w \in Threads, CpuMatch(w)
  PROVE  Genuine(match'[w])
<1>. DEFINE s == scalar[w] + 8 * idx[w]
            key == nextPoint[w]
<1>1. ChainOK(w) /\ pc[w] = "batch" /\ idx[w] < ChainBatch /\ Hit(key)
  BY DEF ChainLockstep, CpuMatch
<1>2. scalar[w] \in Nat /\ idx[w] \in Nat /\ scalar[w] >= ClampBase
      /\ scalar[w] % 8 = 0 /\ scalar[w] + 8 * ChainBatch < ChainLimit
  BY <1>1, Sizes DEF TypeOK, ChainOK
<1>3. s \in ClampBase..(ChainLimit - 1) /\ s % 8 = 0
  BY <1>1, <1>2, Sizes
<1>4. MatchScalar(w) = s
  BY <1>3, Sizes, NoWrap DEF MatchScalar, advance_scalar
<1>5. key = Mult(s)
  BY <1>1 DEF ChainOK
<1>6. match'[w] = [private |-> s, public |-> key, prefix |-> FindPrefix(key)]
  BY <1>4 DEF CpuMatch, TypeOK
<1>. HIDE DEF s, key
<1>7. ~ShouldSkip(key) /\ MatchingPositions(key) # {}
  BY <1>1 DEF Hit
<1>8. PICK i \in DOMAIN Prefixes :
        /\ FindPrefix(key) = Prefixes[i] /\ Matches(Prefixes[i], key)
        /\ \A j \in 1..(i - 1) : ~Matches(Prefixes[j], key)
  BY <1>7, FindPrefixEarliest
<1>. QED  BY <1>3, <1>5, <1>6, <1>7, <1>8 DEF Genuine

\* A GPU match is genuine once its prefix is looked up.
LEMMA GpuGenuine ==
  ASSUME TypeOK, NEW w \in Threads, GpuPublish(w),
         NEW s \in ClampBase..(ChainLimit - 1), s % 8 = 0, Hit(Mult(s)),
         match[w] = Unnamed(s)
  PROVE  Genuine(match'[w]) /\ result' = match'[w]
<1>. DEFINE key == Mult(s)
<1>1. s \in ClampBase..(ChainLimit - 1) /\ s % 8 = 0 /\ Hit(key)
  OBVIOUS
<1>2. ~ShouldSkip(key) /\ MatchingPositions(key) # {}
  BY <1>1 DEF Hit
<1>3. match[w].public = key
  BY DEF Unnamed
<1>4. match'[w] = [private |-> s, public |-> key, prefix |-> FindPrefix(key)]
      /\ result' = match'[w]
  BY <1>2, <1>3 DEF GpuPublish, TypeOK, Unnamed
<1>5. PICK i \in DOMAIN Prefixes :
        /\ FindPrefix(key) = Prefixes[i] /\ Matches(Prefixes[i], key)
        /\ \A j \in 1..(i - 1) : ~Matches(Prefixes[j], key)
  BY <1>2, FindPrefixEarliest
<1>. HIDE DEF key
<1>. QED  BY <1>1, <1>2, <1>4, <1>5 DEF Genuine, key

\* A genuine match is not the absence of one.
LEMMA GenuineIsMatch ==
  ASSUME NEW m, Genuine(m)
  PROVE  m # NoMatch
BY ScalarAssumption DEF Genuine, NoMatch

\* The thread that steps still holds nothing or a genuine match.
LEMMA MatchStep ==
  ASSUME TypeOK, ChainLockstep, MatchesGenuine, NEW w \in Threads, ThreadStep(w)
  PROVE  MatchOK(w)'
<1>. USE DEF TypeOK, Goto, handleVars, chainVars, histories, IsCpu, IsGpu
<1>a. MatchOK(w) /\ ChainOK(w)
  BY DEF MatchesGenuine, ChainLockstep
<1>b. request.cpu \in Nat /\ w \in Nat
  BY RequestFacts DEF Threads
<1>1. CASE CpuStart(w)
  BY <1>a, <1>b, <1>1 DEF CpuStart, MatchOK, ChainOK
<1>2. CASE CpuContinue(w)
  BY <1>a, <1>b, <1>2 DEF CpuContinue, MatchOK, ChainOK
<1>3. CASE CpuMiss(w)
  BY <1>a, <1>b, <1>3 DEF CpuMiss, MatchOK, ChainOK
<1>4. CASE CpuMatch(w)
  <2>1. Genuine(match'[w])
    BY <1>4, MatchGenuine
  <2>2. pc'[w] = "announce" /\ w <= request'.cpu /\ ~(w > request'.cpu)
    BY <1>a, <1>b, <1>4 DEF CpuMatch, ChainOK
  <2>. QED  BY <2>1, <2>2 DEF MatchOK
<1>5. CASE CpuPublish(w)
  BY <1>a, <1>b, <1>5 DEF CpuPublish, MatchOK, ChainOK
<1>6. CASE CpuEndBatch(w)
  BY <1>a, <1>b, <1>6 DEF CpuEndBatch, MatchOK, ChainOK
<1>7. CASE CpuStop(w)
  BY <1>a, <1>b, <1>7 DEF CpuStop, MatchOK, ChainOK
<1>8. CASE CpuDrain(w)
  BY <1>a, <1>b, <1>8 DEF CpuDrain, MatchOK, ChainOK
<1>9. CASE GpuStart(w)
  BY <1>a, <1>b, <1>9 DEF GpuStart, MatchOK, ChainOK
<1>10. CASE GpuContinue(w) \/ GpuCompare(w)
  BY <1>a, <1>b, <1>10 DEF GpuContinue, GpuCompare, MatchOK, ChainOK
<1>11. CASE GpuMiss(w) \/ GpuLossyMiss(w)
  BY <1>a, <1>b, <1>11 DEF GpuMiss, GpuLossyMiss, LaunchDone, MatchOK, ChainOK
<1>12. CASE GpuMatch(w)
  <2>1. LaunchDone(w) /\ pc[w] = "dispatch" /\ scalar[w] \in Nat
        /\ scalar[w] >= ClampBase /\ scalar[w] % 8 = 0
        /\ scalar[w] + 8 * GpuBatchKeys < ChainLimit
    BY <1>a, <1>12, Sizes DEF GpuMatch, LaunchDone, ChainOK
  <2>2. PICK s \in LaunchHits(w) : match'[w] = Unnamed(s)
    BY <1>12 DEF GpuMatch
  <2>3. PICK i \in 0..(GpuBatchKeys - 1) : s = scalar[w] + 8 * i
    BY <2>1, <2>2, LaunchBlock
  <2>4. Hit(Mult(s))
    BY <2>1, <2>2, LaunchBlock
  <2>5. s \in ClampBase..(ChainLimit - 1)
    BY <2>1, <2>3, Sizes
  <2>6. s % 8 = 0
    BY <2>1, <2>3, Sizes, StepsKeepCofactor
  <2>7. pc'[w] = "announce" /\ ~(w <= request'.cpu) /\ w > request'.cpu
    BY <1>a, <1>b, <1>12, <2>1 DEF GpuMatch, LaunchDone, ChainOK
  <2>. QED  BY <2>2, <2>4, <2>5, <2>6, <2>7 DEF MatchOK
<1>13. CASE GpuPublish(w)
  <2>1. PICK s \in ClampBase..(ChainLimit - 1) :
          match[w] = Unnamed(s) /\ s % 8 = 0 /\ Hit(Mult(s))
    BY <1>a, <1>b, <1>13 DEF GpuPublish, MatchOK
  <2>2. Genuine(match'[w])
    BY <1>13, <2>1, GpuGenuine
  <2>. QED  BY <1>13, <2>2 DEF GpuPublish, MatchOK
<1>14. CASE GpuError(w)
  BY <1>a, <1>b, <1>14 DEF GpuError, MatchOK, ChainOK
<1>15. CASE GpuStop(w)
  BY <1>a, <1>b, <1>15 DEF GpuStop, MatchOK, ChainOK
<1>16. CASE Announce(w)
  BY <1>a, <1>b, <1>16 DEF Announce, MatchOK, ChainOK
<1>17. CASE RngPanic(w)
  BY <1>a, <1>b, <1>17 DEF RngPanic, MatchOK, ChainOK
<1>. QED
  BY <1>1, <1>2, <1>3, <1>4, <1>5, <1>6, <1>7, <1>8, <1>9, <1>10, <1>11,
     <1>12, <1>13, <1>14, <1>15, <1>16, <1>17 DEF ThreadStep, CpuStep,
     GpuStep

\* MatchesGenuine is preserved.
LEMMA MatchesGenuineStep ==
  TypeOK /\ HandleOK /\ ChainLockstep /\ MatchesGenuine /\ [Next]_vars
    => MatchesGenuine'
<1>. SUFFICES ASSUME TypeOK, HandleOK, ChainLockstep, MatchesGenuine,
                     [Next]_vars, NEW v \in Threads
              PROVE  MatchOK(v)'
  BY DEF MatchesGenuine
<1>a. MatchOK(v)
  BY DEF MatchesGenuine
<1>1. CASE OwnerStep \/ UNCHANGED vars
  BY <1>a, <1>1, OwnerFrame DEF MatchOK, IsCpu, IsGpu
<1>2. ASSUME NEW w \in Threads, ThreadStep(w) PROVE MatchOK(v)'
  <2>1. CASE v = w
    BY <1>2, <2>1, MatchStep
  <2>2. CASE v # w
    BY <1>a, <1>2, <2>2, ThreadFrame, ThreadActive
    DEF MatchOK, IsCpu, IsGpu, handleVars
  <2>. QED  BY <2>1, <2>2
<1>. QED  BY <1>1, <1>2 DEF Next, Terminated, BoundReached

\* Membership in Published.
LEMMA PublishedBy ==
  ASSUME NEW m
  PROVE  m \in Published <=>
           m # NoMatch /\ \E v \in Threads : pc[v] = "returned" /\ match[v] = m
BY DEF Published

\* A step that returns no match publishes nothing.
LEMMA PublishedFrame ==
  ASSUME TypeOK, NEW w \in Threads, ThreadStep(w),
         match'[w] = NoMatch \/ pc'[w] # "returned"
  PROVE  Published' = Published
<1>1. pc[w] # "returned"
  BY ThreadActive
<1>2. \A v \in Threads : v # w => pc'[v] = pc[v] /\ match'[v] = match[v]
  BY ThreadFrame
<1>3. \A m : m \in Published' <=> m \in Published
  BY <1>1, <1>2 DEF Published
<1>. QED  BY <1>3

\* A step that returns with a match adds it to the published ones.
LEMMA Publishes ==
  ASSUME TypeOK, NEW w \in Threads, ThreadStep(w),
         match'[w] # NoMatch, pc'[w] = "returned"
  PROVE  Published' = Published \cup {match'[w]}
<1>1. pc[w] # "returned"
  BY ThreadActive
<1>2. \A v \in Threads : v # w => pc'[v] = pc[v] /\ match'[v] = match[v]
  BY ThreadFrame
<1>3. \A m : m \in Published' <=> m \in Published \cup {match'[w]}
  BY <1>1, <1>2 DEF Published
<1>. QED  BY <1>3

\* The owner publishes nothing.
LEMMA OwnerPublished ==
  ASSUME TypeOK, HandleOK, OwnerStep \/ UNCHANGED vars
  PROVE  Published' = Published
         /\ \A w \in Threads : pc'[w] = "publish" <=> pc[w] = "publish"
<1>1. \A m : m \in Published' <=> m \in Published
  BY OwnerFrame DEF Published
<1>. QED  BY <1>1, OwnerFrame

\* What a step of a thread does to the shared cells, by what it publishes.
LEMMA ThreadResult ==
  ASSUME IInv, NEW w \in Threads, ThreadStep(w)
  PROVE  \/ /\ pc[w] = "publish" /\ pc'[w] = "returned"
            /\ Genuine(match'[w])
            /\ result' = match'[w] /\ Published' = Published \cup {match'[w]}
            /\ found' = found
         \/ /\ pc[w] # "publish" /\ result' = result /\ Published' = Published
            /\ \/ found' = TRUE /\ pc'[w] = "publish"
               \/ found' = found /\ pc'[w] # "publish"
<1>. USE DEF IInv, TypeOK, Goto, handleVars, chainVars, histories
<1>a. MatchOK(w) /\ ChainOK(w)
  BY DEF MatchesGenuine, ChainLockstep
<1>b. request.cpu \in Nat /\ w \in Nat
  BY RequestFacts DEF Threads
<1>1. CASE CpuPublish(w)
  <2>1. Genuine(match'[w])
    BY <1>a, <1>b, <1>1 DEF CpuPublish, MatchOK, IsCpu, IsGpu
  <2>2. Published' = Published \cup {match'[w]}
    BY <1>1, <2>1, GenuineIsMatch, Publishes DEF CpuPublish
  <2>. QED  BY <1>1, <2>1, <2>2 DEF CpuPublish
<1>2. CASE GpuPublish(w)
  <2>1. PICK s \in ClampBase..(ChainLimit - 1) :
          match[w] = Unnamed(s) /\ s % 8 = 0 /\ Hit(Mult(s))
    BY <1>a, <1>b, <1>2 DEF GpuPublish, MatchOK, IsCpu, IsGpu
  <2>2. Genuine(match'[w]) /\ result' = match'[w]
    BY <1>2, <2>1, GpuGenuine
  <2>3. Published' = Published \cup {match'[w]}
    BY <1>2, <2>2, GenuineIsMatch, Publishes DEF GpuPublish
  <2>. QED  BY <1>2, <2>2, <2>3 DEF GpuPublish
<1>3. CASE Announce(w)
  <2>1. Published' = Published
    BY <1>3, PublishedFrame DEF Announce
  <2>. QED  BY <1>3, <2>1 DEF Announce
<1>4. CASE CpuDrain(w) \/ GpuError(w) \/ GpuStop(w)
  <2>1. match'[w] = NoMatch
    BY <1>a, <1>4 DEF CpuDrain, GpuError, GpuStop, MatchOK
  <2>2. Published' = Published
    BY <2>1, PublishedFrame
  <2>. QED  BY <1>4, <2>2 DEF CpuDrain, GpuError, GpuStop
<1>5. CASE \/ CpuStart(w) \/ CpuContinue(w) \/ CpuMiss(w) \/ CpuMatch(w)
           \/ CpuEndBatch(w) \/ CpuStop(w)
  <2>1. pc'[w] \notin {"returned", "publish"} /\ pc[w] # "publish"
    BY <1>5 DEF CpuStart, CpuContinue, CpuMiss, CpuMatch, CpuEndBatch, CpuStop
  <2>2. Published' = Published
    BY <2>1, PublishedFrame
  <2>. QED  BY <1>5, <2>1, <2>2
       DEF CpuStart, CpuContinue, CpuMiss, CpuMatch, CpuEndBatch, CpuStop
<1>6. CASE \/ GpuStart(w) \/ GpuContinue(w) \/ GpuCompare(w)
           \/ GpuMiss(w) \/ GpuLossyMiss(w) \/ GpuMatch(w) \/ RngPanic(w)
  <2>1. pc'[w] \notin {"returned", "publish"} /\ pc[w] # "publish"
    BY <1>6 DEF GpuStart, GpuContinue, GpuCompare, GpuMiss, GpuLossyMiss, GpuMatch,
           LaunchDone, RngPanic
  <2>2. Published' = Published
    BY <2>1, PublishedFrame
  <2>. QED  BY <1>6, <2>1, <2>2
       DEF GpuStart, GpuContinue, GpuCompare, GpuMiss, GpuLossyMiss, GpuMatch,
           LaunchDone, RngPanic
<1>. QED
  BY <1>1, <1>2, <1>3, <1>4, <1>5, <1>6 DEF ThreadStep, CpuStep, GpuStep

\* What finish() returns, in terms of what was published.
LEMMA TakeResult ==
  ASSUME IInv, Take
  PROVE  /\ handle' = "done" /\ outcome'.answer = result
         /\ outcome'.ok = (Published # {})
         /\ Published # {} => result \in Published
         /\ Published = {} => result = NoMatch
<1>1. /\ handle # "done"
      /\ outcome' = [ok |-> result # NoMatch, answer |-> result,
                     attempts |-> attempts]
  BY DEF Take
<1>2. \A m \in Published : m # NoMatch
  BY DEF Published
<1>. QED  BY <1>1, <1>2 DEF IInv, ResultOK, Take

\* ResultOK is preserved.
LEMMA ResultOKStep == IInv /\ [Next]_vars => ResultOK'
<1>. SUFFICES ASSUME IInv, [Next]_vars PROVE ResultOK'
  OBVIOUS
<1>1. ASSUME NEW w \in Threads, ThreadStep(w) PROVE ResultOK'
  <2>1. handle # "done" /\ handle' # "done"
    BY <1>1, DoneIsQuiet, ThreadActive DEF IInv, handleVars
  <2>2. \A v \in Threads : v # w => pc'[v] = pc[v]
    BY <1>1, ThreadFrame DEF IInv
  <2>3. found \in BOOLEAN
    BY DEF IInv, TypeOK
  <2>4. CASE /\ pc[w] = "publish" /\ pc'[w] = "returned"
             /\ result' = match'[w] /\ Published' = Published \cup {match'[w]}
             /\ found' = found
    BY <2>1, <2>2, <2>3, <2>4 DEF IInv, ResultOK
  <2>5. CASE /\ pc[w] # "publish" /\ result' = result /\ Published' = Published
             /\ \/ found' = TRUE /\ pc'[w] = "publish"
                \/ found' = found /\ pc'[w] # "publish"
    BY <2>1, <2>2, <2>3, <2>5 DEF IInv, ResultOK
  <2>. QED  BY <1>1, <2>4, <2>5, ThreadResult
<1>2. CASE Take
  <2>1. Published' = Published /\ found' = found
        /\ \A w \in Threads : pc'[w] = "publish" <=> pc[w] = "publish"
    BY <1>2, OwnerFrame, OwnerPublished DEF IInv, OwnerStep, FinishStep
  <2>. QED  BY <1>2, <2>1, TakeResult DEF IInv, ResultOK
<1>3. CASE (OwnerStep /\ ~Take) \/ UNCHANGED vars
  <2>1. Published' = Published /\ found' = found
        /\ \A w \in Threads : pc'[w] = "publish" <=> pc[w] = "publish"
    BY <1>3, OwnerFrame, OwnerPublished DEF IInv
  <2>2. /\ result' = result /\ outcome' = outcome
        /\ handle' = "done" <=> handle = "done"
    BY <1>3 DEF OwnerStep, FinishStep, Spawn, Started, BeginFinish, Join,
                JoinPanics, vars, handleVars
  <2>. QED  BY <2>1, <2>2 DEF IInv, ResultOK
<1>. QED  BY <1>1, <1>2, <1>3 DEF Next, Terminated, BoundReached

\* `attempts` never decreases, and a step adds to it what it takes out of the
\* thread's local count, and what it moves the chain by.
LEMMA AttemptsGrow ==
  ASSUME TypeOK, [Next]_vars
  PROVE  attempts' \in Nat /\ attempts' >= attempts
<1>. USE DEF TypeOK, handleVars, chainVars, histories
<1>1. ASSUME NEW w \in Threads, CpuStep(w) PROVE attempts' \in Nat /\ attempts' >= attempts
  BY <1>1, Sizes DEF CpuStep, CpuStart, CpuContinue, CpuMiss, CpuMatch, CpuPublish,
     CpuEndBatch, CpuStop, CpuDrain, HitCount
<1>2. ASSUME NEW w \in Threads, GpuStep(w) PROVE attempts' \in Nat /\ attempts' >= attempts
  BY <1>2, Sizes DEF GpuStep, GpuStart, GpuContinue, GpuCompare, GpuMiss, GpuLossyMiss,
     GpuMatch, LaunchDone, GpuPublish, GpuError, GpuStop
<1>3. ASSUME NEW w \in Threads, Announce(w) \/ RngPanic(w)
      PROVE  attempts' \in Nat /\ attempts' >= attempts
  BY <1>3 DEF Announce, RngPanic
<1>4. CASE OwnerStep \/ UNCHANGED vars
  BY <1>4 DEF OwnerStep, FinishStep, Spawn, Started, BeginFinish, Join,
     JoinPanics, Take, vars
<1>. QED  BY <1>1, <1>2, <1>3, <1>4 DEF Next, ThreadStep, Terminated, BoundReached

\* A distance bounded by a count is bounded by a larger one.
LEMMA WiderRange ==
  ASSUME NEW a \in Nat, NEW b \in Nat, b >= a, NEW y, y \in 0..(8 * (a - 1))
  PROVE  y \in 0..(8 * (b - 1))
<1>1. y \in Int /\ 0 <= y /\ y <= 8 * (a - 1)
  OBVIOUS
<1>. QED  BY <1>1

\* A thread that leaves its chain, its match and its count alone keeps CountOK.
LEMMA CountFrame ==
  ASSUME TypeOK, [Next]_vars, NEW v \in Threads, CountOK(v),
         scalar'[v] = scalar[v], start'[v] = start[v],
         localCount'[v] = localCount[v], match'[v] = match[v],
         \/ pc'[v] \notin {"loop", "batch", "dispatch"}
         \/ pc[v] \in {"loop", "batch", "dispatch"}
  PROVE  CountOK(v)'
<1>1. attempts \in Nat /\ attempts' \in Nat /\ attempts' >= attempts
  BY AttemptsGrow DEF TypeOK
<1>2. localCount[v] \in Nat /\ scalar[v] \in Nat /\ start[v] \in Nat
  BY StartsClamped, Sizes DEF TypeOK
<1>. DEFINE x == scalar[v] - start[v]
            y == match[v].private - start[v]
<1>. HIDE DEF x, y
<1>3. x \in 0..(8 * (attempts + localCount[v]))
        => x \in 0..(8 * (attempts' + localCount[v]))
  BY <1>1, <1>2
<1>4. y \in 0..(8 * (attempts - 1)) => y \in 0..(8 * (attempts' - 1))
  BY <1>1, WiderRange
<1>. QED  BY <1>3, <1>4 DEF CountOK, x, y

\* The thread that steps counts what it walks.
LEMMA CountStep ==
  ASSUME TypeOK, ChainLockstep, MatchesGenuine, CountsCover,
         NEW w \in Threads, ThreadStep(w), [Next]_vars
  PROVE  CountOK(w)'
<1>. USE DEF TypeOK, Goto, handleVars, chainVars, histories
<1>a. CountOK(w) /\ ChainOK(w) /\ MatchOK(w)
  BY DEF CountsCover, ChainLockstep, MatchesGenuine
<1>b. /\ attempts \in Nat /\ localCount[w] \in Nat /\ scalar[w] \in Nat
      /\ start[w] \in Nat /\ idx[w] \in Nat
  BY StartsClamped, Sizes
<1>1. CASE CpuStart(w) \/ GpuStart(w)
  <2>1. match'[w] = NoMatch
    BY <1>a, <1>1 DEF CpuStart, GpuStart, MatchOK
  <2>2. /\ scalar'[w] = start'[w] /\ start'[w] \in Starts
        /\ localCount'[w] \in Nat /\ attempts' = attempts
    BY <1>1, <1>b DEF CpuStart, GpuStart, Starts
  <2>3. start'[w] \in Int
    BY <2>2, StartsClamped, Sizes
  <2>4. start'[w] - start'[w] \in 0..(8 * (attempts' + localCount'[w]))
    BY <1>b, <2>2, <2>3
  <2>. QED  BY <2>1, <2>2, <2>4 DEF CountOK
<1>2. CASE CpuMatch(w)
  <2>1. /\ pc[w] = "batch" /\ idx[w] < ChainBatch /\ pc'[w] = "announce"
        /\ scalar[w] + 8 * ChainBatch < ChainLimit /\ start[w] \in Starts
    BY <1>a, <1>2 DEF CpuMatch, ChainOK, CountOK
  <2>2. match'[w].private = scalar[w] + 8 * idx[w]
    <3>1. scalar[w] + 8 * idx[w] \in 0..(ScalarMod - 1)
      BY <1>b, <2>1, Sizes
    <3>. QED  BY <3>1, <1>2, NoWrap DEF CpuMatch, MatchScalar, advance_scalar
  <2>3. /\ attempts' = attempts + localCount[w] + idx[w] + 1
        /\ UNCHANGED <<scalar, start, localCount>>
    BY <1>2, <1>b DEF CpuMatch, HitCount
  <2>4. scalar[w] - start[w] \in 0..(8 * (attempts + localCount[w]))
    BY <1>a DEF CountOK
  <2>5. scalar[w] - start[w] \in 0..(8 * (attempts' + localCount[w]))
    BY <1>b, <2>3, <2>4
  <2>6. (scalar[w] + 8 * idx[w]) - start[w] \in 0..(8 * (attempts' - 1))
    BY <1>b, <2>3, <2>4
  <2>. QED  BY <2>1, <2>2, <2>3, <2>5, <2>6 DEF CountOK
<1>3. CASE CpuEndBatch(w)
  <2>1. /\ pc[w] = "batch" /\ scalar[w] + 8 * ChainBatch < ChainLimit
        /\ start[w] \in Starts /\ match[w] = NoMatch
    BY <1>a, <1>3 DEF CpuEndBatch, ChainOK, CountOK, MatchOK
  <2>2. scalar'[w] = scalar[w] + 8 * ChainBatch
    <3>1. scalar[w] + 8 * ChainBatch \in 0..(ScalarMod - 1)
      BY <1>b, <2>1, Sizes
    <3>. QED  BY <3>1, <1>3, NoWrap DEF CpuEndBatch, advance_scalar
  <2>3. /\ attempts' + localCount'[w] = attempts + localCount[w] + ChainBatch
        /\ UNCHANGED <<start, match>>
    BY <1>3, <1>b, Sizes DEF CpuEndBatch
  <2>4. scalar[w] - start[w] \in 0..(8 * (attempts + localCount[w]))
    BY <1>a DEF CountOK
  <2>5. (scalar[w] + 8 * ChainBatch) - start[w]
          \in 0..(8 * (attempts' + localCount'[w]))
    BY <1>b, <2>3, <2>4, Sizes
  <2>. QED  BY <2>1, <2>2, <2>3, <2>5 DEF CountOK
<1>4. CASE CpuDrain(w)
  <2>1. /\ attempts' + localCount'[w] = attempts + localCount[w]
        /\ UNCHANGED <<scalar, start, match>> /\ match[w] = NoMatch
        /\ pc'[w] = "returned"
    BY <1>a, <1>4, <1>b DEF CpuDrain, MatchOK
  <2>. QED  BY <1>a, <2>1 DEF CountOK
<1>5. CASE GpuMiss(w) \/ GpuLossyMiss(w) \/ GpuMatch(w)
  <2>1. /\ LaunchDone(w) /\ pc[w] = "dispatch" /\ start[w] \in Starts
        /\ match[w] = NoMatch
    BY <1>a, <1>5 DEF GpuMiss, GpuLossyMiss, GpuMatch, LaunchDone, CountOK, MatchOK
  <2>2. scalar'[w] = scalar[w] + 8 * GpuBatchKeys
    BY <2>1, LaunchAdvances
  <2>3. attempts' = attempts + GpuBatchKeys /\ UNCHANGED <<start, localCount>>
    BY <2>1 DEF LaunchDone
  <2>4. scalar[w] - start[w] \in 0..(8 * (attempts + localCount[w]))
    BY <1>a DEF CountOK
  <2>5. (scalar[w] + 8 * GpuBatchKeys) - start[w]
          \in 0..(8 * (attempts' + localCount[w]))
    BY <1>b, <2>3, <2>4, Sizes
  <2>6. match'[w] # NoMatch => match'[w].private - start[w] \in 0..(8 * (attempts' - 1))
    <3>1. CASE GpuMiss(w) \/ GpuLossyMiss(w)
      BY <2>1, <3>1 DEF GpuMiss, GpuLossyMiss
    <3>2. CASE GpuMatch(w)
      <4>1. localCount[w] = 0
        BY <1>a, <2>1 DEF ChainOK
      <4>2. PICK s \in LaunchHits(w) : match'[w] = Unnamed(s)
        BY <3>2 DEF GpuMatch
      <4>3. PICK i \in 0..(GpuBatchKeys - 1) : s = scalar[w] + 8 * i
        BY <2>1, <4>2, LaunchBlock
      <4>4. match'[w].private = scalar[w] + 8 * i
        BY <4>2, <4>3 DEF Unnamed
      <4>5. i \in Nat /\ i <= GpuBatchKeys - 1
        BY Sizes
      <4>6. (scalar[w] + 8 * i) - start[w] \in 0..(8 * (attempts' - 1))
        BY <1>b, <2>3, <2>4, <4>1, <4>5, Sizes
      <4>. QED  BY <4>4, <4>6
    <3>. QED  BY <1>5, <3>1, <3>2
  <2>. QED  BY <2>1, <2>2, <2>3, <2>5, <2>6 DEF CountOK
<1>6. CASE GpuPublish(w)
  <2>1. match[w] # NoMatch
    <3>1. \E s \in ClampBase..(ChainLimit - 1) : match[w] = Unnamed(s)
      BY <1>a, <1>6, RequestFacts DEF GpuPublish, MatchOK, IsCpu, IsGpu, Threads
    <3>. QED  BY <3>1, ScalarAssumption DEF Unnamed, NoMatch
  <2>2. /\ match'[w].private = match[w].private /\ pc'[w] = "returned"
        /\ UNCHANGED <<attempts, scalar, start, localCount>>
    <3>1. \E s \in ClampBase..(ChainLimit - 1) : match[w] = Unnamed(s)
      BY <1>a, <1>6, RequestFacts DEF GpuPublish, MatchOK, IsCpu, IsGpu, Threads
    <3>. QED  BY <1>6, <3>1 DEF GpuPublish, Unnamed
  <2>. QED  BY <1>a, <2>1, <2>2 DEF CountOK
<1>7. CASE \/ CpuContinue(w) \/ CpuMiss(w) \/ CpuPublish(w) \/ CpuStop(w)
           \/ GpuContinue(w) \/ GpuCompare(w) \/ GpuError(w) \/ GpuStop(w)
           \/ Announce(w) \/ RngPanic(w)
  BY <1>a, <1>7, CountFrame
  DEF CpuContinue, CpuMiss, CpuPublish, CpuStop, GpuContinue, GpuCompare, GpuError,
      GpuStop, Announce, RngPanic
<1>. QED
  BY <1>1, <1>2, <1>3, <1>4, <1>5, <1>6, <1>7 DEF ThreadStep, CpuStep, GpuStep

\* CountsCover is preserved.
LEMMA CountsCoverStep ==
  TypeOK /\ HandleOK /\ ChainLockstep /\ MatchesGenuine /\ CountsCover /\ [Next]_vars
    => CountsCover'
<1>. SUFFICES ASSUME TypeOK, HandleOK, ChainLockstep, MatchesGenuine, CountsCover,
                     [Next]_vars, NEW v \in Threads
              PROVE  CountOK(v)'
  BY DEF CountsCover
<1>a. CountOK(v)
  BY DEF CountsCover
<1>1. CASE OwnerStep \/ UNCHANGED vars
  BY <1>a, <1>1, OwnerFrame, CountFrame DEF chainVars
<1>2. ASSUME NEW w \in Threads, ThreadStep(w) PROVE CountOK(v)'
  <2>1. CASE v = w
    BY <1>2, <2>1, CountStep
  <2>2. CASE v # w
    BY <1>a, <1>2, <2>2, ThreadFrame, CountFrame
  <2>. QED  BY <2>1, <2>2
<1>. QED  BY <1>1, <1>2 DEF Next, Terminated, BoundReached

\* A multiple of 8 below a + 8 * (n + 1), and not below a + 8 * n, is a + 8 * n.
LEMMA NextCandidate ==
  ASSUME NEW a \in Nat, NEW n \in Nat, a % 8 = 0,
         NEW s \in Nat, s % 8 = 0, a + 8 * n <= s, s < a + 8 * (n + 1)
  PROVE  s = a + 8 * n
OBVIOUS

\* The candidates of a block of n from a on.
LEMMA BlockCandidates ==
  ASSUME NEW a \in Nat, NEW n \in Nat, a % 8 = 0,
         NEW s \in Nat, s % 8 = 0, a <= s, s < a + 8 * n
  PROVE  \E i \in 0..(n - 1) : s = a + 8 * i
<1>. DEFINE i == (s - a) \div 8
<1>1. s = a + 8 * i /\ i \in Int
  OBVIOUS
<1>2. i \in 0..(n - 1)
  BY <1>1
<1>. QED  BY <1>1, <1>2

\* No hit behind one thread.
LEMMA OverlookedStep ==
  ASSUME TypeOK, ChainLockstep, MatchesGenuine, NothingOverlooked,
         NEW w \in Threads, ThreadStep(w),
         IsCpu(w)' \/ (~request'.metal /\ match'[w] = NoMatch),
         NEW s \in Behind(w)'
  PROVE  ~Hit(Mult(s))
<1>. USE DEF TypeOK, Goto, handleVars, chainVars, histories
<1>a. ChainOK(w) /\ MatchOK(w)
  BY DEF ChainLockstep, MatchesGenuine
<1>b. /\ scalar[w] \in Nat /\ start[w] \in Nat /\ idx[w] \in Nat
      /\ request.cpu \in Nat /\ w \in Nat
  <2>1. scalar[w] \in Nat /\ start[w] \in Nat /\ idx[w] \in Nat
    BY StartsClamped, Sizes
  <2>2. request.cpu \in Nat /\ w \in Nat
    BY RequestFacts DEF Threads
  <2>. QED  BY <2>1, <2>2
<1>c. request' = request
  BY ThreadActive
<1>d. s \in Int /\ s % 8 = 0
  <2>1. s \in start'[w]..(scalar'[w] + 8 * idx'[w] - 1) /\ s % 8 = 0
    BY DEF Behind
  <2>. QED  BY <2>1
<1>1. CASE CpuStart(w) \/ GpuStart(w)
  <2>1. /\ scalar'[w] = start'[w] /\ start'[w] \in Starts /\ idx'[w] = 0
    BY <1>a, <1>1 DEF CpuStart, GpuStart, Starts, ChainOK
  <2>2. start'[w] \in Nat
    BY <2>1, StartsClamped, Sizes
  <2>3. Behind(w)' = {}
    <3>1. scalar'[w] + 8 * idx'[w] - 1 < start'[w]
      BY <2>1, <2>2
    <3>. QED  BY <2>1, <2>2, <3>1 DEF Behind
  <2>. QED  BY <2>3
<1>2. CASE CpuMiss(w)
  <2>1. /\ pc[w] = "batch" /\ ~Hit(nextPoint[w]) /\ idx'[w] = idx[w] + 1
        /\ UNCHANGED <<scalar, start, match>>
    BY <1>2 DEF CpuMiss
  <2>2. IsCpu(w) /\ nextPoint[w] = Mult(scalar[w] + 8 * idx[w]) /\ scalar[w] % 8 = 0
    BY <1>a, <2>1 DEF ChainOK
  <2>3. CASE s < scalar[w] + 8 * idx[w]
    <3>1. s \in Behind(w)
      BY <1>b, <2>1, <2>3 DEF Behind
    <3>. QED  BY <2>2, <3>1 DEF NothingOverlooked
  <2>4. CASE ~(s < scalar[w] + 8 * idx[w])
    <3>1. s < scalar[w] + 8 * (idx[w] + 1)
      BY <1>b, <2>1 DEF Behind
    <3>2. s = scalar[w] + 8 * idx[w]
      BY <1>b, <1>d, <2>2, <2>4, <3>1, NextCandidate
    <3>. QED  BY <2>1, <2>2, <3>2
  <2>. QED  BY <2>3, <2>4
<1>3. CASE CpuEndBatch(w)
  <2>1. /\ pc[w] = "batch" /\ idx[w] = ChainBatch /\ idx'[w] = 0
        /\ UNCHANGED start
    BY <1>3 DEF CpuEndBatch
  <2>2. IsCpu(w) /\ scalar[w] + 8 * ChainBatch < ChainLimit
    BY <1>a, <2>1 DEF ChainOK
  <2>3. scalar'[w] = scalar[w] + 8 * ChainBatch
    <3>1. scalar[w] + 8 * ChainBatch \in 0..(ScalarMod - 1)
      BY <1>b, <2>2, Sizes
    <3>. QED  BY <3>1, <1>3, NoWrap DEF CpuEndBatch, advance_scalar
  <2>4. s \in Behind(w)
    BY <1>b, <2>1, <2>3, Sizes DEF Behind
  <2>. QED  BY <2>2, <2>4 DEF NothingOverlooked
<1>4. CASE GpuMiss(w) \/ GpuLossyMiss(w) \/ GpuMatch(w)
  <2>1. LaunchDone(w) /\ pc[w] = "dispatch" /\ match[w] = NoMatch
    BY <1>a, <1>4 DEF GpuMiss, GpuLossyMiss, GpuMatch, LaunchDone, MatchOK
  <2>2. IsGpu(w) /\ ~IsCpu(w) /\ scalar[w] % 8 = 0 /\ idx[w] = 0
    BY <1>a, <1>b, <2>1 DEF ChainOK, IsCpu, IsGpu
  <2>3. ~request.metal /\ match'[w] = NoMatch
    BY <1>c, <2>2 DEF IsCpu
  <2>4. GpuMiss(w)
    <3>1. ASSUME GpuMatch(w) PROVE FALSE
      <4>1. \E t \in LaunchHits(w) : match'[w] = Unnamed(t)
        BY <3>1 DEF GpuMatch
      <4>2. PICK t \in LaunchHits(w) : match'[w] = Unnamed(t)
        BY <4>1
      <4>3. PICK i \in 0..(GpuBatchKeys - 1) : t = scalar[w] + 8 * i
        BY <2>1, <4>2, LaunchBlock
      <4>4. t \in Nat
        BY <1>b, <4>3, Sizes
      <4>. QED  BY <2>3, <4>2, <4>4 DEF Unnamed, NoMatch
    <3>. QED  BY <1>4, <2>3, <3>1 DEF GpuLossyMiss
  <2>5. scalar'[w] = scalar[w] + 8 * GpuBatchKeys /\ UNCHANGED <<start, idx>>
    BY <2>1, LaunchAdvances DEF LaunchDone
  <2>6. CASE s < scalar[w]
    <3>1. s \in Behind(w)
      BY <1>b, <2>2, <2>5, <2>6 DEF Behind
    <3>. QED  BY <2>1, <2>3, <3>1 DEF NothingOverlooked
  <2>7. CASE ~(s < scalar[w])
    <3>1. s < scalar[w] + 8 * GpuBatchKeys
      BY <1>b, <2>2, <2>5, Sizes DEF Behind
    <3>2. \E i \in 0..(GpuBatchKeys - 1) : s = scalar[w] + 8 * i
      <4>1. s \in Nat /\ scalar[w] <= s
        BY <1>b, <1>d, <2>7
      <4>2. GpuBatchKeys \in Nat
        BY Sizes
      <4>. DEFINE a == scalar[w]
      <4>3. /\ a \in Nat /\ a % 8 = 0 /\ s % 8 = 0
            /\ a <= s /\ s < a + 8 * GpuBatchKeys
        BY <1>b, <1>d, <2>2, <3>1, <4>1
      <4>. HIDE DEF a
      <4>4. \E i \in 0..(GpuBatchKeys - 1) : s = a + 8 * i
        BY <4>1, <4>2, <4>3, BlockCandidates, Zenon
      <4>. QED  BY <4>4 DEF a
    <3>3. s \notin LaunchHits(w)
      BY <2>4 DEF GpuMiss
    <3>. QED  BY <2>1, <3>2, <3>3, LaunchBlock
  <2>. QED  BY <2>6, <2>7
<1>5. CASE CpuContinue(w)
  <2>1. idx[w] = 0 /\ idx'[w] = 0 /\ IsCpu(w) /\ UNCHANGED <<scalar, start>>
    BY <1>a, <1>5 DEF CpuContinue, ChainOK
  <2>2. s \in Behind(w)
    BY <2>1 DEF Behind
  <2>. QED  BY <2>1, <2>2 DEF NothingOverlooked
<1>6. CASE \/ CpuMatch(w) \/ CpuPublish(w) \/ CpuStop(w) \/ CpuDrain(w)
           \/ GpuContinue(w) \/ GpuCompare(w) \/ GpuPublish(w) \/ GpuError(w)
           \/ GpuStop(w) \/ Announce(w) \/ RngPanic(w)
  <2>1. UNCHANGED <<scalar, start, idx>>
    BY <1>6 DEF CpuMatch, CpuPublish, CpuStop, CpuDrain, GpuContinue, GpuCompare,
       GpuPublish, GpuError, GpuStop, Announce, RngPanic
  <2>2. s \in Behind(w)
    BY <2>1 DEF Behind
  <2>3. IsCpu(w) \/ (~request.metal /\ match[w] = NoMatch)
    <3>1. CASE CpuMatch(w)
      BY <1>a, <3>1 DEF CpuMatch, ChainOK
    <3>2. CASE CpuPublish(w)
      BY <3>2 DEF CpuPublish
    <3>3. CASE GpuPublish(w)
      <4>1. pc'[w] = "returned" /\ match'[w].private = match[w].private
            /\ \E t \in ClampBase..(ChainLimit - 1) : match[w] = Unnamed(t)
        BY <1>a, <1>b, <3>3 DEF GpuPublish, MatchOK, IsCpu, IsGpu, Unnamed
      <4>2. match'[w] # NoMatch
        BY <4>1, ScalarAssumption DEF Unnamed, NoMatch
      <4>3. IsCpu(w)'
        BY <4>2
      <4>. QED  BY <1>c, <4>3 DEF IsCpu
    <3>4. CASE \/ CpuStop(w) \/ CpuDrain(w) \/ GpuContinue(w) \/ GpuCompare(w)
               \/ GpuError(w) \/ GpuStop(w) \/ Announce(w) \/ RngPanic(w)
      <4>1. match' = match
        BY <3>4 DEF CpuStop, CpuDrain, GpuContinue, GpuCompare, GpuError, GpuStop,
           Announce, RngPanic
      <4>. QED  BY <1>c, <4>1 DEF IsCpu
    <3>. QED  BY <1>6, <3>1, <3>2, <3>3, <3>4
  <2>. QED  BY <2>2, <2>3 DEF NothingOverlooked
<1>. QED
  BY <1>1, <1>2, <1>3, <1>4, <1>5, <1>6 DEF ThreadStep, CpuStep, GpuStep

\* NothingOverlooked is preserved.
LEMMA NothingOverlookedStep ==
  TypeOK /\ HandleOK /\ ChainLockstep /\ MatchesGenuine /\ NothingOverlooked /\ [Next]_vars
    => NothingOverlooked'
<1>. SUFFICES ASSUME TypeOK, HandleOK, ChainLockstep, MatchesGenuine, NothingOverlooked,
                     [Next]_vars, NEW v \in Threads,
                     IsCpu(v)' \/ (~request'.metal /\ match'[v] = NoMatch),
                     NEW s \in Behind(v)'
              PROVE  ~Hit(Mult(s))
  BY DEF NothingOverlooked
<1>1. CASE OwnerStep \/ UNCHANGED vars
  <2>1. s \in Behind(v) /\ (IsCpu(v) \/ (~request.metal /\ match[v] = NoMatch))
    BY <1>1, OwnerFrame DEF Behind, IsCpu, chainVars
  <2>. QED  BY <2>1 DEF NothingOverlooked
<1>2. ASSUME NEW w \in Threads, ThreadStep(w) PROVE ~Hit(Mult(s))
  <2>1. CASE v = w
    BY <1>2, <2>1, OverlookedStep
  <2>2. CASE v # w
    <3>1. s \in Behind(v) /\ (IsCpu(v) \/ (~request.metal /\ match[v] = NoMatch))
      BY <1>2, <2>2, ThreadFrame, ThreadActive DEF Behind, IsCpu, handleVars
    <3>. QED  BY <3>1 DEF NothingOverlooked
  <2>. QED  BY <2>1, <2>2
<1>. QED  BY <1>1, <1>2 DEF Next, Terminated, BoundReached

(***************************************************************************)
(* 4. The count of attempts.                                               *)
(***************************************************************************)

\* The state of one counter: whole batches below the flush threshold.
LEMMA FlushOKStep ==
  ASSUME TypeOK, ChainLockstep, \A v \in Threads : FlushOK(v), [Next]_vars,
         HandleOK, NEW v \in Threads
  PROVE  FlushOK(v)'
<1>1. CASE OwnerStep \/ UNCHANGED vars
  <2>1. /\ localCount' = localCount /\ idx' = idx
        /\ pc'[v] = pc[v] \/ (pc[v] = "unspawned" /\ pc'[v] = "spawned")
    BY <1>1, OwnerFrame DEF chainVars
  <2>. QED  BY <2>1 DEF FlushOK
<1>2. ASSUME NEW w \in Threads, ThreadStep(w), v # w PROVE FlushOK(v)'
  BY <1>2, ThreadFrame DEF FlushOK
<1>3. ASSUME ThreadStep(v) PROVE FlushOK(v)'
  <2>. USE DEF TypeOK, Goto, chainVars, histories
  <2>a. ChainOK(v) /\ FlushOK(v)
    BY DEF ChainLockstep
  <2>b. /\ localCount[v] \in Nat /\ idx[v] \in 0..ChainBatch
        /\ ChainBatch \in Nat /\ ChainBatch > 0 /\ BatchSize \in Nat
    BY Sizes
  <2>c. BatchSize % ChainBatch = 0 /\ BatchSize > 0
    BY SizesAssumption
  <2>d. 0 % ChainBatch = 0
    BY <2>b
  <2>e. /\ localCount[v] \in Nat /\ BatchSize \in Nat
        /\ ChainBatch \in Int /\ ChainBatch > 0
    BY <2>b
  <2>1. CASE CpuStart(v)
    <3>1. localCount'[v] = 0 /\ pc'[v] = "loop"
      BY <2>1 DEF CpuStart
    <3>. QED  BY <2>c, <2>d, <3>1 DEF FlushOK
  <2>2. CASE CpuContinue(v) \/ CpuMiss(v)
    <3>1. /\ localCount'[v] = localCount[v] /\ pc'[v] = "batch"
          /\ pc[v] \in {"loop", "batch"}
      BY <2>2 DEF CpuContinue, CpuMiss
    <3>. QED  BY <2>a, <3>1 DEF FlushOK
  <2>3. CASE CpuEndBatch(v)
    <3>. DEFINE count == localCount[v] + ChainBatch
    <3>1. /\ pc[v] = "batch" /\ pc'[v] = "loop"
          /\ localCount'[v] = IF count >= BatchSize THEN 0 ELSE count
      BY <2>3 DEF CpuEndBatch, FlushDue
    <3>2. localCount[v] < BatchSize /\ localCount[v] % ChainBatch = 0
      BY <2>a, <3>1 DEF FlushOK
    <3>3. count % ChainBatch = 0 /\ count \in Nat
      <4>1. count % ChainBatch = 0
        BY <2>c, <2>e, <3>2, RoomForABatch, Zenon
      <4>. QED  BY <2>b, <4>1
    <3>. HIDE DEF count
    <3>4. localCount'[v] < BatchSize /\ localCount'[v] % ChainBatch = 0
      BY <2>b, <2>c, <2>d, <3>1, <3>3
    <3>. QED  BY <3>1, <3>4 DEF FlushOK
  <2>4. CASE CpuStop(v)
    <3>1. /\ pc[v] = "loop" /\ pc'[v] = "drain" /\ localCount'[v] = localCount[v]
          /\ idx'[v] = idx[v] /\ idx[v] = 0
      BY <2>a, <2>4 DEF CpuStop, ChainOK
    <3>2. localCount[v] + idx[v] <= BatchSize
      BY <2>a, <2>b, <3>1 DEF FlushOK
    <3>. QED  BY <2>a, <3>1, <3>2 DEF FlushOK
  <2>5. CASE RngPanic(v)
    <3>1. /\ pc'[v] = "panicked" /\ localCount'[v] = localCount[v] /\ idx'[v] = idx[v]
          /\ pc[v] \in {"spawned", "batch", "dispatch"}
      BY <2>5 DEF RngPanic
    <3>2. localCount[v] + idx[v] <= BatchSize
      <4>1. CASE pc[v] = "batch"
        <5>1. localCount[v] < BatchSize /\ localCount[v] % ChainBatch = 0
          BY <2>a, <4>1, Zenon DEF FlushOK
        <5>2. localCount[v] + ChainBatch <= BatchSize
          BY <2>c, <2>e, <5>1, RoomForABatch, Zenon
        <5>. QED  BY <2>b, <5>2
      <4>2. CASE pc[v] \in {"spawned", "dispatch"}
        <5>1. localCount[v] = 0 /\ idx[v] = 0
          BY <2>a, <4>2 DEF FlushOK, ChainOK
        <5>. QED  BY <2>b, <2>c, <5>1
      <4>. QED  BY <3>1, <4>1, <4>2
    <3>. QED  BY <3>1, <3>2 DEF FlushOK
  <2>6. CASE \/ CpuMatch(v) \/ CpuPublish(v) \/ CpuDrain(v) \/ GpuContinue(v) \/ GpuPublish(v)
             \/ GpuError(v) \/ GpuStop(v) \/ Announce(v) \/ GpuMatch(v) \/ GpuCompare(v)
    <3>1. pc'[v] \in {"announce", "publish", "returned", "dispatch"}
      BY <2>6 DEF CpuMatch, CpuPublish, CpuDrain, GpuContinue, GpuPublish, GpuError, GpuStop,
         Announce, GpuMatch, GpuCompare
    <3>. QED  BY <3>1 DEF FlushOK
  <2>7. CASE GpuStart(v) \/ GpuMiss(v) \/ GpuLossyMiss(v)
    <3>1. pc'[v] = "loop" /\ localCount'[v] = localCount[v] /\ IsGpu(v)
      BY <2>a, <2>7 DEF GpuStart, GpuMiss, GpuLossyMiss, LaunchDone, ChainOK
    <3>2. localCount[v] = 0
      BY <2>a, <3>1 DEF ChainOK
    <3>. QED  BY <2>c, <2>d, <3>1, <3>2 DEF FlushOK
  <2>. QED
    BY <1>3, <2>1, <2>2, <2>3, <2>4, <2>5, <2>6, <2>7 DEF ThreadStep, CpuStep, GpuStep
<1>. QED  BY <1>1, <1>2, <1>3 DEF Next, Terminated, BoundReached

\* Only a launch in flight, or one that failed, is not counted.
LEMMA LaunchOKStep ==
  ASSUME TypeOK, TypeOK', HandleOK, ChainLockstep, \A v \in Threads : LaunchOK(v),
         [Next]_vars, NEW v \in Threads
  PROVE  LaunchOK(v)'
<1>a. LaunchOK(v) /\ ChainOK(v)
  BY DEF ChainLockstep
<1>1. CASE OwnerStep \/ UNCHANGED vars
  <2>1. /\ request' = request
        /\ pc'[v] = pc[v] \/ (pc[v] = "unspawned" /\ pc'[v] = "spawned")
    BY <1>1, OwnerFrame
  <2>2. uncounted' = uncounted
    BY <1>1 DEF OwnerStep, FinishStep, Spawn, Started, BeginFinish, Join, JoinPanics,
                Take, vars, histories
  <2>. QED  BY <1>a, <2>1, <2>2 DEF LaunchOK, IsGpu
<1>2. ASSUME NEW w \in Threads, ThreadStep(w), v # w PROVE LaunchOK(v)'
  BY <1>a, <1>2, ThreadFrame, TestedFrame, ThreadActive DEF LaunchOK, IsGpu, handleVars
<1>3. ASSUME ThreadStep(v) PROVE LaunchOK(v)'
  <2>. USE DEF TypeOK, Goto, handleVars, chainVars, histories
  <2>1. request' = request
    BY <1>3, ThreadActive
  <2>2. CASE CpuStep(v) \/ Announce(v)
    <3>1. uncounted' = uncounted
      BY <2>2 DEF CpuStep, CpuStart, CpuContinue, CpuMiss, CpuMatch, CpuPublish,
                  CpuEndBatch, CpuStop, CpuDrain, Announce
    <3>2. pc[v] \notin {"dispatch", "returned", "panicked"}
      BY <2>2 DEF CpuStep, CpuStart, CpuContinue, CpuMiss, CpuMatch, CpuPublish,
                  CpuEndBatch, CpuStop, CpuDrain, Announce
    <3>. QED  BY <1>a, <3>1, <3>2 DEF LaunchOK
  <2>3. CASE GpuMiss(v) \/ GpuLossyMiss(v) \/ GpuMatch(v)
    <3>1. uncounted'[v] = 0
      BY <2>3 DEF GpuMiss, GpuLossyMiss, GpuMatch, LaunchDone
    <3>. QED  BY <3>1 DEF LaunchOK
  <2>4. CASE GpuCompare(v)
    <3>1. pc[v] = "dispatch" /\ pc'[v] = "dispatch"
      BY <2>4 DEF GpuCompare
    <3>. QED  BY <1>a, <2>1, <3>1 DEF LaunchOK, ChainOK, IsGpu
  <2>5. CASE GpuStart(v) \/ GpuContinue(v) \/ GpuPublish(v) \/ GpuStop(v)
    <3>1. uncounted' = uncounted /\ pc[v] \in {"spawned", "loop", "publish"}
      BY <2>5 DEF GpuStart, GpuContinue, GpuPublish, GpuStop
    <3>. QED  BY <1>a, <3>1 DEF LaunchOK
  <2>6. CASE GpuError(v) \/ RngPanic(v)
    <3>1. uncounted' = uncounted /\ pc'[v] \in {"returned", "panicked"}
      BY <2>6 DEF GpuError, RngPanic
    <3>. QED  BY <1>a, <2>1, <3>1 DEF LaunchOK, IsGpu
  <2>. QED  BY <1>3, <2>2, <2>3, <2>4, <2>5, <2>6 DEF ThreadStep, GpuStep
<1>. QED  BY <1>1, <1>2, <1>3 DEF Next, Terminated, BoundReached

\* The three counts that are kept per thread.
LEMMA CountTypes ==
  ASSUME TypeOK
  PROVE  /\ tested \in [Threads -> Nat] /\ Unflushed \in [Threads -> Nat]
         /\ Overcount \in [Threads -> Nat]
<1>1. localCount \in [Threads -> Nat] /\ idx \in [Threads -> 0..ChainBatch] /\ ChainBatch \in Nat
  BY Sizes DEF TypeOK
<1>2. \A w \in Threads : localCount[w] + idx[w] \in Nat
  BY <1>1
<1>3. GpuBatchKeys - 1 \in Nat /\ \A w \in Threads : uncounted[w] \in Nat
  BY Sizes DEF TypeOK
<1>4. Unflushed \in [Threads -> Nat]
  <2>1. \A w \in Threads : Unflushed[w] \in Nat
    BY <1>2, <1>3 DEF Unflushed
  <2>. QED  BY <2>1 DEF Unflushed
<1>. QED  BY <1>3, <1>4 DEF TypeOK, Overcount

\* Sums over the threads.
LEMMA ThreadSums ==
  ASSUME NEW f \in [Threads -> Nat], NEW g \in [Threads -> Nat], NEW w \in Threads,
         \A v \in Threads : v # w => g[v] = f[v]
  PROVE  /\ SumUpTo(f, MaxThreads) \in Int /\ f[w] \in Nat /\ g[w] \in Nat
         /\ SumUpTo(g, MaxThreads) = SumUpTo(f, MaxThreads) + g[w] - f[w]
<1>1. MaxThreads \in Nat /\ f \in [1..MaxThreads -> Int] /\ g \in [1..MaxThreads -> Int]
  BY SizesAssumption DEF Threads
<1>2. w \in 1..MaxThreads /\ \A v \in 1..MaxThreads : v # w => g[v] = f[v]
  BY Zenon DEF Threads
<1>3. SumUpTo(g, MaxThreads) = SumUpTo(f, MaxThreads) + g[w] - f[w]
  BY <1>1, <1>2, SumUpdate, Zenon
<1>4. SumUpTo(f, MaxThreads) \in Int
  BY <1>1, SumInt, Zenon
<1>5. f[w] \in Nat /\ g[w] \in Nat
  OBVIOUS
<1>. QED  BY <1>3, <1>4, <1>5

\* What one thread's step adds to `attempts`, with what it keeps, is what it has
\* tested; a launch may claim more, once.
LEMMA StepCounts ==
  ASSUME TypeOK, ChainLockstep, \A v \in Threads : FlushOK(v),
         NEW w \in Threads, ThreadStep(w)
  PROVE  LET made == attempts' + Unflushed'[w] - attempts - Unflushed[w]
             done == tested'[w] - tested[w]
         IN  /\ attempts' \in Nat
             /\ made >= done
             /\ ~request.metal => made <= done + Overcount'[w] - Overcount[w]
<1>. USE DEF TypeOK, Goto, chainVars, histories
<1>a. ChainOK(w) /\ FlushOK(w)
  BY DEF ChainLockstep
<1>b. /\ attempts \in Nat /\ tested[w] \in Nat /\ localCount[w] \in Nat /\ idx[w] \in Nat
      /\ ChainBatch \in Nat /\ ChainBatch > 0 /\ BatchSize \in Nat
      /\ GpuBatchKeys \in Nat /\ GpuBatchKeys > 0
      /\ uncounted[w] \in Nat /\ uncounted[w] <= GpuBatchKeys
  BY Sizes
<1>c. request' = request /\ (IsCpu(w)' <=> IsCpu(w)) /\ (IsGpu(w)' <=> IsGpu(w))
      /\ (IsCpu(w) <=> ~IsGpu(w))
  <2>1. request' = request /\ request.cpu \in Nat /\ w \in Nat
    BY ThreadActive, RequestFacts DEF handleVars, Threads
  <2>. QED  BY <2>1 DEF IsCpu, IsGpu
<1>d. /\ Unflushed[w] = IF IsGpu(w) THEN uncounted[w]
                          ELSE IF pc[w] \in {"loop", "batch", "drain", "panicked"}
                          THEN localCount[w] + idx[w] ELSE 0
      /\ Overcount[w] = IF IsGpu(w) /\ pc[w] \in {"announce", "publish", "returned"}
                          THEN GpuBatchKeys - 1 ELSE 0
  BY DEF Unflushed, Overcount
<1>e. /\ Unflushed'[w] = IF IsGpu(w) THEN uncounted'[w]
                           ELSE IF pc'[w] \in {"loop", "batch", "drain", "panicked"}
                           THEN localCount'[w] + idx'[w] ELSE 0
      /\ Overcount'[w] = IF IsGpu(w) /\ pc'[w] \in {"announce", "publish", "returned"}
                           THEN GpuBatchKeys - 1 ELSE 0
  BY <1>c DEF Unflushed, Overcount
<1>1. CASE CpuStart(w)
  <2>1. /\ pc[w] = "spawned" /\ pc'[w] = "loop" /\ localCount'[w] = 0 /\ idx'[w] = idx[w]
        /\ UNCHANGED <<attempts, tested>> /\ IsCpu(w) /\ idx[w] = 0
    BY <1>1, <1>a DEF CpuStart, ChainOK
  <2>. QED  BY <1>b, <1>c, <1>d, <1>e, <2>1
<1>2. CASE CpuContinue(w) \/ CpuStop(w)
  <2>1. /\ pc[w] = "loop" /\ pc'[w] \in {"batch", "drain"} /\ localCount'[w] = localCount[w]
        /\ idx'[w] = 0 /\ idx[w] = 0 /\ UNCHANGED <<attempts, tested>> /\ IsCpu(w)
    BY <1>2, <1>a DEF CpuContinue, CpuStop, ChainOK
  <2>. QED  BY <1>b, <1>c, <1>d, <1>e, <2>1
<1>3. CASE CpuMiss(w)
  <2>1. /\ pc[w] = "batch" /\ pc'[w] = "batch" /\ localCount'[w] = localCount[w]
        /\ idx'[w] = idx[w] + 1 /\ attempts' = attempts /\ tested'[w] = tested[w] + 1
        /\ IsCpu(w)
    BY <1>3, <1>a DEF CpuMiss, ChainOK
  <2>. QED  BY <1>b, <1>c, <1>d, <1>e, <2>1
<1>4. CASE CpuMatch(w)
  <2>1. /\ pc[w] = "batch" /\ pc'[w] = "announce" /\ tested'[w] = tested[w] + 1
        /\ attempts' = attempts + (localCount[w] + idx[w] + 1) /\ IsCpu(w)
    BY <1>4, <1>a DEF CpuMatch, HitCount, ChainOK
  <2>. QED  BY <1>b, <1>c, <1>d, <1>e, <2>1
<1>5. CASE CpuEndBatch(w)
  <2>. DEFINE count == localCount[w] + ChainBatch
  <2>1. /\ pc[w] = "batch" /\ pc'[w] = "loop" /\ idx[w] = ChainBatch /\ idx'[w] = 0
        /\ tested' = tested /\ IsCpu(w)
        /\ attempts' = IF FlushDue(count) THEN attempts + count ELSE attempts
        /\ localCount'[w] = IF FlushDue(count) THEN 0 ELSE count
    BY <1>5, <1>a DEF CpuEndBatch, ChainOK
  <2>. QED  BY <1>b, <1>c, <1>d, <1>e, <2>1
<1>6. CASE CpuDrain(w)
  <2>1. /\ pc[w] = "drain" /\ pc'[w] = "returned" /\ attempts' = attempts + localCount[w]
        /\ tested' = tested /\ IsCpu(w) /\ idx[w] = 0
    BY <1>6, <1>a DEF CpuDrain, ChainOK, FlushOK
  <2>2. ~IsGpu(w) /\ Unflushed[w] = localCount[w] + idx[w] /\ Unflushed'[w] = 0
    BY <1>c, <1>d, <1>e, <2>1
  <2>. HIDE DEF TypeOK, Goto, chainVars, histories
  <2>. QED  BY <1>b, <1>c, <1>d, <1>e, <2>1, <2>2
<1>7. CASE GpuMiss(w) \/ GpuLossyMiss(w) \/ GpuMatch(w)
  <2>1. /\ pc[w] = "dispatch" /\ IsGpu(w) /\ uncounted'[w] = 0
        /\ attempts' = attempts + GpuBatchKeys /\ tested'[w] = tested[w]
    BY <1>7, <1>a DEF GpuMiss, GpuLossyMiss, GpuMatch, LaunchDone, ChainOK
  <2>2. CASE GpuMiss(w)
    <3>1. pc'[w] = "loop" /\ uncounted[w] = GpuBatchKeys
      BY <2>2, <2>1 DEF GpuMiss
    <3>. QED  BY <1>b, <1>c, <1>d, <1>e, <2>1, <3>1
  <2>3. CASE GpuLossyMiss(w)
    <3>1. pc'[w] = "loop" /\ request.metal
      BY <2>3, <2>1 DEF GpuLossyMiss
    <3>. QED  BY <1>b, <1>c, <1>d, <1>e, <2>1, <3>1
  <2>4. CASE GpuMatch(w)
    <3>1. pc'[w] = "announce" /\ uncounted[w] > 0
      BY <2>4, <2>1 DEF GpuMatch
    <3>. QED  BY <1>b, <1>c, <1>d, <1>e, <2>1, <3>1
  <2>. QED  BY <1>7, <2>2, <2>3, <2>4
<1>8. CASE GpuCompare(w)
  <2>1. /\ pc[w] = "dispatch" /\ pc'[w] = "dispatch" /\ IsGpu(w) /\ attempts' = attempts
        /\ tested'[w] = tested[w] + 1 /\ uncounted'[w] = uncounted[w] + 1
    BY <1>8, <1>a DEF GpuCompare, ChainOK
  <2>. QED  BY <1>b, <1>c, <1>d, <1>e, <2>1
<1>10. CASE GpuStart(w) \/ GpuContinue(w) \/ GpuError(w) \/ GpuStop(w)
  <2>1. /\ UNCHANGED <<attempts, tested, uncounted>> /\ IsGpu(w)
        /\ pc[w] \in {"spawned", "loop", "dispatch"}
    BY <1>10, <1>a DEF GpuStart, GpuContinue, GpuError, GpuStop, ChainOK
  <2>. QED  BY <1>b, <1>c, <1>d, <1>e, <2>1
<1>11. CASE CpuPublish(w) \/ GpuPublish(w) \/ Announce(w)
  <2>1. /\ UNCHANGED <<attempts, tested, uncounted>>
        /\ pc[w] \in {"announce", "publish"} /\ pc'[w] \in {"publish", "returned"}
    BY <1>11 DEF CpuPublish, GpuPublish, Announce
  <2>. QED  BY <1>b, <1>c, <1>d, <1>e, <2>1
<1>12. CASE RngPanic(w)
  <2>1. /\ UNCHANGED <<attempts, tested, uncounted, localCount, idx>>
        /\ pc[w] \in {"spawned", "batch", "dispatch"} /\ pc'[w] = "panicked"
    BY <1>12 DEF RngPanic
  <2>2. pc[w] = "spawned" => localCount[w] = 0 /\ idx[w] = 0
    BY <1>a DEF FlushOK, ChainOK
  <2>3. pc[w] = "dispatch" => IsGpu(w)
    BY <1>a DEF ChainOK
  <2>. QED  BY <1>b, <1>c, <1>d, <1>e, <2>1, <2>2, <2>3
<1>. QED
  BY <1>1, <1>2, <1>3, <1>4, <1>5, <1>6, <1>7, <1>8, <1>10, <1>11, <1>12
  DEF ThreadStep, CpuStep, GpuStep

\* AttemptsOK is preserved.
LEMMA AttemptsOKStep ==
  ASSUME TypeOK, TypeOK', HandleOK, ChainLockstep, \A v \in Threads : FlushOK(v),
         AttemptsOK, [Next]_vars
  PROVE  AttemptsOK'
<1>a. /\ tested \in [Threads -> Nat] /\ Unflushed \in [Threads -> Nat]
      /\ Overcount \in [Threads -> Nat]
  BY CountTypes
<1>b. /\ tested' \in [Threads -> Nat] /\ Unflushed' \in [Threads -> Nat]
      /\ Overcount' \in [Threads -> Nat]
  <2>1. (TypeOK => /\ tested \in [Threads -> Nat] /\ Unflushed \in [Threads -> Nat]
                   /\ Overcount \in [Threads -> Nat])'
    BY CountTypes, PTL
  <2>. QED  BY <2>1, Zenon
<1>1. CASE OwnerStep \/ UNCHANGED vars
  <2>1. UNCHANGED <<request, localCount, idx>>
    BY <1>1, OwnerFrame DEF chainVars
  <2>2. UNCHANGED <<tested, uncounted, attempts>>
    BY <1>1 DEF OwnerStep, FinishStep, Spawn, Started, BeginFinish, Join, JoinPanics,
                Take, vars, histories
  <2>3. \A v \in Threads : \/ pc'[v] = pc[v]
                           \/ pc[v] = "unspawned" /\ pc'[v] = "spawned"
    BY <1>1, OwnerFrame
  <2>4. Unflushed' = Unflushed /\ Overcount' = Overcount
    BY <2>1, <2>2, <2>3 DEF Unflushed, Overcount, IsCpu, IsGpu
  <2>. QED  BY <2>1, <2>2, <2>4 DEF AttemptsOK, Tested
<1>2. ASSUME NEW w \in Threads, ThreadStep(w) PROVE AttemptsOK'
  <2>1. request' = request
    BY <1>2, ThreadActive DEF handleVars
  <2>2. ASSUME NEW v \in Threads, v # w
        PROVE  tested'[v] = tested[v] /\ Unflushed'[v] = Unflushed[v]
               /\ Overcount'[v] = Overcount[v]
    <3>1. pc'[v] = pc[v] /\ localCount'[v] = localCount[v] /\ idx'[v] = idx[v]
      BY <1>2, <2>2, ThreadFrame
    <3>2. tested'[v] = tested[v] /\ uncounted'[v] = uncounted[v]
      BY <1>2, <2>2, TestedFrame
    <3>3. Unflushed'[v] = Unflushed[v] /\ Overcount'[v] = Overcount[v]
      BY <2>1, <3>1, <3>2 DEF Unflushed, Overcount, IsCpu, IsGpu
    <3>. QED  BY <3>2, <3>3
  <2>. DEFINE t == Tested  u == SumUpTo(Unflushed, MaxThreads)
              o == SumUpTo(Overcount, MaxThreads)
  <2>3. /\ t \in Int /\ Tested' = t + tested'[w] - tested[w]
        /\ tested[w] \in Nat /\ tested'[w] \in Nat
    BY <1>a, <1>b, <2>2, ThreadSums, Zenon DEF Tested
  <2>4. /\ u \in Int /\ SumUpTo(Unflushed', MaxThreads) = u + Unflushed'[w] - Unflushed[w]
        /\ Unflushed[w] \in Nat /\ Unflushed'[w] \in Nat
    BY <1>a, <1>b, <2>2, ThreadSums, Zenon
  <2>5. /\ o \in Int /\ SumUpTo(Overcount', MaxThreads) = o + Overcount'[w] - Overcount[w]
        /\ Overcount[w] \in Nat /\ Overcount'[w] \in Nat
    BY <1>a, <1>b, <2>2, ThreadSums, Zenon
  <2>6. /\ attempts \in Nat /\ attempts' \in Nat
        /\ attempts' + Unflushed'[w] - attempts - Unflushed[w] >= tested'[w] - tested[w]
        /\ ~request.metal => attempts' + Unflushed'[w] - attempts - Unflushed[w]
                               <= tested'[w] - tested[w] + Overcount'[w] - Overcount[w]
    BY <1>2, StepCounts DEF TypeOK
  <2>7. attempts + u >= t /\ (~request.metal => attempts + u <= t + o)
    BY DEF AttemptsOK
  <2>. HIDE DEF t, u, o
  <2>8. attempts' + SumUpTo(Unflushed', MaxThreads) >= Tested'
    BY <2>3, <2>4, <2>6, <2>7
  <2>9. ~request.metal => attempts' + SumUpTo(Unflushed', MaxThreads)
                            <= Tested' + SumUpTo(Overcount', MaxThreads)
    BY <2>3, <2>4, <2>5, <2>6, <2>7
  <2>. QED  BY <2>1, <2>8, <2>9 DEF AttemptsOK
<1>. QED  BY <1>1, <1>2 DEF Next, Terminated, BoundReached

(***************************************************************************)
(* 5. The theorems.                                                        *)
(***************************************************************************)

\* The invariant holds when the constructor is entered.
LEMMA InitIInv == Init => IInv
<1>. SUFFICES ASSUME Init PROVE IInv
  OBVIOUS
<1>. USE DEF Init
<1>1. TypeOK
  <2>1. request \in Requests /\ Total \in Nat /\ 0 \in 0..MaxThreads
    BY RequestFacts, Sizes
  <2>2. 0 \in 0..ChainBatch
    BY Sizes
  <2>3. pc \in [Threads -> Labels]
    BY DEF Labels
  <2>4. /\ scalar \in [Threads -> {0} \cup (ClampBase..(ChainLimit - 1))]
        /\ start \in [Threads -> {0} \cup Starts]
    OBVIOUS
  <2>5. idx \in [Threads -> 0..ChainBatch]
    BY <2>2
  <2>6. spawned \in 0..Total /\ joined \in 0..spawned
    BY <2>1
  <2>7. /\ localCount \in [Threads -> Nat] /\ tested \in [Threads -> Nat]
        /\ uncounted \in [Threads -> 0..GpuBatchKeys]
    BY Sizes
  <2>8. /\ DOMAIN point = Threads /\ DOMAIN nextPoint = Threads
        /\ DOMAIN match = Threads
    OBVIOUS
  <2>. HIDE DEF Init
  <2>9. handle = "starting" /\ found = FALSE /\ attempts = 0
    BY DEF Init
  <2>. QED
    BY <2>1, <2>3, <2>4, <2>5, <2>6, <2>7, <2>8, <2>9 DEF TypeOK
<1>2. HandleOK
  BY DEF HandleOK
<1>3. ChainLockstep
  BY DEF ChainLockstep, ChainOK
<1>4. MatchesGenuine
  BY DEF MatchesGenuine, MatchOK
<1>5. ResultOK
  BY DEF ResultOK, Published
<1>6. CountsCover
  BY DEF CountsCover, CountOK
<1>7. NothingOverlooked
  BY DEF NothingOverlooked, Behind
<1>8. \A w \in Threads : FlushOK(w) /\ LaunchOK(w)
  BY DEF FlushOK, LaunchOK
<1>9. AttemptsOK
  <2>1. MaxThreads \in Nat /\ GpuBatchKeys - 1 \in Nat
    BY Sizes
  <2>2. tested \in [1..MaxThreads -> Int] /\ \A k \in 1..MaxThreads : tested[k] = 0
    BY DEF Threads
  <2>3. /\ Unflushed \in [1..MaxThreads -> Int] /\ \A k \in 1..MaxThreads : Unflushed[k] = 0
        /\ Overcount \in [1..MaxThreads -> Int] /\ \A k \in 1..MaxThreads : Overcount[k] = 0
    BY DEF Threads, Unflushed, Overcount
  <2>4. /\ Tested = 0 /\ SumUpTo(Unflushed, MaxThreads) = 0
        /\ SumUpTo(Overcount, MaxThreads) = 0
    BY <2>1, <2>2, <2>3, SumOfZeros, Zenon DEF Tested
  <2>5. attempts = 0
    OBVIOUS
  <2>. QED  BY <2>4, <2>5 DEF AttemptsOK
<1>. QED  BY <1>1, <1>2, <1>3, <1>4, <1>5, <1>6, <1>7, <1>8, <1>9 DEF IInv

\* The invariant is inductive.
LEMMA NextIInv == IInv /\ [Next]_vars => IInv'
<1>. SUFFICES ASSUME IInv, [Next]_vars PROVE IInv'
  OBVIOUS
<1>1. TypeOK' /\ HandleOK' /\ ChainLockstep' /\ MatchesGenuine' /\ ResultOK'
      /\ CountsCover' /\ NothingOverlooked'
  BY TypeOKStep, HandleOKStep, ChainLockstepStep, MatchesGenuineStep, ResultOKStep,
     CountsCoverStep, NothingOverlookedStep DEF IInv
<1>2. (\A w \in Threads : FlushOK(w) /\ LaunchOK(w))'
  BY <1>1, FlushOKStep, LaunchOKStep DEF IInv
<1>3. AttemptsOK'
  BY <1>1, AttemptsOKStep DEF IInv
<1>. QED  BY <1>1, <1>2, <1>3 DEF IInv

\* The inductive invariant: chains in lockstep, genuine matches, a result that
\* is there whenever a match was published.
THEOREM Invariance == Spec => []IInv
BY InitIInv, NextIInv, PTL DEF Spec

\* Type correctness of the search.
THEOREM TypeCorrect == Spec => []TypeOK
<1>1. IInv => TypeOK
  BY DEF IInv
<1>. QED  BY <1>1, Invariance, PTL

\* Clamping changes nothing in the scalar of a genuine key below 2^255.
LEMMA GenuineClamped ==
  ASSUME NEW m, Genuine(m), m.private < ClampTop
  PROVE  Mult(clamp_scalar(m.private)) = m.public
<1>1. m.private \in ClampBase..(ClampTop - 1) /\ m.private % 8 = 0 /\ m.private \in Nat
  BY Sizes, ScalarAssumption DEF Genuine
<1>2. clamp_scalar(m.private) = m.private
  <2>. DEFINE s == m.private
  <2>1. s \in Nat /\ s % 8 = 0 /\ s \in ClampBase..(2 * ClampBase - 1)
    BY <1>1, ScalarAssumption
  <2>. HIDE DEF s
  <2>2. s - (s % 8) = s
    BY <2>1
  <2>3. s % ClampBase = s - ClampBase
    BY <2>1, ScalarAssumption
  <2>4. ((s - (s % 8)) % ClampBase) + ClampBase = s
    BY <2>1, <2>2, <2>3, ScalarAssumption
  <2>. QED  BY <2>4 DEF clamp_scalar, s
<1>3. m.public = Mult(m.private)
  BY DEF Genuine
<1>. QED  BY <1>2, <1>3

\* In a state of the invariant, a result that finish() returned is genuine.
LEMMA GenuineFromIInv == IInv => GenuineResult
<1>. SUFFICES ASSUME IInv, handle = "done", outcome.ok
              PROVE  Genuine(outcome.answer)
  BY GenuineClamped DEF GenuineResult
<1>1. outcome.answer \in Published
  BY DEF IInv, ResultOK
<1>2. PICK w \in Threads : pc[w] = "returned" /\ match[w] = outcome.answer
  BY <1>1, PublishedBy
<1>3. MatchOK(w) /\ outcome.answer # NoMatch
  BY <1>1, <1>2 DEF IInv, MatchesGenuine, Published
<1>. QED  BY <1>2, <1>3 DEF MatchOK

\* In a state of the invariant, finish() has succeeded if `found` was raised, and
\* only then.
LEMMA FoundFromIInv == IInv => FoundNotLost
<1>. SUFFICES ASSUME IInv, handle = "done"
              PROVE  outcome.ok <=> found
  BY DEF FoundNotLost
<1>1. \A w \in Threads : pc[w] # "publish"
  <2>. SUFFICES ASSUME NEW w \in Threads, pc[w] = "publish" PROVE FALSE
    OBVIOUS
  <2>1. w > spawned \/ w \in 1..joined
    BY DEF IInv, TypeOK, HandleOK, Threads
  <2>. QED  BY <2>1 DEF IInv, HandleOK
<1>. QED  BY <1>1 DEF IInv, ResultOK

\* Every result finish() returns is a genuine, matching, unreserved key pair.
THEOREM ResultsAreGenuine == Spec => []GenuineResult
BY Invariance, GenuineFromIInv, PTL

\* finish() succeeds exactly when some thread raised `found`.
THEOREM NothingFoundIsLost == Spec => []FoundNotLost
BY Invariance, FoundFromIInv, PTL

\* No thread ever leaves a hit behind it, across batches, flushes and launches.
THEOREM NoHitIsPassed == Spec => []NothingOverlooked
<1>1. IInv => NothingOverlooked
  BY DEF IInv
<1>. QED  BY <1>1, Invariance, PTL

\* In a state of the invariant, a delivered key is near a draw.
LEMMA NearDrawFromIInv == IInv => KeyNearDraw
<1>. SUFFICES ASSUME IInv, handle = "done", outcome.ok
              PROVE  \E s \in Starts : outcome.answer.private - s
                                         \in 0..(8 * (outcome.attempts - 1))
  BY DEF KeyNearDraw
<1>1. outcome.answer \in Published /\ outcome.attempts = attempts
  BY DEF IInv, ResultOK, HandleOK
<1>2. PICK w \in Threads : match[w] = outcome.answer /\ match[w] # NoMatch
  BY <1>1, PublishedBy
<1>. QED  BY <1>1, <1>2 DEF IInv, CountsCover, CountOK

\* The reported key lies within the reported number of attempts of a clamped
\* draw.
THEOREM KeyStaysNearDraw == Spec => []KeyNearDraw
BY Invariance, NearDrawFromIInv, PTL

\* In a state of the invariant, the reported attempts are those tested, but for
\* what GPU launches claimed beyond their hit.
LEMMA AttemptsFromIInv == IInv => ReportedAttempts
<1>. SUFFICES ASSUME IInv, handle = "done"
              PROVE  /\ Tested <= outcome.attempts + SumUpTo(Lost, MaxThreads)
                     /\ ~request.metal =>
                          outcome.attempts <= Tested + request.gpu * (GpuBatchKeys - 1)
  BY DEF ReportedAttempts
<1>1. TypeOK /\ HandleOK /\ AttemptsOK /\ outcome.attempts = attempts /\ attempts \in Nat
  BY DEF IInv, HandleOK, TypeOK
<1>2. /\ request.cpu \in Nat /\ request.gpu \in Nat /\ Total \in 0..MaxThreads
      /\ MaxThreads \in Nat /\ GpuBatchKeys - 1 \in Nat
  BY <1>1, RequestFacts, Sizes DEF TypeOK
<1>3. /\ tested \in [Threads -> Nat] /\ Unflushed \in [Threads -> Nat]
      /\ Overcount \in [Threads -> Nat]
  BY <1>1, CountTypes
<1>4. \A w \in Threads : pc[w] = (IF w <= Total THEN "returned" ELSE "unspawned")
  <2>1. joined = Total /\ spawned = Total
    BY <1>1 DEF HandleOK
  <2>. QED  BY <1>1, <1>2, <2>1 DEF HandleOK, Threads
<1>5. /\ SumUpTo(Unflushed, MaxThreads) \in Nat /\ SumUpTo(Lost, MaxThreads) \in Int
      /\ SumUpTo(Unflushed, MaxThreads) <= SumUpTo(Lost, MaxThreads)
  <2>. DEFINE zero == [k \in 1..MaxThreads |-> 0]
  <2>a. 1..MaxThreads = Threads
    BY DEF Threads
  <2>e. \A k \in Threads : Lost[k] \in Int
    BY Sizes DEF Lost
  <2>b. Unflushed \in [1..MaxThreads -> Nat]
    BY <1>3, <2>a
  <2>c. Lost \in [1..MaxThreads -> Int]
    BY <2>a, <2>e DEF Lost
  <2>d. zero \in [1..MaxThreads -> Int] /\ \A k \in 1..MaxThreads : zero[k] = 0
    OBVIOUS
  <2>. HIDE DEF zero
  <2>1. /\ Unflushed \in [1..MaxThreads -> Int] /\ Lost \in [1..MaxThreads -> Int]
        /\ zero \in [1..MaxThreads -> Int]
        /\ \A k \in 1..MaxThreads : zero[k] = 0 /\ zero[k] <= Unflushed[k]
    BY <2>b, <2>c, <2>d
  <2>2. ASSUME NEW k \in 1..MaxThreads PROVE Unflushed[k] <= Lost[k]
    <3>1. k \in Threads /\ pc[k] \in {"returned", "unspawned"}
      BY <1>4 DEF Threads
    <3>2. uncounted[k] \in 0..GpuBatchKeys /\ GpuBatchKeys \in Nat
      <4>1. uncounted \in [Threads -> 0..GpuBatchKeys]
        BY <1>1, Zenon DEF TypeOK
      <4>. QED  BY <3>1, <4>1, Sizes
    <3>3. Unflushed[k] = IF IsGpu(k) THEN uncounted[k] ELSE 0
      BY <3>1 DEF Unflushed
    <3>4. Lost[k] = IF IsGpu(k) /\ uncounted[k] # 0 THEN GpuBatchKeys ELSE 0
      BY <3>1 DEF Lost
    <3>. QED  BY <3>2, <3>3, <3>4
  <2>3. SumUpTo(Unflushed, MaxThreads) <= SumUpTo(Lost, MaxThreads)
    BY <1>2, <2>1, <2>2, SumMonotone, Zenon
  <2>4. SumUpTo(zero, MaxThreads) <= SumUpTo(Unflushed, MaxThreads)
    BY <1>2, <2>1, SumMonotone, Zenon
  <2>5. SumUpTo(zero, MaxThreads) = 0
    BY <1>2, <2>1, SumOfZeros, Zenon
  <2>6. SumUpTo(Unflushed, MaxThreads) \in Int /\ SumUpTo(Lost, MaxThreads) \in Int
    BY <1>2, <2>1, SumInt, Zenon
  <2>. QED  BY <2>3, <2>4, <2>5, <2>6
<1>6. SumUpTo(Overcount, MaxThreads) <= request.gpu * (GpuBatchKeys - 1)
  <2>. DEFINE a == request.cpu  b == Total  c == GpuBatchKeys - 1
  <2>1. a \in 0..MaxThreads /\ b \in a..MaxThreads /\ c \in Nat /\ b - a = request.gpu
    BY <1>2 DEF Total
  <2>2. Overcount \in [1..MaxThreads -> Int]
    BY <1>3 DEF Threads
  <2>3. \A k \in 1..MaxThreads : Overcount[k] <= (IF a < k /\ k <= b THEN c ELSE 0)
    BY <1>2, <1>4 DEF Overcount, IsGpu, Threads
  <2>. HIDE DEF a, b, c
  <2>4. SumUpTo(Overcount, MaxThreads) <= (b - a) * c
    BY <1>2, <2>1, <2>2, <2>3, SumOfBlock, Zenon
  <2>5. SumUpTo(Overcount, MaxThreads) <= request.gpu * c
    BY <2>1, <2>4
  <2>. QED  BY <2>5 DEF c
<1>7. Tested \in Int /\ SumUpTo(Overcount, MaxThreads) \in Int
  <2>1. tested \in [1..MaxThreads -> Int] /\ Overcount \in [1..MaxThreads -> Int]
    BY <1>3 DEF Threads
  <2>. QED  BY <1>2, <2>1, SumInt, Zenon DEF Tested
<1>8. request.gpu * (GpuBatchKeys - 1) \in Int
  BY <1>2
<1>9. Tested <= attempts + SumUpTo(Lost, MaxThreads)
  BY <1>1, <1>5, <1>7 DEF AttemptsOK
<1>10. ~request.metal => attempts <= Tested + request.gpu * (GpuBatchKeys - 1)
  BY <1>1, <1>5, <1>6, <1>7, <1>8 DEF AttemptsOK
<1>. QED  BY <1>1, <1>9, <1>10

\* What the CPU workers hold, and the launches of the GPUs that are not counted.
OfCpus == [w \in Threads |-> IF IsGpu(w) THEN 0 ELSE Unflushed[w]]
OfGpus == [w \in Threads |-> IF IsGpu(w) THEN Unflushed[w] ELSE 0]

\* No CPU worker holds more than a flush's worth.
LEMMA CpuLag ==
  ASSUME IInv, NEW k \in Threads
  PROVE  OfCpus[k] <= (IF 0 < k /\ k <= request.cpu THEN BatchSize ELSE 0)
<1>1. TypeOK /\ ChainLockstep /\ FlushOK(k)
  BY DEF IInv
<1>2. /\ request.cpu \in Nat /\ BatchSize \in Nat /\ ChainBatch \in Int /\ ChainBatch > 0
  BY <1>1, RequestFacts, Sizes DEF TypeOK
<1>3. /\ localCount[k] \in Nat /\ idx[k] \in 0..ChainBatch /\ ChainOK(k)
      /\ k > 0 /\ k \in Nat
  BY <1>1 DEF TypeOK, ChainLockstep, Threads
<1>4. (IsGpu(k) <=> ~(k <= request.cpu)) /\ (IsGpu(k) => OfCpus[k] = 0)
  BY <1>2, <1>3 DEF IsGpu, OfCpus
<1>5. ASSUME ~IsGpu(k) PROVE OfCpus[k] <= BatchSize
  <2>1. OfCpus[k] = IF pc[k] \in {"loop", "batch", "drain", "panicked"}
                      THEN localCount[k] + idx[k] ELSE 0
    BY <1>5 DEF OfCpus, Unflushed
  <2>2. CASE pc[k] \in {"loop", "batch"}
    <3>1. localCount[k] + ChainBatch <= BatchSize
      BY <1>1, <1>2, <1>3, <2>2, RoomForABatch, SizesAssumption DEF FlushOK
    <3>. QED  BY <1>2, <1>3, <2>1, <3>1
  <2>3. CASE pc[k] \in {"drain", "panicked"}
    BY <1>1, <2>1, <2>3 DEF FlushOK
  <2>4. CASE pc[k] \notin {"loop", "batch", "drain", "panicked"}
    BY <1>2, <2>1, <2>4
  <2>. QED  BY <2>2, <2>3, <2>4
<1>. QED  BY <1>2, <1>3, <1>4, <1>5

\* No GPU has more than one launch that is not counted.
LEMMA GpuLag ==
  ASSUME IInv, NEW k \in Threads
  PROVE  OfGpus[k] <= (IF request.cpu < k /\ k <= Total THEN GpuBatchKeys ELSE 0)
<1>1. TypeOK /\ HandleOK /\ LaunchOK(k)
  BY DEF IInv
<1>2. /\ request.cpu \in Nat /\ GpuBatchKeys \in Nat /\ Total \in Nat /\ k \in Nat
      /\ spawned \in Nat /\ spawned <= Total /\ uncounted[k] \in 0..GpuBatchKeys
  BY <1>1, RequestFacts, Sizes DEF TypeOK, Threads
<1>3. OfGpus[k] = IF IsGpu(k) THEN uncounted[k] ELSE 0
  BY DEF OfGpus, Unflushed
<1>4. ASSUME ~(k <= Total) PROVE OfGpus[k] = 0
  <2>1. pc[k] = "unspawned"
    BY <1>1, <1>2, <1>4 DEF HandleOK
  <2>2. uncounted[k] = 0
    BY <1>1, <2>1 DEF LaunchOK
  <2>. QED  BY <1>3, <2>2
<1>. QED  BY <1>2, <1>3, <1>4 DEF IsGpu

\* In a state of the invariant, no worker holds more than a flush's worth, and no
\* GPU more than a launch.
LEMMA LagFromIInv == IInv => ProgressLag
<1>. SUFFICES ASSUME IInv
              PROVE  Tested <= attempts + request.cpu * BatchSize
                                 + request.gpu * GpuBatchKeys
  BY DEF ProgressLag
<1>1. TypeOK /\ AttemptsOK /\ attempts \in Nat
  BY DEF IInv, TypeOK
<1>2. /\ request.cpu \in 0..MaxThreads /\ MaxThreads \in Nat /\ BatchSize \in Nat
      /\ Total \in request.cpu..MaxThreads /\ GpuBatchKeys \in Nat
      /\ request.gpu \in Nat /\ Total - request.cpu = request.gpu
  <2>1. /\ request.cpu \in Nat /\ request.gpu \in Nat
        /\ request.cpu + request.gpu \in 0..MaxThreads
    BY <1>1, RequestFacts DEF TypeOK, Total
  <2>. QED  BY <2>1, Sizes DEF Total
<1>3. tested \in [Threads -> Nat] /\ Unflushed \in [Threads -> Nat]
  BY <1>1, CountTypes
<1>4. /\ OfCpus \in [1..MaxThreads -> Int] /\ OfGpus \in [1..MaxThreads -> Int]
      /\ Unflushed \in [1..MaxThreads -> Int] /\ tested \in [1..MaxThreads -> Int]
  BY <1>3 DEF OfCpus, OfGpus, Threads
<1>. DEFINE a == request.cpu  b == Total  c == BatchSize  g == GpuBatchKeys
<1>5. /\ 0 \in 0..MaxThreads /\ a \in 0..MaxThreads /\ b \in a..MaxThreads /\ c \in Nat
      /\ g \in Nat /\ a - 0 = a /\ b - a = request.gpu
  BY <1>2
<1>6. /\ \A k \in 1..MaxThreads : OfCpus[k] <= (IF 0 < k /\ k <= a THEN c ELSE 0)
      /\ \A k \in 1..MaxThreads : OfGpus[k] <= (IF a < k /\ k <= b THEN g ELSE 0)
  BY CpuLag, GpuLag DEF Threads
<1>7. \A k \in 1..MaxThreads : Unflushed[k] = OfCpus[k] + OfGpus[k]
  BY <1>3 DEF OfCpus, OfGpus, Threads
<1>. HIDE DEF a, b, c, g
<1>8. SumUpTo(OfCpus, MaxThreads) <= (a - 0) * c
  BY <1>2, <1>4, <1>5, <1>6, SumOfBlock, Zenon
<1>9. SumUpTo(OfGpus, MaxThreads) <= (b - a) * g
  BY <1>2, <1>4, <1>5, <1>6, SumOfBlock, Zenon
<1>10. SumUpTo(Unflushed, MaxThreads)
         = SumUpTo(OfCpus, MaxThreads) + SumUpTo(OfGpus, MaxThreads)
  BY <1>2, <1>4, <1>7, SumAdd, Zenon
<1>11. /\ SumUpTo(OfCpus, MaxThreads) \in Int /\ SumUpTo(OfGpus, MaxThreads) \in Int
       /\ Tested \in Int
  BY <1>2, <1>4, SumInt, Zenon DEF Tested
<1>12. a * c \in Int /\ request.gpu * g \in Int
  BY <1>2, <1>5
<1>13. SumUpTo(OfCpus, MaxThreads) <= a * c /\ SumUpTo(OfGpus, MaxThreads) <= request.gpu * g
  BY <1>5, <1>8, <1>9
<1>14. Tested <= attempts + SumUpTo(Unflushed, MaxThreads)
  BY <1>1 DEF AttemptsOK
<1>15. Tested <= attempts + a * c + request.gpu * g
  <2>. DEFINE p == a * c  q == request.gpu * g
  <2>1. p \in Int /\ q \in Int /\ SumUpTo(OfCpus, MaxThreads) <= p
        /\ SumUpTo(OfGpus, MaxThreads) <= q
    BY <1>12, <1>13
  <2>. HIDE DEF p, q
  <2>2. Tested <= attempts + p + q
    BY <1>1, <1>10, <1>11, <1>14, <2>1
  <2>. QED  BY <2>2 DEF p, q
<1>. QED  BY <1>15 DEF a, c, g

\* What finish() reports falls short of the candidates compared by at most one
\* launch per GPU that failed, never in a CPU-only search, and is too high by
\* less than one launch per GPU.
THEOREM AttemptsAreHonest == Spec => []ReportedAttempts
BY Invariance, AttemptsFromIInv, PTL

\* The count a TUI polls lags by at most one flush per worker and one launch per
\* GPU, whatever is in flight.
THEOREM ProgressLagsByAFlush == Spec => []ProgressLag
BY Invariance, LagFromIInv, PTL

\* Genuine matches are what VanitySearch accepts.
LEMMA PublishedAcceptable ==
  ASSUME NEW m, Genuine(m)
  PROVE  m \in Acceptable
<1>1. m.prefix \in Range(Prefixes)
  BY DEF Genuine, Range
<1>2. m = [private |-> m.private, public |-> Mult(m.private), prefix |-> m.prefix]
  BY DEF Genuine
<1>. QED  BY <1>1, <1>2 DEF Acceptable, Genuine

\* Every step is a step of VanitySearch or leaves its variables alone.
LEMMA AbstractStep == IInv /\ [Next]_vars => [VS!Next]_(VS!vars)
<1>. SUFFICES ASSUME IInv, [Next]_vars PROVE [VS!Next]_(VS!vars)
  OBVIOUS
<1>. USE DEF VS!Next, VS!vars
<1>1. ASSUME NEW w \in Threads, ThreadStep(w) PROVE VS!Claim \/ UNCHANGED VS!vars
  <2>1. handle \notin {"done", "panicked"} /\ UNCHANGED handleVars
    BY <1>1, DoneIsQuiet, ThreadActive DEF IInv, ThreadStep
  <2>2. Status = "open" /\ UNCHANGED <<Status, outcome.answer>>
    BY <2>1 DEF Status, handleVars
  <2>3. CASE Genuine(match'[w]) /\ Published' = Published \cup {match'[w]}
    BY <2>2, <2>3, PublishedAcceptable DEF VS!Claim
  <2>4. CASE Published' = Published
    BY <2>2, <2>4
  <2>. QED  BY <1>1, <2>3, <2>4, ThreadResult
<1>2. CASE Take
  <2>1. Published' = Published
    BY <1>2, OwnerPublished DEF IInv, OwnerStep, FinishStep
  <2>2. Status = "open" /\ outcome.answer = NoMatch
    BY <1>2 DEF Take, Status, IInv, HandleOK, NoOutcome
  <2>3. CASE Published # {}
    <3>1. Status' = "delivered"
      BY <1>2, <2>3, TakeResult DEF Status
    <3>. QED  BY <1>2, <2>1, <2>2, <2>3, <3>1, TakeResult DEF VS!Deliver
  <2>4. CASE Published = {}
    <3>1. Status' = "failed"
      BY <1>2, <2>4, TakeResult DEF Status
    <3>. QED  BY <1>2, <2>1, <2>2, <2>4, <3>1, TakeResult DEF VS!GiveUp
  <2>. QED  BY <2>3, <2>4
<1>3. CASE JoinPanics
  <2>1. Published' = Published
    BY <1>3, OwnerPublished DEF IInv, OwnerStep, FinishStep
  <2>. QED  BY <1>3, <2>1 DEF JoinPanics, Status, VS!Crash
<1>4. CASE Spawn \/ Started \/ BeginFinish \/ Join \/ UNCHANGED vars
  <2>1. Published' = Published
    BY <1>4, OwnerPublished DEF IInv, OwnerStep, FinishStep
  <2>2. Status' = Status /\ outcome' = outcome
    BY <1>4 DEF Spawn, Started, BeginFinish, Join, Status, vars, handleVars
  <2>. QED  BY <2>1, <2>2
<1>. QED
  BY <1>1, <1>2, <1>3, <1>4 DEF Next, OwnerStep, FinishStep, Terminated, BoundReached

\* A search that has not begun has promised nothing.
LEMMA AbstractInit == Init => VS!Init
BY DEF Init, VS!Init, Published, Status, NoOutcome

\* The search implements the promise of VanitySearch.
THEOREM Implementation == Spec => ImplementsVanitySearch
BY AbstractInit, AbstractStep, Invariance, PTL DEF Spec, ImplementsVanitySearch, VS!Spec

-----------------------------------------------------------------------------

(***************************************************************************)
(* 6. The engine inside the program.                                       *)
(***************************************************************************)

\* Every step of the program is a step of the engine or leaves the engine as it
\* is.
LEMMA FNextIsNext == [FNext]_fvars => [Next]_vars
<1>. SUFFICES ASSUME [FNext]_fvars, ~UNCHANGED vars PROVE Next
  OBVIOUS
<1>1. CASE Construct \/ CallFinish \/ Finishing
  BY <1>1 DEF Construct, CallFinish, Finishing, Next, OwnerStep
<1>2. CASE Engine
  BY <1>2 DEF Engine, Next
<1>3. CASE SearchingOn
  BY <1>3 DEF SearchingOn, Next
<1>4. ~(MainStep /\ ~(Construct \/ CallFinish \/ Finishing))
  BY DEF MainStep, RunBench, RejectPrefix, Verify, Launch, Constructed, EnterRaw,
     EnterAlternate, Sample, Draw, Tick, Quit, MainPanics, Finished, Leave, Report
<1>5. ~(KeyQuit \/ TuiFails \/ ReportFails \/ Exited \/ UNCHANGED fvars)
  BY DEF KeyQuit, TuiFails, ReportFails, Exited, fvars
<1>. QED  BY <1>1, <1>2, <1>3, <1>4, <1>5 DEF FNext

\* The engine's invariant holds throughout the program.
LEMMA EngineInvariance == FSpec => []IInv
<1>1. FInit => IInv
  BY InitIInv DEF FInit
<1>. QED  BY <1>1, FNextIsNext, NextIInv, PTL DEF FSpec

(***************************************************************************)
(* 7. The conjuncts of the invariant.                                      *)
(***************************************************************************)

\* FTypeOK is preserved: main moves between its labels, and a reason to end is
\* given exactly when the process ends.
LEMMA FTypeOKStep == FTypeOK /\ TypeOK' /\ [FNext]_fvars => FTypeOK'
<1>. SUFFICES ASSUME FTypeOK, TypeOK', [FNext]_fvars PROVE FTypeOK'
  OBVIOUS
<1>. USE DEF FTypeOK
<1>1. CASE RunBench \/ RejectPrefix \/ Verify \/ Launch \/ MainPanics \/ Report \/ ReportFails
  BY <1>1 DEF RunBench, RejectPrefix, Verify, Launch, MainPanics, Report, ReportFails, Exit
<1>2. CASE Construct \/ Engine \/ SearchingOn \/ Finishing
  BY <1>2 DEF Construct, Engine, SearchingOn, Finishing, frontVars
<1>3. CASE EnterRaw \/ EnterAlternate \/ Constructed \/ CallFinish \/ Finished \/ Tick \/ KeyQuit
  BY <1>3 DEF EnterRaw, EnterAlternate, Constructed, CallFinish, Finished, Tick, KeyQuit
<1>4. CASE Sample
  <2>1. seen' \in BOOLEAN
    BY <1>4 DEF Sample, is_done, TypeOK
  <2>. QED  BY <1>4, <2>1 DEF Sample
<1>5. CASE Draw \/ Leave \/ Quit
  BY <1>5 DEF Draw, AfterDraw, Leave, Quit, Restored, Exit
<1>6. CASE TuiFails
  BY <1>6 DEF TuiFails, Exit
<1>7. CASE Exited \/ UNCHANGED fvars
  BY <1>7 DEF Exited, fvars, frontVars
<1>. QED
  BY <1>1, <1>2, <1>3, <1>4, <1>5, <1>6, <1>7 DEF FNext, MainStep

\* A thread that has panicked stays panicked.
LEMMA PanicsStay ==
  ASSUME TypeOK, NEW w \in Threads, ThreadStep(w), NEW v \in Threads, pc[v] = "panicked"
  PROVE  pc'[v] = "panicked"
BY ThreadActive, ThreadFrame

\* The thread finish() joins next is one of the threads.
LEMMA JoinedIsThread ==
  ASSUME request \in Requests, spawned \in 0..Total, joined \in 0..spawned, joined < spawned
  PROVE  joined + 1 \in Threads
<1>1. Total \in 0..MaxThreads /\ MaxThreads \in Nat
  BY RequestFacts, Sizes
<1>. QED  BY <1>1 DEF Threads

\* EngineAt is preserved.
LEMMA EngineAtStep == FTypeOK /\ IInv /\ EngineAt /\ [FNext]_fvars => EngineAt'
<1>. SUFFICES ASSUME FTypeOK, IInv, EngineAt, [FNext]_fvars PROVE EngineAt'
  OBVIOUS
<1>a. (exit = "none") <=> (ui # "exited")
  BY DEF FTypeOK
<1>. USE DEF EngineAt
<1>1. CASE RunBench \/ RejectPrefix \/ Verify \/ Launch
  BY <1>1, <1>a DEF RunBench, RejectPrefix, Verify, Launch, Exit, Unlaunched,
     vars, handleVars
<1>2. CASE MainPanics \/ Report \/ ReportFails
  BY <1>2, <1>a DEF MainPanics, Report, ReportFails, Exit, Unlaunched, vars, handleVars
<1>3. CASE Construct
  BY <1>3, <1>a DEF Construct, Spawn, Started, Unlaunched, frontVars
<1>4. CASE Constructed \/ EnterRaw \/ EnterAlternate \/ Sample \/ Tick \/ KeyQuit \/ Draw
  BY <1>4, <1>a DEF Constructed, EnterRaw, EnterAlternate, Sample, Tick, KeyQuit, Draw,
     AfterDraw, Unlaunched, vars, handleVars
<1>5. CASE Quit \/ TuiFails \/ Leave \/ Finished
  BY <1>5, <1>a DEF Quit, TuiFails, Leave, Finished, Exit, Unlaunched, vars, handleVars
<1>6. CASE CallFinish
  BY <1>6, <1>a DEF CallFinish, BeginFinish, Unlaunched
<1>7. CASE Finishing
  <2>1. CASE Join
    BY <1>7, <1>a, <2>1 DEF Finishing, Join, Unlaunched, frontVars
  <2>2. CASE Take
    BY <1>7, <1>a, <2>2 DEF Finishing, Take, Unlaunched, frontVars
  <2>3. CASE JoinPanics
    <3>1. joined + 1 \in Threads
      <4>1. request \in Requests /\ spawned \in 0..Total /\ joined \in 0..spawned
        BY DEF IInv, TypeOK
      <4>2. joined < spawned
        BY <2>3 DEF JoinPanics
      <4>. QED  BY <4>1, <4>2, JoinedIsThread
    <3>2. \E w \in Threads : pc'[w] = "panicked"
      BY <2>3, <3>1 DEF JoinPanics
    <3>. QED  BY <1>7, <1>a, <2>3, <3>2 DEF Finishing, JoinPanics, Unlaunched, frontVars
  <2>. QED  BY <1>7, <2>1, <2>2, <2>3 DEF Finishing, FinishStep
<1>8. CASE Engine
  <2>1. PICK w \in Threads : ThreadStep(w)
    BY <1>8 DEF Engine
  <2>2. UNCHANGED <<handle, spawned, outcome>> /\ handle # "panicked"
    BY <2>1, ThreadActive DEF IInv, ThreadStep, handleVars
  <2>. QED  BY <1>8, <1>a, <2>2 DEF Engine, frontVars, Unlaunched
<1>9. CASE SearchingOn \/ Exited \/ UNCHANGED fvars
  BY <1>9, <1>a DEF SearchingOn, BoundReached, Exited, fvars, frontVars, Unlaunched, vars,
     handleVars
<1>. QED
  BY <1>1, <1>2, <1>3, <1>4, <1>5, <1>6, <1>7, <1>8, <1>9 DEF FNext, MainStep

\* A store to `found` is never taken back.
LEMMA FoundStays == IInv /\ [Next]_vars /\ found => found'
<1>. SUFFICES ASSUME IInv, [Next]_vars, found PROVE found'
  OBVIOUS
<1>1. CASE OwnerStep \/ UNCHANGED vars
  BY <1>1, OwnerFrame DEF IInv
<1>2. ASSUME NEW w \in Threads, ThreadStep(w) PROVE found'
  BY <1>2 DEF ThreadStep, CpuStep, GpuStep, CpuStart, CpuContinue, CpuMiss, CpuMatch,
     CpuPublish, CpuEndBatch, CpuStop, CpuDrain, GpuStart, GpuContinue, GpuCompare,
     GpuMiss, GpuLossyMiss, GpuMatch, LaunchDone, GpuPublish, GpuError, GpuStop, Announce, RngPanic
<1>. QED  BY <1>1, <1>2 DEF Next, Terminated, BoundReached

\* LoopOK is preserved.
LEMMA LoopOKStep == FTypeOK /\ IInv /\ LoopOK /\ [FNext]_fvars /\ FTypeOK' /\ IInv' => LoopOK'
<1>. SUFFICES ASSUME FTypeOK, IInv, LoopOK, [FNext]_fvars, FTypeOK', IInv' PROVE LoopOK'
  OBVIOUS
<1>a. (exit = "none") <=> (ui # "exited")
  BY DEF FTypeOK
<1>b. found => found'
  BY FNextIsNext, FoundStays
<1>c. seen \in BOOLEAN /\ seen' \in BOOLEAN /\ found \in BOOLEAN /\ found' \in BOOLEAN
  BY DEF FTypeOK, IInv, TypeOK
<1>d. cli.json \in BOOLEAN /\ cli'.json \in BOOLEAN
  BY MachinesAssumption DEF FTypeOK
<1>. USE DEF LoopOK
<1>1. CASE RunBench \/ RejectPrefix \/ Verify \/ Launch
  BY <1>1, <1>a, <1>b, <1>c, <1>d DEF RunBench, RejectPrefix, Verify, Launch, Exit
<1>2. CASE MainPanics \/ Report \/ ReportFails
  BY <1>2, <1>a, <1>b, <1>c, <1>d DEF MainPanics, Report, ReportFails, Exit
<1>3. CASE Construct \/ Finishing \/ Engine \/ SearchingOn
  BY <1>3, <1>a, <1>b, <1>c, <1>d DEF Construct, Finishing, Engine, SearchingOn, frontVars
<1>4. CASE Constructed \/ EnterRaw \/ EnterAlternate \/ Tick \/ KeyQuit
  BY <1>4, <1>a, <1>b, <1>c, <1>d DEF Constructed, EnterRaw, EnterAlternate, Tick, KeyQuit
<1>5. CASE Draw
  BY <1>5, <1>a, <1>b, <1>c, <1>d DEF Draw, AfterDraw
<1>6. CASE Sample
  <2>1. seen' => found
    BY <1>6 DEF Sample, is_done
  <2>. QED  BY <1>6, <1>a, <1>b, <1>c, <1>d, <2>1 DEF Sample
<1>7. CASE Quit \/ Leave \/ TuiFails
  BY <1>7, <1>a, <1>b, <1>c, <1>d DEF Quit, Leave, TuiFails, Exit
<1>8. CASE Finished \/ CallFinish
  BY <1>8, <1>a, <1>b, <1>c, <1>d DEF Finished, CallFinish
<1>9. CASE Exited \/ UNCHANGED fvars
  BY <1>9, <1>a, <1>b, <1>c, <1>d DEF Exited, fvars, frontVars
<1>. QED
  BY <1>1, <1>2, <1>3, <1>4, <1>5, <1>6, <1>7, <1>8, <1>9 DEF FNext, MainStep

\* TerminalOK is preserved: every way out of the loop but an error restores the
\* terminal, and --json never touches it.
LEMMA TerminalOKStep == FTypeOK /\ LoopOK /\ TerminalOK /\ [FNext]_fvars => TerminalOK'
<1>. SUFFICES ASSUME FTypeOK, LoopOK, TerminalOK, [FNext]_fvars PROVE TerminalOK'
  OBVIOUS
<1>a. (exit = "none") <=> (ui # "exited")
  BY DEF FTypeOK
<1>b. ui \in {"enter", "alternate", "sample", "draw", "poll", "quit", "leave"} => ~cli.json
  BY DEF LoopOK
<1>. USE DEF TerminalOK
<1>1. CASE RunBench \/ RejectPrefix \/ Verify \/ Launch
  BY <1>1, <1>a, <1>b DEF RunBench, RejectPrefix, Verify, Launch, Exit
<1>2. CASE MainPanics \/ Report \/ ReportFails
  BY <1>2, <1>a, <1>b DEF MainPanics, Report, ReportFails, Exit
<1>3. CASE Construct \/ Finishing \/ Engine \/ SearchingOn
  BY <1>3 DEF Construct, Finishing, Engine, SearchingOn, frontVars
<1>4. CASE Constructed \/ EnterRaw \/ EnterAlternate \/ Tick \/ KeyQuit
  BY <1>4, <1>a, <1>b DEF Constructed, EnterRaw, EnterAlternate, Tick, KeyQuit
<1>5. CASE Draw \/ Sample
  BY <1>5, <1>a, <1>b DEF Draw, AfterDraw, Sample
<1>6. CASE Quit \/ Leave
  BY <1>6 DEF Quit, Leave, Restored
<1>7. CASE TuiFails
  BY <1>7 DEF TuiFails, Exit
<1>8. CASE Finished \/ CallFinish
  BY <1>8, <1>a, <1>b DEF Finished, CallFinish
<1>9. CASE Exited \/ UNCHANGED fvars
  BY <1>9 DEF Exited, fvars, frontVars
<1>. QED
  BY <1>1, <1>2, <1>3, <1>4, <1>5, <1>6, <1>7, <1>8, <1>9 DEF FNext, MainStep

\* What the engine was asked for does not change, nor what it was asked by.
LEMMA RequestStays == IInv /\ [FNext]_fvars => UNCHANGED <<cli, machine, request>>
<1>. SUFFICES ASSUME IInv, [FNext]_fvars PROVE UNCHANGED <<cli, machine, request>>
  OBVIOUS
<1>1. UNCHANGED request
  <2>1. [Next]_vars
    BY FNextIsNext
  <2>2. CASE OwnerStep \/ UNCHANGED vars
    BY <2>2, OwnerFrame DEF IInv
  <2>3. ASSUME NEW w \in Threads, ThreadStep(w) PROVE UNCHANGED request
    BY <2>3, ThreadActive DEF IInv, handleVars
  <2>. QED  BY <2>1, <2>2, <2>3 DEF Next, Terminated, BoundReached
<1>2. UNCHANGED <<cli, machine>>
  BY DEF FNext, MainStep, RunBench, RejectPrefix, Verify, Launch, Construct, Constructed,
     EnterRaw, EnterAlternate, Sample, Draw, Tick, Quit, CallFinish, Finishing, MainPanics,
     Finished, Leave, Report, KeyQuit, TuiFails, ReportFails, Engine, SearchingOn, Exited,
     fvars, frontVars
<1>. QED  BY <1>1, <1>2

\* RequestHonest is preserved: main leaves "main" for the constructor only when
\* the search is not refused.
LEMMA RequestHonestStep ==
  FTypeOK /\ IInv /\ EngineAt /\ RequestHonest /\ [FNext]_fvars => RequestHonest'
<1>. SUFFICES ASSUME FTypeOK, IInv, EngineAt, RequestHonest, [FNext]_fvars
              PROVE  RequestHonest'
  OBVIOUS
<1>1. UNCHANGED <<cli, machine, request>>
  BY RequestStays
<1>2. request' = RequestOf(cli', machine') /\ Refused(cli, machine)' = Refused(cli, machine)
  BY <1>1 DEF RequestHonest, Refused, RequestOf
<1>3. CASE Refused(cli, machine)
  <2>1. ui \in {"main", "exited"} /\ handle = "starting"
    BY <1>3 DEF RequestHonest
  <2>2. CASE ui = "main"
    <3>1. CASE Engine
      <4>1. handle' = handle
        BY <3>1, ThreadActive DEF Engine, IInv, handleVars
      <4>2. ui' = ui
        BY <3>1 DEF Engine, frontVars
      <4>. QED  BY <1>2, <2>1, <2>2, <4>1, <4>2 DEF RequestHonest
    <3>2. CASE SearchingOn \/ Exited \/ UNCHANGED fvars
      <4>1. UNCHANGED <<ui, handle>>
        BY <3>2 DEF SearchingOn, BoundReached, Exited, fvars, frontVars, vars, handleVars
      <4>. QED  BY <1>2, <2>1, <2>2, <4>1 DEF RequestHonest
    <3>3. CASE RunBench \/ RejectPrefix \/ Verify \/ Launch
      <4>1. ui' = "exited" /\ handle' = handle
        BY <1>3, <3>3 DEF RunBench, RejectPrefix, Verify, Launch, Exit, vars, handleVars
      <4>. QED  BY <1>2, <2>1, <4>1 DEF RequestHonest
    <3>4. CASE MainStep /\ ~(RunBench \/ RejectPrefix \/ Verify \/ Launch)
      BY <2>2, <3>4 DEF MainStep, Construct, Constructed, EnterRaw, EnterAlternate, Sample,
         Draw, Tick, Quit, CallFinish, Finishing, MainPanics, Finished, Leave, Report
    <3>5. ~(KeyQuit \/ TuiFails \/ ReportFails)
      BY <2>2 DEF KeyQuit, TuiFails, ReportFails
    <3>. QED  BY <3>1, <3>2, <3>3, <3>4, <3>5 DEF FNext
  <2>3. CASE ui = "exited"
    <3>1. UNCHANGED <<ui, vars>>
      BY <2>3 DEF FNext, MainStep, RunBench, RejectPrefix, Verify, Launch,
         Construct, Constructed, EnterRaw, EnterAlternate, Sample, Draw, Tick, Quit,
         CallFinish, Finishing, MainPanics, Finished, Leave, Report, KeyQuit, TuiFails,
         ReportFails, Engine, SearchingOn, Exited, fvars, frontVars
    <3>. QED  BY <1>2, <2>1, <3>1 DEF RequestHonest, vars, handleVars
  <2>. QED  BY <2>1, <2>2, <2>3
<1>4. CASE ~Refused(cli, machine)
  BY <1>2, <1>4 DEF RequestHonest
<1>. QED  BY <1>3, <1>4

(***************************************************************************)
(* 8. The theorems.                                                        *)
(***************************************************************************)

\* The invariant holds when main begins.
LEMMA InitFInv == FInit => FInv
<1>. SUFFICES ASSUME FInit PROVE FInv
  OBVIOUS
<1>1. IInv
  BY InitIInv DEF FInit
<1>2. /\ handle = "starting" /\ spawned = 0 /\ ui = "main" /\ exit = "none"
      /\ screen = {} /\ seen = FALSE
      /\ cli \in Clis /\ machine \in Machines /\ request = RequestOf(cli, machine)
  BY DEF FInit, Init
<1>3. FTypeOK
  BY <1>1, <1>2 DEF IInv, FTypeOK
<1>4. EngineAt
  BY <1>2 DEF EngineAt
<1>5. LoopOK /\ TerminalOK
  BY <1>2 DEF LoopOK, TerminalOK
<1>6. RequestHonest
  BY <1>2 DEF RequestHonest
<1>. QED  BY <1>1, <1>3, <1>4, <1>5, <1>6 DEF FInv

\* The invariant is inductive.
LEMMA NextFInv == FInv /\ [FNext]_fvars => FInv'
<1>. SUFFICES ASSUME FInv, [FNext]_fvars PROVE FInv'
  OBVIOUS
<1>1. IInv'
  BY FNextIsNext, NextIInv DEF FInv
<1>2. FTypeOK'
  BY <1>1, FTypeOKStep DEF FInv, IInv
<1>. QED
  BY <1>1, <1>2, EngineAtStep, LoopOKStep, TerminalOKStep, RequestHonestStep DEF FInv

\* Wherever main is, the engine is where main put it, the loop has acted on what
\* it read, and the request is the one of the command line.
THEOREM FrontendInvariance == FSpec => []FInv
BY InitFInv, NextFInv, PTL DEF FSpec

\* When finish() has returned, every thread of the search has.
LEMMA AllReturned ==
  ASSUME TypeOK, HandleOK, handle = "done", NEW w \in 1..Total
  PROVE  pc[w] = "returned"
<1>1. w \in 1..joined
  BY DEF HandleOK
<1>. QED  BY <1>1 DEF HandleOK

\* Nothing has been found before the first thread is spawned.
LEMMA NotFoundUnspawned ==
  ASSUME IInv, spawned = 0
  PROVE  ~found
<1>1. \A w \in Threads : pc[w] = "unspawned"
  BY DEF IInv, HandleOK, Threads
<1>2. Published = {}
  BY <1>1 DEF Published
<1>. QED  BY <1>1, <1>2 DEF IInv, ResultOK

\* The exit code tells the truth: 0 comes with a genuine key and 1 with a search
\* that found nothing, both after every thread has returned.
THEOREM ExitCodeTellsTheTruth == FSpec => []ExitCodeHonest
<1>1. FInv => ExitCodeHonest
  <2>. SUFFICES ASSUME FInv PROVE ExitCodeHonest
    OBVIOUS
  <2>1. handle = "done" => \A w \in 1..Total : pc[w] = "returned"
    BY AllReturned DEF FInv, IInv
  <2>2. GenuineResult /\ FoundNotLost
    BY GenuineFromIInv, FoundFromIInv DEF FInv
  <2>3. exit \in {"key", "no match"} => handle = "done"
    BY DEF FInv, EngineAt
  <2>. QED
    BY <2>1, <2>2, <2>3 DEF FInv, EngineAt, ExitCodeHonest, GenuineResult, FoundNotLost
<1>. QED  BY <1>1, FrontendInvariance, PTL

\* A key that was found is printed, or the user quit, a stream failed, or a
\* worker died.
THEOREM FoundKeysAreDelivered == FSpec => []KeyDelivered
<1>1. FInv => KeyDelivered
  <2>. SUFFICES ASSUME FInv, ui = "exited", found
                PROVE  \/ exit = "key"
                       \/ exit = "quit" /\ ~cli.json /\ ~seen
                       \/ exit = "tui error" /\ ~cli.json
                       \/ exit = "unwritten" /\ outcome.ok
                       \/ exit = "panic" /\ \E w \in Threads : pc[w] = "panicked"
    BY DEF KeyDelivered
  <2>1. exit \notin Unlaunched
    BY NotFoundUnspawned DEF FInv, EngineAt
  <2>2. exit # "none"
    BY DEF FInv, FTypeOK
  <2>3. handle = "done" => outcome.ok
    BY FoundFromIInv DEF FInv, FoundNotLost
  <2>4. CASE exit \in {"key", "no match", "unwritten"}
    BY <2>3, <2>4 DEF FInv, EngineAt
  <2>5. CASE exit \in {"quit", "tui error"}
    BY <2>5 DEF FInv, LoopOK
  <2>6. CASE exit = "panic"
    BY <2>6 DEF FInv, EngineAt
  <2>7. exit \in Unlaunched \cup {"none", "quit", "tui error", "panic", "key", "no match",
                                  "unwritten"}
    BY DEF FInv, FTypeOK, Unlaunched
  <2>. QED  BY <2>1, <2>2, <2>4, <2>5, <2>6, <2>7
<1>. QED  BY <1>1, FrontendInvariance, PTL

\* The terminal is restored on every way out but an error or a panic.
THEOREM TerminalIsRestored == FSpec => []ScreenRestored
<1>1. FInv => ScreenRestored
  BY DEF FInv, TerminalOK, ScreenRestored
<1>. QED  BY <1>1, FrontendInvariance, PTL

\* The interactive loop never waits in finish() for a search that goes on.
THEOREM LoopNeverBlocks == FSpec => []NeverBlocksOnSearch
<1>1. FInv => NeverBlocksOnSearch
  <2>. SUFFICES ASSUME FInv, handle = "joining", ~cli.json PROVE found
    BY DEF NeverBlocksOnSearch
  <2>1. ui \notin {"main", "construct", "enter", "alternate", "sample", "draw", "poll", "quit",
                   "finish", "leave", "report"}
    BY DEF FInv, EngineAt
  <2>. QED  BY <2>1 DEF FInv, FTypeOK, EngineAt, LoopOK, Unlaunched
<1>. QED  BY <1>1, FrontendInvariance, PTL

\* default_hybrid_cpu_threads leaves at least one CPU worker.
LEMMA HybridKeepsACpu ==
  ASSUME NEW m \in Machines, NEW n \in Nat
  PROVE  default_hybrid_cpu_threads(m, n) \in Nat \ {0}
<1>1. m.logical \in Nat
  BY MachinesAssumption
<1>2. SmtFactor(m) \in Nat
  BY DEF SmtFactor
<1>. DEFINE d == m.logical - SmtFactor(m) * n
<1>3. d \in Int
  BY <1>1, <1>2
<1>. HIDE DEF d
<1>4. Max({d, 1}) \in Nat \ {0}
  BY <1>3, MaxWithOne, Zenon
<1>. QED  BY <1>4, Zenon DEF default_hybrid_cpu_threads, d

\* A search has workers of the kinds its command line and its machine call for.
THEOREM ModeIsHonoured == FSpec => []ModeHonoured
<1>1. FInv => ModeHonoured
  <2>. SUFFICES ASSUME FInv, handle # "starting"
                PROVE  /\ cli.gpu_only => request.cpu = 0 /\ request.gpu > 0
                       /\ request.gpu > 0 <=> ~cli.cpu_only /\ machine.build # "cpu"
                                              /\ machine.opens
                       /\ ~cli.gpu_only /\ cli.threads # 0 => request.cpu > 0
    BY DEF ModeHonoured
  <2>. DEFINE g == GpuSearchers(cli, machine)  n == NumThreads(cli, machine)
  <2>1. request = RequestOf(cli, machine) /\ ~Refused(cli, machine)
    BY DEF FInv, RequestHonest
  <2>2. cli \in Clis /\ machine \in Machines
    BY DEF FInv, FTypeOK
  <2>3. ~(cli.cpu_only /\ cli.gpu_only) /\ machine.logical \in Nat \ {0}
        /\ cli.threads \in Nat \cup {AllCores}
    BY <2>2, MachinesAssumption
  <2>4. g \in {0, 1} /\ (g = 1 <=> ~cli.cpu_only /\ machine.build # "cpu" /\ machine.opens)
    BY DEF GpuSearchers, try_init_gpu
  <2>5. ~cli.gpu_only /\ cli.threads # 0 => n \in Nat \ {0}
    <3>1. default_hybrid_cpu_threads(machine, g) \in Nat \ {0}
      BY <2>2, <2>4, HybridKeepsACpu
    <3>. QED  BY <2>3, <3>1 DEF NumThreads
  <2>6. cli.gpu_only => g = 1
    BY <2>1, <2>4 DEF Refused
  <2>. HIDE DEF g, n
  <2>7. CASE cli.gpu_only
    <3>1. request.cpu = 0 /\ request.gpu = g
      BY <2>1, <2>7 DEF RequestOf, StartGpu, g
    <3>. QED  BY <2>4, <2>6, <2>7, <3>1
  <2>8. CASE ~cli.gpu_only /\ g = 0
    <3>1. request.cpu = n /\ request.gpu = 0
      BY <2>1, <2>8 DEF RequestOf, StartCpu, g, n
    <3>. QED  BY <2>4, <2>5, <2>8, <3>1
  <2>9. CASE ~cli.gpu_only /\ g # 0
    <3>1. request.cpu = n /\ request.gpu = g
      BY <2>1, <2>9 DEF RequestOf, StartHybrid, StartGpu, g, n
    <3>. QED  BY <2>4, <2>5, <2>9, <3>1
  <2>. QED  BY <2>7, <2>8, <2>9
<1>. QED  BY <1>1, FrontendInvariance, PTL

\* What is shown of the engine holds of it inside the program: main
\* steps it in every order the command line, the polls and the key press allow.
THEOREM EngineInProgram ==
  FSpec => [](GenuineResult /\ FoundNotLost /\ NothingOverlooked /\ KeyNearDraw)
<1>1. IInv => GenuineResult /\ FoundNotLost /\ NothingOverlooked /\ KeyNearDraw
  BY GenuineFromIInv, FoundFromIInv, NearDrawFromIInv DEF IInv
<1>. QED  BY <1>1, EngineInvariance, PTL

\* The whole program implements the promise of VanitySearch.
THEOREM ProgramImplementation == FSpec => ImplementsVanitySearch
<1>1. FInit => VS!Init
  BY AbstractInit DEF FInit
<1>2. IInv /\ [FNext]_fvars => [VS!Next]_(VS!vars)
  BY FNextIsNext, AbstractStep
<1>. QED  BY <1>1, <1>2, EngineInvariance, PTL DEF FSpec, ImplementsVanitySearch, VS!Spec
=============================================================================
