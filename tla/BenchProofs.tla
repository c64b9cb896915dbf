---------------------------- MODULE BenchProofs ----------------------------
(***************************************************************************)
(* Proofs about module Bench, for every machine, every number of workers,  *)
(* every batch size and flush threshold: the modes of a bench run never    *)
(* overlap, and a record is written only when no worker holds a count.     *)
(*                                                                         *)
(*   1. how many workers a mode starts                                     *)
(*   2. the invariant holds at first, and run() preserves it               *)
(*   3. the workers preserve it                                            *)
(*   4. what they hold balances the shared counters                        *)
(*   5. the theorems                                                       *)
(***************************************************************************)
EXTENDS Bench, SumLemmas

(***************************************************************************)
(* 1. How many workers a mode starts.                                      *)
(***************************************************************************)

\* The three numbers of CPU workers a mode may ask for are counts.
LEMMA PhysicalThreadsNat ==
  ASSUME machine \in Machines, threads \in ThreadArgs
  PROVE  NumThreads \in Nat /\ PhysicalThreads \in Nat /\ HybridThreads \in Nat
<1>1. machine \in [logical : Nat \ {0}, physical : Nat, gpus : 0..1, metal : BOOLEAN]
  BY BenchAssumption
<1>2. NumThreads \in Nat
  BY <1>1, BenchAssumption DEF NumThreads
<1>3. PhysicalThreads \in Nat
  <2>1. NumThreads \div 2 \in Int
    BY <1>2
  <2>2. Max({NumThreads \div 2, 1}) \in Nat
    BY <2>1, MaxWithOne, Zenon
  <2>. QED  BY <1>1, <2>2 DEF PhysicalThreads
<1>4. HybridThreads \in Nat
  <2>. DEFINE spare == machine.logical - SmtFactor(machine) * machine.gpus
  <2>1. spare \in Int
    BY <1>1 DEF SmtFactor
  <2>2. Max({spare, 1}) \in Nat
    BY <2>1, MaxWithOne, Zenon
  <2>3. default_hybrid_cpu_threads(machine, machine.gpus) \in Nat
    BY <2>2, Zenon DEF default_hybrid_cpu_threads
  <2>. QED  BY <2>3, BenchAssumption DEF HybridThreads
<1>. QED  BY <1>2, <1>3, <1>4

\* Every mode asks for a number of CPU workers and a number of GPUs.
LEMMA RequestNat ==
  ASSUME machine \in Machines, threads \in ThreadArgs, NEW mode \in ModeNames
  PROVE  RequestOf(mode) \in [cpu : Nat, gpu : Nat]
<1>1. machine.gpus \in Nat
  BY BenchAssumption
<1>. QED  BY <1>1, PhysicalThreadsNat DEF RequestOf, ModeNames

\* Taking the next mode leaves a list of modes.
LEMMA NextMode ==
  ASSUME todo \in Seq(ModeNames), todo # <<>>
  PROVE  Head(todo) \in ModeNames /\ Tail(todo) \in Seq(ModeNames)
OBVIOUS

(***************************************************************************)
(* 2. The invariant holds at first, and the steps of run() preserve it.    *)
(***************************************************************************)

\* A run starts with no worker and nothing counted.
LEMMA InitStagesOK == Init => StagesOK
<1>. SUFFICES ASSUME Init PROVE StagesOK
  OBVIOUS
<1>. USE DEF Init, Zero
<1>1. todo \in Seq(ModeNames)
  <2>1. PICK mode \in Modes : todo = expand_modes(mode)
    OBVIOUS
  <2>2. CASE mode = "all"
    <3>1. todo = <<"cpu1", "cpuP", "cpuN", "gpu", "hybrid">>
      BY <2>1, <2>2 DEF expand_modes
    <3>2. /\ "cpu1" \in ModeNames /\ "cpuP" \in ModeNames /\ "cpuN" \in ModeNames
          /\ "gpu" \in ModeNames /\ "hybrid" \in ModeNames
      BY DEF ModeNames
    <3>. QED  BY <3>1, <3>2
  <2>3. CASE mode # "all"
    <3>1. todo = <<mode>> /\ mode \in ModeNames
      BY <2>1, <2>3, BenchAssumption DEF expand_modes
    <3>. QED  BY <3>1
  <2>. QED  BY <2>2, <2>3
<1>2. 0 \in 0..(FlushEvery + ChainBatch - 1) /\ 0 < FlushEvery
  BY BenchAssumption
<1>3. BTypeOK
  <2>1. request \in [cpu : Nat, gpu : Nat] /\ Total = 0
    BY DEF Total
  <2>2. localKeys \in [Workers -> 0..(FlushEvery + ChainBatch - 1)]
    BY <1>2
  <2>3. /\ pc \in [Workers -> {"spawned", "loop", "flush keys", "flush matches",
                         "drain keys", "drain matches", "dispatch", "exited",
                         "panicked"}]
        /\ localMatches \in [Workers -> Nat]
    OBVIOUS
  <2>4. /\ machine \in Machines /\ threads \in ThreadArgs /\ joined \in 0..Total
        /\ stage \in {"validate", "pick", "measuring", "joining", "failed"}
        /\ stop \in BOOLEAN /\ keys \in Nat /\ matches \in Nat
    <3>1. joined = 0 /\ 0 \in 0..Total
      BY <2>1
    <3>. QED  BY <3>1, Zenon
  <2>. QED  BY <1>1, <2>1, <2>2, <2>3, <2>4, Zenon DEF BTypeOK
<1>4. ModesIsolated /\ \A w \in Workers : Gone(w)
  BY DEF ModesIsolated, Gone
<1>5. \A w \in Workers : HandsOK(w)
  BY <1>2 DEF HandsOK, Gone
<1>6. stage = "validate"
  OBVIOUS
<1>. QED  BY <1>3, <1>4, <1>5, <1>6, Zenon DEF StagesOK

\* The steps of run() and run_one_mode.
LEMMA RunStepStagesOK == StagesOK /\ RunStep => StagesOK'
<1>. SUFFICES ASSUME StagesOK, RunStep PROVE StagesOK'
  OBVIOUS
<1>0. /\ BTypeOK /\ ModesIsolated
      /\ stage \in {"measuring", "joining"} => todo # <<>>
      /\ \A w \in Workers : HandsOK(w) /\ (w <= joined \/ w > Total => Gone(w))
  BY DEF StagesOK
<1>a. /\ request \in [cpu : Nat, gpu : Nat] /\ Total \in Nat /\ joined \in 0..Total
      /\ todo \in Seq(ModeNames)
  <2>1. request \in [cpu : Nat, gpu : Nat]
    BY <1>0 DEF BTypeOK
  <2>2. Total \in Nat
    BY <2>1 DEF Total
  <2>3. joined \in 0..Total /\ todo \in Seq(ModeNames)
    BY <1>0, Zenon DEF BTypeOK
  <2>. QED  BY <2>1, <2>2, <2>3
<1>. SUFFICES /\ BTypeOK' /\ ModesIsolated'
              /\ (stage \in {"measuring", "joining"} => todo # <<>>)'
              /\ \A w \in Workers : HandsOK(w)' /\ (w <= joined' \/ w > Total' => Gone(w)')
  BY DEF StagesOK
<1>1. CASE Validate \/ Skip
  <2>1. todo' \in Seq(ModeNames) /\ stage' \in {"pick", "failed"}
    BY <1>a, <1>1, NextMode DEF Validate, Skip
  <2>2. UNCHANGED <<machine, threads, request, joined, cellVars, pc, workVars>>
    BY <1>1 DEF Validate, Skip
  <2>3. \A w \in Workers : Gone(w)
    BY <1>0, <1>1 DEF ModesIsolated, Validate, Skip
  <2>4. stage' \notin {"measuring", "joining"}
    BY <2>1
  <2>. QED
    BY <1>0, <2>1, <2>2, <2>3, <2>4
    DEF BTypeOK, ModesIsolated, HandsOK, Gone, Total, IsCpu, cellVars, workVars
<1>2. CASE Start
  <2>1. request' \in [cpu : Nat, gpu : Nat]
    BY <1>0, <1>2, NextMode, RequestNat DEF BTypeOK, Start
  <2>2. /\ stage' = "measuring" /\ joined' = 0
        /\ UNCHANGED <<machine, threads, todo, cellVars, workVars>>
        /\ pc' = [w \in Workers |-> IF w <= Total' THEN "spawned" ELSE "exited"]
    BY <1>2 DEF Start, Total
  <2>3. \A w \in Workers : localKeys[w] = 0 /\ localMatches[w] = 0
    BY <1>0, <1>2 DEF Start, ModesIsolated, HandsOK
  <2>4. BTypeOK'
    <3>1. joined' \in 0..Total'
      BY <2>1, <2>2 DEF Total
    <3>2. pc' \in [Workers -> {"spawned", "exited"}]
      BY <2>2
    <3>3. pc' \in [Workers -> {"spawned", "loop", "flush keys", "flush matches",
                           "drain keys", "drain matches", "dispatch", "exited",
                           "panicked"}]
      BY <3>2
    <3>. QED  BY <1>0, <2>1, <2>2, <3>1, <3>3, Zenon DEF BTypeOK, cellVars, workVars
  <2>5. ModesIsolated'
    BY <2>2 DEF ModesIsolated
  <2>6. ASSUME NEW w \in Workers
        PROVE  HandsOK(w)' /\ (w <= joined' \/ w > Total' => Gone(w)')
    <3>1. w \in Nat /\ w >= 1 /\ Total' \in Nat
      BY <2>1, BenchAssumption DEF Workers, Total
    <3>2. localKeys'[w] = 0 /\ localMatches'[w] = 0
      BY <2>2, <2>3 DEF workVars
    <3>. QED  BY <2>2, <3>1, <3>2, BenchAssumption DEF HandsOK, Gone
  <2>7. todo' # <<>>
    BY <1>2 DEF Start
  <2>. QED  BY <2>4, <2>5, <2>6, <2>7
<1>3. CASE RaiseStop
  BY <1>0, <1>3
  DEF RaiseStop, BTypeOK, ModesIsolated, HandsOK, Gone, Total, IsCpu, workVars
<1>4. CASE Join
  <2>0. joined \in 0..Total /\ joined < Total /\ joined' = joined + 1
    BY <1>a, <1>4 DEF Join
  <2>1. joined \in Nat /\ joined' \in 0..Total
    BY <1>a, <2>0
  <2>2. /\ stage' = "joining"
        /\ UNCHANGED <<machine, threads, todo, request, cellVars, pc, workVars>>
    BY <1>4 DEF Join
  <2>3. \A w \in Workers : w <= joined' => Gone(w)
    BY <1>0, <1>4, <2>0, <2>1, BenchAssumption DEF Join, Gone, Workers
  <2>4. BTypeOK'
    BY <1>0, <2>1, <2>2 DEF BTypeOK, Total, cellVars, workVars
  <2>5. \A w \in Workers : HandsOK(w)' /\ (w > Total' => Gone(w)')
    BY <1>0, <2>2 DEF HandsOK, Gone, Total, IsCpu, workVars
  <2>6. \A w \in Workers : w <= joined' => Gone(w)'
    BY <2>2, <2>3 DEF Gone
  <2>7. stage = "joining" /\ todo' = todo
    BY <1>4 DEF Join
  <2>. QED  BY <1>0, <2>2, <2>4, <2>5, <2>6, <2>7 DEF ModesIsolated
<1>5. CASE Record \/ WriteFails
  <2>1. \A w \in Workers : Gone(w)
    <3>1. \A w \in Workers : w <= joined \/ w > Total
      BY <1>a, <1>5, BenchAssumption DEF Record, WriteFails, JoinedAll, Workers
    <3>. QED  BY <1>0, <3>1
  <2>2. todo' \in Seq(ModeNames) /\ stage' \in {"pick", "failed"}
    <3>1. CASE Record
      <4>1. stage = "joining" /\ todo' = Tail(todo) /\ stage' = "pick"
        BY <3>1, Zenon DEF Record
      <4>2. todo # <<>>
        BY <1>0, <4>1
      <4>. QED  BY <1>a, <4>1, <4>2, NextMode
    <3>2. CASE WriteFails
      BY <1>a, <3>2, Zenon DEF WriteFails
    <3>. QED  BY <1>5, <3>1, <3>2
  <2>3. /\ UNCHANGED <<machine, threads, request, joined, pc>>
        /\ stop' = FALSE /\ keys' = 0 /\ matches' = 0
        /\ localKeys' = Zero /\ localMatches' = Zero
    BY <1>5 DEF Record, WriteFails, Dropped
  <2>4. BTypeOK'
    <3>1. 0 \in 0..(FlushEvery + ChainBatch - 1)
      BY BenchAssumption
    <3>2. /\ localKeys' \in [Workers -> 0..(FlushEvery + ChainBatch - 1)]
          /\ localMatches' \in [Workers -> Nat]
      BY <2>3, <3>1 DEF Zero
    <3>3. stop' \in BOOLEAN /\ keys' \in Nat /\ matches' \in Nat
      BY <2>3
    <3>4. stage' \in {"validate", "pick", "measuring", "joining", "failed"}
      BY <2>2
    <3>5. Total' = Total
      BY <2>3, Zenon DEF Total
    <3>. QED  BY <1>0, <2>2, <2>3, <3>2, <3>3, <3>4, <3>5, Zenon DEF BTypeOK
  <2>5. stage' \notin {"measuring", "joining"}
    BY <2>2
  <2>. QED
    BY <2>1, <2>3, <2>4, <2>5, BenchAssumption DEF ModesIsolated, HandsOK, Gone, Total, Zero
<1>. QED  BY <1>1, <1>2, <1>3, <1>4, <1>5 DEF RunStep

(***************************************************************************)
(* 3. The workers.  A step of a worker moves its label and its two counts. *)
(***************************************************************************)
Counts == 0..(FlushEvery + ChainBatch - 1)

Labels == {"spawned", "loop", "flush keys", "flush matches", "drain keys",
           "drain matches", "dispatch", "exited", "panicked"}

\* Worker w goes on at `label` with these counts, which HandsOK allows there.
MovesTo(w, label, k, m) ==
  /\ pc' = [pc EXCEPT ![w] = label]
  /\ localKeys' = [localKeys EXCEPT ![w] = k]
  /\ localMatches' = [localMatches EXCEPT ![w] = m]

Fits(cpu, label, k, m) ==
  /\ label \in Labels /\ k \in Counts /\ m \in Nat
  /\ \/ label \in {"spawned", "dispatch", "exited", "panicked"}
     \/ label = "loop" /\ ~cpu
     => k = 0 /\ m = 0
  /\ label \in {"flush matches", "drain matches"} => k = 0
  /\ label \in {"flush keys", "drain keys", "drain matches"} => cpu
  /\ label = "loop" => k < FlushEvery

RestOK ==
  /\ UNCHANGED <<machine, threads, todo, stage, request, joined, stop>>
  /\ keys' \in Nat /\ matches' \in Nat

\* HandsOK is Fits of the worker's place and counts.
LEMMA HandsFit ==
  ASSUME NEW w \in Workers,
         pc[w] \in Labels, localKeys[w] \in Counts, localMatches[w] \in Nat
  PROVE  HandsOK(w) <=> Fits(IsCpu(w), pc[w], localKeys[w], localMatches[w])
BY DEF HandsOK, Fits, Gone

\* What writing one entry of a function changes.
LEMMA Update ==
  ASSUME NEW S, NEW T, NEW f \in [S -> T], NEW x \in S, NEW y \in T
  PROVE  /\ [f EXCEPT ![x] = y] \in [S -> T] /\ [f EXCEPT ![x] = y][x] = y
         /\ \A z \in S \ {x} : [f EXCEPT ![x] = y][z] = f[z]
OBVIOUS

\* Writing back what is there changes nothing.
LEMMA NoUpdate ==
  ASSUME NEW S, NEW T, NEW f \in [S -> T], NEW x \in S
  PROVE  f = [f EXCEPT ![x] = f[x]]
OBVIOUS

\* What StagesOK says of one worker before it moves.
LEMMA BeforeMove ==
  ASSUME StagesOK, NEW w \in Workers
  PROVE  /\ pc \in [Workers -> Labels] /\ localKeys \in [Workers -> Counts]
         /\ localMatches \in [Workers -> Nat] /\ keys \in Nat /\ matches \in Nat
         /\ pc[w] \in Labels /\ localKeys[w] \in Counts /\ localMatches[w] \in Nat
         /\ Fits(IsCpu(w), pc[w], localKeys[w], localMatches[w])
<1>1. /\ pc \in [Workers -> Labels] /\ localKeys \in [Workers -> Counts]
      /\ localMatches \in [Workers -> Nat] /\ keys \in Nat /\ matches \in Nat
  BY Zenon DEF StagesOK, BTypeOK, Labels, Counts
<1>2. pc[w] \in Labels /\ localKeys[w] \in Counts /\ localMatches[w] \in Nat
  BY <1>1, Zenon
<1>3. HandsOK(w)
  BY Zenon DEF StagesOK
<1>. QED  BY <1>1, <1>2, <1>3, HandsFit, Zenon

\* The range of the counts.
LEMMA CountsRange ==
  /\ 0 \in Counts /\ 0 < FlushEvery /\ Counts \subseteq Nat
  /\ \A k \in Counts : k < FlushEvery => k + ChainBatch \in Counts
BY BenchAssumption DEF Counts

\* Matches among candidates are counted by a natural number.
LEMMA HitsNat ==
  ASSUME NEW k, NEW n \in HitsAmong(k)
  PROVE  n \in Nat
<1>1. n \in 0..MaxHits
  BY Zenon DEF HitsAmong
<1>. QED  BY <1>1, BenchAssumption

\* Whichever way a launch is counted, a worker in its dispatch is given a number
\* of matches to flush.
LEMMA CountedIsNat ==
  ASSUME NEW w \in Workers, GpuCount(w) \/ GpuLossyCount(w)
  PROVE  pc[w] = "dispatch" /\ \E m \in Nat : Counted(w, m)
<1>1. CASE GpuCount(w)
  <2>1. PICK n \in HitsAmong(GpuBatchKeys) : Counted(w, n)
    BY <1>1, Zenon DEF GpuCount
  <2>2. n \in Nat
    BY HitsNat, Zenon
  <2>. QED  BY <1>1, <2>1, <2>2, Zenon DEF GpuCount
<1>2. CASE GpuLossyCount(w)
  <2>1. PICK k \in 0..GpuBatchKeys : \E n \in HitsAmong(k) : \E m \in 0..n : Counted(w, m)
    BY <1>2, Zenon DEF GpuLossyCount
  <2>2. PICK n \in HitsAmong(k) : \E m \in 0..n : Counted(w, m)
    BY <2>1, Zenon
  <2>3. PICK m \in 0..n : Counted(w, m)
    BY <2>2, Zenon
  <2>4. m \in Nat
    BY HitsNat, <2>3
  <2>. QED  BY <1>2, <2>3, <2>4, Zenon DEF GpuLossyCount
<1>. QED  BY <1>1, <1>2

\* Each step of a worker is such a move.
LEMMA WorkerMoves ==
  ASSUME StagesOK, NEW w \in Workers, WorkerStep(w)
  PROVE  /\ RestOK
         /\ \E label, k, m : MovesTo(w, label, k, m) /\ Fits(IsCpu(w), label, k, m)
<1>1. /\ pc \in [Workers -> Labels] /\ localKeys \in [Workers -> Counts]
      /\ localMatches \in [Workers -> Nat] /\ keys \in Nat /\ matches \in Nat
      /\ pc[w] \in Labels /\ localKeys[w] \in Counts /\ localMatches[w] \in Nat
      /\ Fits(IsCpu(w), pc[w], localKeys[w], localMatches[w])
  BY BeforeMove, Zenon
<1>2. /\ localKeys = [localKeys EXCEPT ![w] = localKeys[w]]
      /\ localMatches = [localMatches EXCEPT ![w] = localMatches[w]]
  BY <1>1, NoUpdate, Zenon
<1>n. /\ keys \in Nat /\ matches \in Nat
      /\ localKeys[w] \in Nat /\ localMatches[w] \in Nat
  BY <1>1, CountsRange, Zenon
<1>s. /\ ChainBatch \in Nat /\ FlushEvery \in Nat /\ GpuBatchKeys \in Nat
      /\ 0..MaxHits \subseteq Nat
  BY BenchAssumption
<1>. USE DEF Goto, runVars, cellVars, workVars
<1>3. CASE CpuStart(w) \/ RngPanic(w) \/ CpuStop(w) \/ GpuDispatch(w)
           \/ GpuError(w) \/ GpuStop(w)
  <2>1. PICK label \in Labels :
          /\ pc' = [pc EXCEPT ![w] = label]
          /\ UNCHANGED <<machine, threads, todo, stage, request, joined, stop, keys,
                         matches, localKeys, localMatches>>
          /\ \/ label = "drain keys" /\ pc[w] = "loop" /\ IsCpu(w)
             \/ label = "loop" /\ pc[w] = "spawned"
             \/ /\ label \in {"panicked", "exited", "dispatch"}
                /\ \/ pc[w] \in {"spawned", "dispatch"}
                   \/ pc[w] = "loop" /\ ~IsCpu(w)
    BY <1>3
    DEF CpuStart, RngPanic, CpuStop, GpuDispatch, GpuError, GpuStop, Labels
  <2>2. Fits(IsCpu(w), label, localKeys[w], localMatches[w])
    BY <1>1, <2>1, CountsRange DEF Fits
  <2>3. MovesTo(w, label, localKeys[w], localMatches[w])
    BY <1>2, <2>1, Zenon DEF MovesTo
  <2>4. RestOK
    BY <1>1, <2>1, Zenon DEF RestOK
  <2>. QED  BY <2>2, <2>3, <2>4, Zenon
<1>4. CASE CpuBatch(w)
  <2>1. PICK n \in 0..MaxHits : localMatches' = [localMatches EXCEPT ![w] = @ + n]
    BY <1>4, Zenon DEF CpuBatch
  <2>2. /\ localKeys' = [localKeys EXCEPT ![w] = localKeys[w] + ChainBatch]
        /\ pc' = [pc EXCEPT ![w] = IF FlushDue(localKeys'[w]) THEN "flush keys"
                                                            ELSE "loop"]
        /\ pc[w] = "loop" /\ IsCpu(w) /\ RestOK
    BY <1>1, <1>4, Zenon DEF CpuBatch, RestOK
  <2>3. localKeys[w] + ChainBatch \in Counts /\ localMatches[w] + n \in Nat
    <3>1. localKeys[w] < FlushEvery
      BY <1>1, <2>2, Zenon DEF Fits
    <3>2. localKeys[w] + ChainBatch \in Counts
      BY <1>1, <3>1, CountsRange, Zenon
    <3>3. n \in Nat
      BY <2>1, <1>s, Zenon
    <3>. QED  BY <1>n, <3>2, <3>3
  <2>4. localKeys'[w] = localKeys[w] + ChainBatch
    BY <1>1, <2>2, <2>3, Update, Zenon
  <2>. DEFINE next == IF FlushDue(localKeys'[w]) THEN "flush keys" ELSE "loop"
  <2>5. Fits(IsCpu(w), next, localKeys[w] + ChainBatch, localMatches[w] + n)
    <3>1. next = IF localKeys[w] + ChainBatch >= FlushEvery THEN "flush keys" ELSE "loop"
      BY <2>4, Zenon DEF FlushDue
    <3>. HIDE DEF next
    <3>2. CASE next = "flush keys"
      BY <2>2, <2>3, <3>2, Zenon DEF Fits, Labels
    <3>3. CASE next = "loop" /\ localKeys[w] + ChainBatch < FlushEvery
      BY <2>2, <2>3, <3>3, Zenon DEF Fits, Labels
    <3>4. \/ next = "flush keys"
          \/ next = "loop" /\ localKeys[w] + ChainBatch < FlushEvery
      <4>1. localKeys[w] + ChainBatch \in Nat
        BY <1>n, <1>s
      <4>2. \/ localKeys[w] + ChainBatch >= FlushEvery
            \/ localKeys[w] + ChainBatch < FlushEvery
        BY <1>s, <4>1
      <4>. QED  BY <3>1, <4>2, Zenon
    <3>. QED  BY <3>2, <3>3, <3>4, Zenon
  <2>6. MovesTo(w, next, localKeys[w] + ChainBatch, localMatches[w] + n)
    BY <2>1, <2>2, Zenon DEF MovesTo
  <2>. QED  BY <2>2, <2>5, <2>6, Zenon
<1>5. CASE FlushKeys(w)
  <2>. DEFINE next == IF pc[w] = "flush keys" THEN "flush matches" ELSE "drain matches"
  <2>1. /\ localKeys' = [localKeys EXCEPT ![w] = 0] /\ pc' = [pc EXCEPT ![w] = next]
        /\ keys' = keys + localKeys[w] /\ pc[w] \in {"flush keys", "drain keys"}
        /\ UNCHANGED <<machine, threads, todo, stage, request, joined, stop, matches,
                       localMatches>>
    BY <1>5 DEF FlushKeys, FlushedKeys
  <2>2. keys' \in Nat
    <3>1. keys' = keys + localKeys[w]
      BY <2>1, Zenon
    <3>. QED  BY <1>n, <3>1
  <2>3. Fits(IsCpu(w), next, 0, localMatches[w])
    BY <1>1, <2>1, CountsRange DEF Fits, Labels
  <2>4. MovesTo(w, next, 0, localMatches[w])
    BY <1>2, <2>1, Zenon DEF MovesTo
  <2>5. RestOK
    BY <1>1, <2>1, <2>2, Zenon DEF RestOK
  <2>. QED  BY <2>3, <2>4, <2>5, Zenon
<1>6. CASE FlushMatches(w)
  <2>. DEFINE next == IF pc[w] = "flush matches" THEN "loop" ELSE "exited"
  <2>1. /\ localMatches' = [localMatches EXCEPT ![w] = 0] /\ pc' = [pc EXCEPT ![w] = next]
        /\ matches' = matches + localMatches[w]
        /\ pc[w] \in {"flush matches", "drain matches"}
        /\ UNCHANGED <<machine, threads, todo, stage, request, joined, stop, keys,
                       localKeys>>
    BY <1>6 DEF FlushMatches, Drained
  <2>2. matches' \in Nat
    <3>1. matches' = matches + localMatches[w]
      BY <2>1, Zenon
    <3>. QED  BY <1>n, <3>1
  <2>3. Fits(IsCpu(w), next, localKeys[w], 0)
    BY <1>1, <2>1, CountsRange DEF Fits, Labels
  <2>4. MovesTo(w, next, localKeys[w], 0)
    BY <1>2, <2>1, Zenon DEF MovesTo
  <2>5. RestOK
    BY <1>1, <2>1, <2>2, Zenon DEF RestOK
  <2>. QED  BY <2>3, <2>4, <2>5, Zenon
<1>7. CASE GpuCount(w) \/ GpuLossyCount(w)
  <2>1. PICK m \in Nat : Counted(w, m) /\ pc[w] = "dispatch"
    BY <1>7, CountedIsNat, Zenon
  <2>2. /\ pc' = [pc EXCEPT ![w] = "flush matches"]
        /\ keys' = keys + GpuBatchKeys /\ localMatches' = [localMatches EXCEPT ![w] = m]
        /\ UNCHANGED <<machine, threads, todo, stage, request, joined, stop, matches,
                       localKeys>>
    BY <2>1, Zenon DEF Counted
  <2>3. keys' \in Nat
    <3>1. keys' = keys + GpuBatchKeys
      BY <2>2, Zenon
    <3>. QED  BY <1>n, <1>s, <3>1
  <2>4. Fits(IsCpu(w), "flush matches", localKeys[w], m)
    BY <1>1, <2>1, CountsRange DEF Fits, Labels
  <2>5. MovesTo(w, "flush matches", localKeys[w], m)
    BY <1>2, <2>2, Zenon DEF MovesTo
  <2>6. RestOK
    BY <1>1, <2>2, <2>3, Zenon DEF RestOK
  <2>. QED  BY <2>4, <2>5, <2>6, Zenon
<1>. QED  BY <1>3, <1>4, <1>5, <1>6, <1>7, Zenon DEF WorkerStep

\* A worker that is gone takes no step.
LEMMA GoneIsQuiet ==
  ASSUME NEW w \in Workers, WorkerStep(w)
  PROVE  ~Gone(w)
BY DEF WorkerStep, CpuStart, RngPanic, CpuBatch, CpuStop, FlushKeys, FlushMatches,
       GpuDispatch, GpuCount, GpuLossyCount, GpuError, GpuStop, Gone

\* A worker's move keeps the invariant: it is a worker of the current mode that
\* has not been joined, and the others are not touched.
LEMMA WorkerStepStagesOK ==
  ASSUME StagesOK, NEW w \in Workers, WorkerStep(w)
  PROVE  StagesOK'
<1>1. PICK label, k, m : MovesTo(w, label, k, m) /\ Fits(IsCpu(w), label, k, m)
  BY WorkerMoves, Zenon
<1>2. RestOK
  BY WorkerMoves, Zenon
<1>3. label \in Labels /\ k \in Counts /\ m \in Nat
  BY <1>1, Zenon DEF Fits
<1>4. /\ pc \in [Workers -> Labels] /\ localKeys \in [Workers -> Counts]
      /\ localMatches \in [Workers -> Nat]
  BY BeforeMove, Zenon
<1>5. /\ pc' \in [Workers -> Labels] /\ localKeys' \in [Workers -> Counts]
      /\ localMatches' \in [Workers -> Nat]
      /\ pc'[w] = label /\ localKeys'[w] = k /\ localMatches'[w] = m
      /\ \A v \in Workers \ {w} :
           /\ pc'[v] = pc[v] /\ localKeys'[v] = localKeys[v]
           /\ localMatches'[v] = localMatches[v]
  BY <1>1, <1>3, <1>4, Update, Zenon DEF MovesTo
<1>6. Total' = Total /\ \A v \in Workers : IsCpu(v)' = IsCpu(v)
  BY <1>2, Zenon DEF RestOK, Total, IsCpu
<1>7. /\ BTypeOK /\ ModesIsolated
      /\ stage \in {"measuring", "joining"} => todo # <<>>
      /\ \A v \in Workers : HandsOK(v) /\ (v <= joined \/ v > Total => Gone(v))
  BY Zenon DEF StagesOK
<1>8. BTypeOK'
  BY <1>2, <1>5, <1>6, <1>7, Zenon DEF BTypeOK, RestOK, Labels, Counts
<1>9. HandsOK(w)'
  <2>1. Fits(IsCpu(w)', pc'[w], localKeys'[w], localMatches'[w])
    BY <1>1, <1>5, <1>6 DEF IsCpu
  <2>. QED  BY <2>1 DEF HandsOK, Fits, Gone
<1>10. ASSUME NEW v \in Workers, v # w
       PROVE  HandsOK(v)' /\ (Gone(v)' <=> Gone(v))
  BY <1>5, <1>6, <1>7, <1>10, Zenon DEF HandsOK, Gone
<1>11. stage \notin {"validate", "pick", "failed"} /\ ~(w <= joined \/ w > Total)
  BY <1>7, GoneIsQuiet, Zenon DEF ModesIsolated
<1>12. ModesIsolated' /\ (stage \in {"measuring", "joining"} => todo # <<>>)'
  BY <1>2, <1>7, <1>11, Zenon DEF ModesIsolated, RestOK
<1>13. \A v \in Workers : HandsOK(v)' /\ (v <= joined' \/ v > Total' => Gone(v)')
  BY <1>2, <1>6, <1>7, <1>9, <1>10, <1>11, Zenon DEF RestOK
<1>. QED  BY <1>8, <1>12, <1>13, Zenon DEF StagesOK

(***************************************************************************)
(* 4. The counts.                                                          *)
(***************************************************************************)

\* The sum of a worker's count, for any count kept per worker.
LEMMA SumOfWorkers ==
  ASSUME NEW f \in [Workers -> Nat]
  PROVE  f \in [1..MaxWorkers -> Int] /\ MaxWorkers \in Nat /\ Sum(f) \in Int
<1>1. MaxWorkers \in Nat /\ f \in [1..MaxWorkers -> Int]
  BY BenchAssumption DEF Workers
<1>. QED  BY <1>1, SumInt DEF Sum

\* The counts of one worker change, and with them the sum.
LEMMA SumMoves ==
  ASSUME NEW f \in [Workers -> Nat], NEW g \in [Workers -> Nat], NEW w \in Workers,
         \A v \in Workers \ {w} : g[v] = f[v]
  PROVE  Sum(g) = Sum(f) + g[w] - f[w]
<1>1. MaxWorkers \in Nat /\ f \in [1..MaxWorkers -> Int] /\ g \in [1..MaxWorkers -> Int]
  BY SumOfWorkers, Zenon
<1>2. w \in 1..MaxWorkers /\ \A v \in 1..MaxWorkers : v # w => g[v] = f[v]
  BY Zenon DEF Workers
<1>3. SumUpTo(g, MaxWorkers) = SumUpTo(f, MaxWorkers) + g[w] - f[w]
  BY <1>1, <1>2, SumUpdate, Zenon
<1>. QED  BY <1>3 DEF Sum

\* Where nothing has been counted, nothing balances.
LEMMA SumOfZero == Sum(Zero) = 0 /\ Zero \in [Workers -> Nat]
<1>1. MaxWorkers \in Nat /\ Zero \in [1..MaxWorkers -> Int] /\ Zero \in [Workers -> Nat]
  BY BenchAssumption DEF Zero, Workers
<1>2. \A k \in 1..MaxWorkers : Zero[k] = 0
  BY DEF Zero, Workers
<1>. QED  BY <1>1, <1>2, SumOfZeros, Zenon DEF Sum

\* The counts of a worker are numbers.
LEMMA HandsNat ==
  ASSUME StagesOK
  PROVE  /\ localKeys \in [Workers -> Nat] /\ localMatches \in [Workers -> Nat]
         /\ keys \in Nat /\ matches \in Nat
<1>1. localKeys \in [Workers -> Counts] /\ localMatches \in [Workers -> Nat]
      /\ keys \in Nat /\ matches \in Nat
  BY Zenon DEF StagesOK, BTypeOK, Counts
<1>. QED  BY <1>1, CountsRange

\* What a failed launch of this worker may have left uncounted.
Short(f) == IF f /\ ~machine.metal THEN GpuBatchKeys ELSE 0

\* It is a number, and the entry of Uncounted.
LEMMA ShortNat ==
  ASSUME NEW f \in BOOLEAN
  PROVE  Short(f) \in Nat
BY BenchAssumption DEF Short

\* A worker keeps this balance: it counts what it tests, in its hands or in the
\* shared counters, and moves the one to the other without loss, but for the
\* launches that fail.
KeepsBalance(w) ==
  /\ tested' \in [Workers -> Nat] /\ hits' \in [Workers -> Nat]
  /\ failed' \in [Workers -> BOOLEAN]
  /\ \A v \in Workers \ {w} :
       tested'[v] = tested[v] /\ hits'[v] = hits[v] /\ failed'[v] = failed[v]
  /\ failed[w] => failed'[w]
  /\ failed'[w] => machine.metal \/ pc'[w] = "exited"
  /\ ~failed'[w] =>
       /\ keys' + localKeys'[w] - tested'[w] = keys + localKeys[w] - tested[w]
       /\ matches' + localMatches'[w] - hits'[w] = matches + localMatches[w] - hits[w]
  /\ matches' + localMatches'[w] - hits'[w] <= matches + localMatches[w] - hits[w]
  /\ tested'[w] - keys' - localKeys'[w] - Short(failed'[w])
       <= tested[w] - keys - localKeys[w] - Short(failed[w])
  /\ ~machine.metal =>
       keys' + localKeys'[w] - tested'[w] <= keys + localKeys[w] - tested[w]

\* The usual case: nothing fails and the two differences stay.
LEMMA ExactStep ==
  ASSUME CountsBalance, NEW w \in Workers, WorkerStep(w),
         localKeys[w] \in Nat, localKeys'[w] \in Nat, keys \in Nat, keys' \in Nat,
         localMatches[w] \in Nat, localMatches'[w] \in Nat, matches \in Nat, matches' \in Nat,
         tested' \in [Workers -> Nat], hits' \in [Workers -> Nat], failed' = failed,
         \A v \in Workers \ {w} : tested'[v] = tested[v] /\ hits'[v] = hits[v],
         failed[w] => machine.metal,
         keys' + localKeys'[w] - tested'[w] = keys + localKeys[w] - tested[w],
         matches' + localMatches'[w] - hits'[w] = matches + localMatches[w] - hits[w]
  PROVE  KeepsBalance(w)
<1>1. failed \in [Workers -> BOOLEAN] /\ tested[w] \in Nat /\ hits[w] \in Nat
  BY Zenon DEF CountsBalance
<1>2. tested'[w] \in Nat /\ hits'[w] \in Nat /\ failed'[w] = failed[w] /\ failed[w] \in BOOLEAN
  BY <1>1, Zenon
<1>3. Short(failed[w]) \in Nat /\ Short(failed'[w]) = Short(failed[w])
  BY <1>2, ShortNat, Zenon
<1>4. /\ matches' + localMatches'[w] - hits'[w] <= matches + localMatches[w] - hits[w]
      /\ tested'[w] - keys' - localKeys'[w] - Short(failed'[w])
           <= tested[w] - keys - localKeys[w] - Short(failed[w])
      /\ keys' + localKeys'[w] - tested'[w] <= keys + localKeys[w] - tested[w]
  <2>. HIDE DEF Short
  <2>. QED  BY <1>1, <1>2, <1>3
<1>. QED  BY <1>1, <1>2, <1>4, Zenon DEF KeepsBalance

\* A launch that fails: any part of it has been compared, and Metal reports all of
\* it, CUDA nothing.
LEMMA FailedStep ==
  ASSUME StagesOK, CountsBalance, NEW w \in Workers, GpuLossyCount(w) \/ GpuError(w)
  PROVE  KeepsBalance(w)
<1>1. /\ tested \in [Workers -> Nat] /\ hits \in [Workers -> Nat]
      /\ failed \in [Workers -> BOOLEAN] /\ tested[w] \in Nat /\ hits[w] \in Nat
      /\ failed[w] => machine.metal \/ Gone(w)
  BY Zenon DEF CountsBalance
<1>2. /\ localKeys[w] \in Nat /\ localMatches[w] = 0 /\ keys \in Nat /\ matches \in Nat
      /\ pc \in [Workers -> Labels] /\ localMatches \in [Workers -> Nat]
      /\ pc[w] = "dispatch" /\ GpuBatchKeys \in Nat
  <2>1. pc[w] = "dispatch"
    BY Zenon DEF GpuLossyCount, GpuError
  <2>2. HandsOK(w)
    BY Zenon DEF StagesOK
  <2>3. localMatches[w] = 0 /\ localKeys[w] = 0
    BY <2>1, <2>2 DEF HandsOK
  <2>. QED  BY <2>1, <2>3, BeforeMove, BenchAssumption, Zenon
<1>3. PICK k \in 0..GpuBatchKeys : \E n \in HitsAmong(k) :
        /\ Compared(w, k, n)
        /\ machine.metal => \E m \in 0..n : Counted(w, m)
  BY Zenon DEF GpuLossyCount, GpuError
<1>4. PICK n \in HitsAmong(k) :
        /\ Compared(w, k, n)
        /\ machine.metal => \E m \in 0..n : Counted(w, m)
  BY <1>3, Zenon
<1>5. k \in Nat /\ k <= GpuBatchKeys /\ n \in Nat
  <2>1. n \in Nat
    BY HitsNat, Zenon
  <2>. QED  BY <1>2, <1>3, <2>1
<1>6. /\ tested' \in [Workers -> Nat] /\ hits' \in [Workers -> Nat]
      /\ failed' \in [Workers -> BOOLEAN]
      /\ tested'[w] = tested[w] + k /\ hits'[w] = hits[w] + n /\ failed'[w] = TRUE
      /\ \A v \in Workers \ {w} :
           tested'[v] = tested[v] /\ hits'[v] = hits[v] /\ failed'[v] = failed[v]
  <2>1. /\ tested' = [tested EXCEPT ![w] = tested[w] + k]
        /\ hits' = [hits EXCEPT ![w] = hits[w] + n]
    BY <1>4, Zenon DEF Compared
  <2>2. failed' = [failed EXCEPT ![w] = TRUE]
    BY Zenon DEF GpuLossyCount, GpuError
  <2>3. tested[w] + k \in Nat /\ hits[w] + n \in Nat
    BY <1>1, <1>5
  <2>. QED  BY <1>1, <2>1, <2>2, <2>3, Update, Zenon
<1>7. CASE machine.metal
  <2>1. PICK m \in 0..n : Counted(w, m)
    BY <1>4, <1>7, Zenon
  <2>2. m \in Nat /\ m <= n
    BY <1>5, <2>1
  <2>3. /\ keys' = keys + GpuBatchKeys /\ matches' = matches /\ localKeys'[w] = localKeys[w]
        /\ localMatches'[w] = m
    BY <1>2, <2>1, <2>2 DEF Counted
  <2>4. Short(failed[w]) = 0 /\ Short(failed'[w]) = 0
    BY <1>7, Zenon DEF Short
  <2>5. /\ matches' + localMatches'[w] - hits'[w] <= matches + localMatches[w] - hits[w]
        /\ tested'[w] - keys' - localKeys'[w] - Short(failed'[w])
             <= tested[w] - keys - localKeys[w] - Short(failed[w])
    <3>. HIDE DEF Short
    <3>. QED  BY <1>1, <1>2, <1>5, <1>6, <2>2, <2>3, <2>4
  <2>. QED  BY <1>6, <1>7, <2>5, Zenon DEF KeepsBalance
<1>8. CASE ~machine.metal
  <2>1. /\ GpuError(w) /\ pc' = [pc EXCEPT ![w] = "exited"]
        /\ UNCHANGED <<keys, matches, localKeys, localMatches>>
    BY <1>8, Zenon DEF GpuLossyCount, GpuError, Goto, cellVars
  <2>2. pc'[w] = "exited"
    BY <1>2, <2>1
  <2>3. ~failed[w]
    BY <1>1, <1>2, <1>8 DEF Gone
  <2>4. Short(failed[w]) = 0 /\ Short(failed'[w]) = GpuBatchKeys
    BY <1>6, <1>8, <2>3, Zenon DEF Short
  <2>5. /\ matches' + localMatches'[w] - hits'[w] <= matches + localMatches[w] - hits[w]
        /\ tested'[w] - keys' - localKeys'[w] - Short(failed'[w])
             <= tested[w] - keys - localKeys[w] - Short(failed[w])
        /\ keys' + localKeys'[w] - tested'[w] <= keys + localKeys[w] - tested[w]
    <3>. HIDE DEF Short
    <3>. QED  BY <1>1, <1>2, <1>5, <1>6, <2>1, <2>4
  <2>. QED  BY <1>6, <2>2, <2>5, Zenon DEF KeepsBalance
<1>. QED  BY <1>7, <1>8

\* Each step of a worker keeps it.
LEMMA WorkerCounts ==
  ASSUME StagesOK, StagesOK', CountsBalance, NEW w \in Workers, WorkerStep(w)
  PROVE  KeepsBalance(w)
<1>1. /\ localKeys \in [Workers -> Counts] /\ localMatches \in [Workers -> Nat]
      /\ keys \in Nat /\ matches \in Nat
      /\ localKeys[w] \in Counts /\ localMatches[w] \in Nat
  BY BeforeMove, Zenon
<1>2. /\ tested \in [Workers -> Nat] /\ hits \in [Workers -> Nat]
      /\ tested[w] \in Nat /\ hits[w] \in Nat
  BY Zenon DEF CountsBalance
<1>3. localKeys[w] \in Nat /\ ChainBatch \in Nat /\ GpuBatchKeys \in Nat /\ 0..MaxHits \subseteq Nat
  <2>1. localKeys[w] \in Nat
    BY <1>1, CountsRange, Zenon
  <2>2. ChainBatch \in Nat /\ GpuBatchKeys \in Nat /\ 0..MaxHits \subseteq Nat
    BY BenchAssumption
  <2>. QED  BY <2>1, <2>2
<1>4. localKeys'[w] \in Nat /\ localMatches'[w] \in Nat /\ keys' \in Nat /\ matches' \in Nat
  <2>1. (StagesOK => /\ localKeys \in [Workers -> Nat] /\ localMatches \in [Workers -> Nat]
                     /\ keys \in Nat /\ matches \in Nat)'
    BY HandsNat, PTL
  <2>. QED  BY <2>1, Zenon
<1>5. failed[w] => machine.metal
  BY GoneIsQuiet, Zenon DEF CountsBalance
<1>. SUFFICES ASSUME ~(GpuLossyCount(w) \/ GpuError(w))
              PROVE  /\ tested' \in [Workers -> Nat] /\ hits' \in [Workers -> Nat]
                     /\ failed' = failed
                     /\ \A v \in Workers \ {w} : tested'[v] = tested[v] /\ hits'[v] = hits[v]
                     /\ keys' + localKeys'[w] - tested'[w] = keys + localKeys[w] - tested[w]
                     /\ matches' + localMatches'[w] - hits'[w]
                          = matches + localMatches[w] - hits[w]
  BY <1>1, <1>3, <1>4, <1>5, ExactStep, FailedStep, Zenon
<1>6. CASE CpuStart(w) \/ RngPanic(w) \/ CpuStop(w) \/ GpuDispatch(w) \/ GpuStop(w)
  <2>1. UNCHANGED <<keys, matches, localKeys, localMatches, tested, hits, failed>>
    BY <1>6 DEF CpuStart, RngPanic, CpuStop, GpuDispatch, GpuStop, cellVars, workVars
  <2>. QED  BY <1>2, <2>1
<1>7. CASE CpuBatch(w)
  <2>1. PICK n \in 0..MaxHits : /\ localMatches' = [localMatches EXCEPT ![w] = @ + n]
                                /\ hits' = [hits EXCEPT ![w] = @ + n]
    BY <1>7, Zenon DEF CpuBatch
  <2>2. /\ localKeys' = [localKeys EXCEPT ![w] = @ + ChainBatch]
        /\ tested' = [tested EXCEPT ![w] = @ + ChainBatch]
        /\ keys' = keys /\ matches' = matches /\ failed' = failed
    BY <1>7, Zenon DEF CpuBatch, cellVars
  <2>3. n \in Nat
    BY <1>3, <2>1
  <2>4. tested' \in [Workers -> Nat] /\ hits' \in [Workers -> Nat]
    BY <1>2, <1>3, <2>1, <2>2, <2>3
  <2>5. \A v \in Workers \ {w} : tested'[v] = tested[v] /\ hits'[v] = hits[v]
    BY <1>2, <2>1, <2>2
  <2>6. /\ localKeys'[w] = localKeys[w] + ChainBatch /\ tested'[w] = tested[w] + ChainBatch
        /\ localMatches'[w] = localMatches[w] + n /\ hits'[w] = hits[w] + n
    BY <1>1, <1>2, <2>1, <2>2
  <2>. QED  BY <1>1, <1>2, <1>3, <2>2, <2>3, <2>4, <2>5, <2>6
<1>8. CASE FlushKeys(w)
  <2>1. /\ keys' = keys + localKeys[w] /\ localKeys'[w] = 0
        /\ UNCHANGED <<matches, localMatches, tested, hits, failed>>
    BY <1>1, <1>8 DEF FlushKeys, FlushedKeys
  <2>. QED  BY <1>1, <1>2, <1>3, <2>1
<1>9. CASE FlushMatches(w)
  <2>1. /\ matches' = matches + localMatches[w] /\ localMatches'[w] = 0
        /\ UNCHANGED <<keys, localKeys, tested, hits, failed>>
    BY <1>1, <1>9 DEF FlushMatches, Drained
  <2>. QED  BY <1>1, <1>2, <1>3, <2>1
<1>10. CASE GpuCount(w)
  <2>1. PICK n \in HitsAmong(GpuBatchKeys) : Compared(w, GpuBatchKeys, n) /\ Counted(w, n)
    BY <1>10, Zenon DEF GpuCount
  <2>2. /\ keys' = keys + GpuBatchKeys /\ tested' = [tested EXCEPT ![w] = @ + GpuBatchKeys]
        /\ localMatches' = [localMatches EXCEPT ![w] = n] /\ hits' = [hits EXCEPT ![w] = @ + n]
        /\ localKeys' = localKeys /\ matches' = matches /\ failed' = failed
        /\ pc[w] = "dispatch"
    BY <1>10, <2>1, Zenon DEF GpuCount, Compared, Counted
  <2>3. n \in Nat /\ localMatches[w] = 0
    <3>1. HandsOK(w)
      BY DEF StagesOK
    <3>2. n \in Nat
      BY HitsNat, Zenon
    <3>. QED  BY <2>2, <3>1, <3>2 DEF HandsOK
  <2>4. tested' \in [Workers -> Nat] /\ hits' \in [Workers -> Nat]
    BY <1>2, <1>3, <2>2, <2>3
  <2>5. \A v \in Workers \ {w} : tested'[v] = tested[v] /\ hits'[v] = hits[v]
    BY <1>2, <2>2
  <2>6. /\ tested'[w] = tested[w] + GpuBatchKeys
        /\ localMatches'[w] = n /\ hits'[w] = hits[w] + n
    BY <1>1, <1>2, <2>2
  <2>. QED  BY <1>1, <1>2, <1>3, <2>2, <2>3, <2>4, <2>5, <2>6
<1>. QED  BY <1>6, <1>7, <1>8, <1>9, <1>10, Zenon DEF WorkerStep

\* Uncounted is kept per worker too.
LEMMA UncountedOf ==
  ASSUME CountsBalance
  PROVE  /\ Uncounted \in [Workers -> Nat]
         /\ \A v \in Workers : Uncounted[v] = Short(failed[v])
<1>1. \A v \in Workers : Short(failed[v]) \in Nat
  BY ShortNat, Zenon DEF CountsBalance
<1>2. Uncounted = [v \in Workers |-> Short(failed[v])]
  BY Zenon DEF Uncounted, Short
<1>. QED  BY <1>1, <1>2

\* CountsBalance is preserved by a worker.
LEMMA WorkerBalance ==
  ASSUME StagesOK, StagesOK', CountsBalance, NEW w \in Workers, WorkerStep(w)
  PROVE  CountsBalance'
<1>1. KeepsBalance(w)
  BY WorkerCounts, Zenon
<1>t. /\ tested' \in [Workers -> Nat] /\ hits' \in [Workers -> Nat]
      /\ failed' \in [Workers -> BOOLEAN]
      /\ \A v \in Workers \ {w} :
           tested'[v] = tested[v] /\ hits'[v] = hits[v] /\ failed'[v] = failed[v]
  BY <1>1, Zenon DEF KeepsBalance
<1>2. /\ localKeys \in [Workers -> Nat] /\ localMatches \in [Workers -> Nat]
      /\ keys \in Nat /\ matches \in Nat
  BY HandsNat, Zenon
<1>3. /\ localKeys' \in [Workers -> Nat] /\ localMatches' \in [Workers -> Nat]
      /\ keys' \in Nat /\ matches' \in Nat
  <2>1. (StagesOK => /\ localKeys \in [Workers -> Nat] /\ localMatches \in [Workers -> Nat]
                     /\ keys \in Nat /\ matches \in Nat)'
    BY HandsNat, PTL
  <2>. QED  BY <2>1, Zenon
<1>4. \A v \in Workers \ {w} :
        /\ localKeys'[v] = localKeys[v] /\ localMatches'[v] = localMatches[v]
        /\ pc'[v] = pc[v]
  <2>1. PICK label, k, m : MovesTo(w, label, k, m)
    BY WorkerMoves, Zenon
  <2>2. pc \in [Workers -> Labels]
    BY BeforeMove, Zenon
  <2>. QED  BY <1>2, <2>1, <2>2 DEF MovesTo
<1>5. /\ tested \in [Workers -> Nat] /\ hits \in [Workers -> Nat]
      /\ failed \in [Workers -> BOOLEAN]
  BY Zenon DEF CountsBalance
<1>m. machine' = machine
  BY WorkerMoves, Zenon DEF RestOK
<1>. DEFINE short  == [v \in Workers |-> Short(failed[v])]
            short2 == [v \in Workers |-> Short(failed'[v])]
<1>s. /\ short \in [Workers -> Nat] /\ short2 \in [Workers -> Nat]
      /\ short[w] = Short(failed[w]) /\ short2[w] = Short(failed'[w])
      /\ \A v \in Workers \ {w} : short2[v] = short[v]
  <2>1. \A v \in Workers : Short(failed[v]) \in Nat /\ Short(failed'[v]) \in Nat
    BY <1>t, <1>5, ShortNat, Zenon
  <2>. HIDE DEF Short
  <2>. QED  BY <1>t, <2>1
<1>u. Uncounted = short /\ Uncounted' = short2
  BY <1>m, Zenon DEF Uncounted, Short
<1>. HIDE DEF short, short2
<1>6. /\ Sum(localKeys') = Sum(localKeys) + localKeys'[w] - localKeys[w]
      /\ Sum(tested') = Sum(tested) + tested'[w] - tested[w]
      /\ Sum(localMatches') = Sum(localMatches) + localMatches'[w] - localMatches[w]
      /\ Sum(hits') = Sum(hits) + hits'[w] - hits[w]
      /\ Sum(short2) = Sum(short) + short2[w] - short[w]
  BY <1>t, <1>2, <1>3, <1>4, <1>5, <1>s, SumMoves, Zenon
<1>7. /\ Sum(localKeys) \in Int /\ Sum(tested) \in Int
      /\ Sum(localMatches) \in Int /\ Sum(hits) \in Int /\ Sum(short) \in Int
  BY <1>2, <1>5, <1>s, SumOfWorkers, Zenon
<1>8. /\ localKeys[w] \in Nat /\ localKeys'[w] \in Nat /\ tested[w] \in Nat /\ tested'[w] \in Nat
      /\ localMatches[w] \in Nat /\ localMatches'[w] \in Nat
      /\ hits[w] \in Nat /\ hits'[w] \in Nat /\ short[w] \in Nat /\ short2[w] \in Nat
  BY <1>t, <1>2, <1>3, <1>5, <1>s, Zenon
<1>9. ASSUME \A v \in Workers : ~failed'[v]
      PROVE  /\ keys' + Sum(localKeys') = Sum(tested')
             /\ matches' + Sum(localMatches') = Sum(hits')
  <2>1. /\ keys' + localKeys'[w] - tested'[w] = keys + localKeys[w] - tested[w]
        /\ matches' + localMatches'[w] - hits'[w] = matches + localMatches[w] - hits[w]
    BY <1>1, <1>9, Zenon DEF KeepsBalance
  <2>2. \A v \in Workers : ~failed[v]
    BY <1>1, <1>9, Zenon DEF KeepsBalance
  <2>3. keys + Sum(localKeys) = Sum(tested) /\ matches + Sum(localMatches) = Sum(hits)
    BY <2>2, Zenon DEF CountsBalance
  <2>4. keys' + Sum(localKeys') = Sum(tested')
    BY <1>2, <1>3, <1>6, <1>7, <1>8, <2>1, <2>3
  <2>5. matches' + Sum(localMatches') = Sum(hits')
    BY <1>2, <1>3, <1>6, <1>7, <1>8, <2>1, <2>3
  <2>. QED  BY <2>4, <2>5
<1>10. matches' + Sum(localMatches') <= Sum(hits')
  <2>1. matches' + localMatches'[w] - hits'[w] <= matches + localMatches[w] - hits[w]
    BY <1>1, Zenon DEF KeepsBalance
  <2>2. matches + Sum(localMatches) <= Sum(hits)
    BY Zenon DEF CountsBalance
  <2>. QED  BY <1>2, <1>3, <1>6, <1>7, <1>8, <2>1, <2>2
<1>11. Sum(tested') <= keys' + Sum(localKeys') + Sum(short2)
  <2>1. tested'[w] - keys' - localKeys'[w] - short2[w]
          <= tested[w] - keys - localKeys[w] - short[w]
    BY <1>1, <1>s, Zenon DEF KeepsBalance
  <2>2. Sum(tested) <= keys + Sum(localKeys) + Sum(short)
    BY <1>u, Zenon DEF CountsBalance
  <2>. QED  BY <1>2, <1>3, <1>6, <1>7, <1>8, <2>1, <2>2
<1>12. ~machine.metal => keys' + Sum(localKeys') <= Sum(tested')
  <2>. SUFFICES ASSUME ~machine.metal PROVE keys' + Sum(localKeys') <= Sum(tested')
    OBVIOUS
  <2>1. keys' + localKeys'[w] - tested'[w] <= keys + localKeys[w] - tested[w]
    BY <1>1, Zenon DEF KeepsBalance
  <2>2. keys + Sum(localKeys) <= Sum(tested)
    BY Zenon DEF CountsBalance
  <2>. QED  BY <1>2, <1>3, <1>6, <1>7, <1>8, <2>1, <2>2
<1>13. \A v \in Workers : failed'[v] => machine.metal \/ Gone(v)'
  <2>1. failed'[w] => machine.metal \/ Gone(w)'
    BY <1>1 DEF KeepsBalance, Gone
  <2>2. ASSUME NEW v \in Workers, v # w, failed'[v]
        PROVE  machine.metal \/ Gone(v)'
    <3>1. failed[v] /\ pc'[v] = pc[v]
      BY <1>t, <1>4, <2>2, Zenon
    <3>. QED  BY <3>1, Zenon DEF CountsBalance, Gone
  <2>. QED  BY <2>1, <2>2, Zenon
<1>14. /\ Sum(localKeys)' = Sum(localKeys') /\ Sum(tested)' = Sum(tested')
       /\ Sum(localMatches)' = Sum(localMatches') /\ Sum(hits)' = Sum(hits')
       /\ Sum(Uncounted)' = Sum(short2)
  BY <1>u, Zenon DEF Sum
<1>15. stage' \notin {"validate", "pick", "failed"}
  <2>1. stage' = stage
    BY WorkerMoves, Zenon DEF RestOK
  <2>. QED  BY <2>1, GoneIsQuiet, Zenon DEF StagesOK, ModesIsolated
<1>. QED
  BY <1>t, <1>m, <1>9, <1>10, <1>11, <1>12, <1>13, <1>14, <1>15, Zenon DEF CountsBalance

\* Nothing has been counted and nothing has failed.
Fresh ==
  /\ keys = 0 /\ matches = 0 /\ localKeys = Zero /\ localMatches = Zero
  /\ tested = Zero /\ hits = Zero /\ failed = Nobody

\* Then everything balances.
LEMMA FreshBalance == Fresh => CountsBalance
<1>. SUFFICES ASSUME Fresh PROVE CountsBalance
  OBVIOUS
<1>. USE DEF Fresh
<1>1. /\ failed \in [Workers -> BOOLEAN] /\ \A w \in Workers : ~failed[w]
      /\ Uncounted = Zero
  BY DEF Nobody, Uncounted, Zero
<1>2. 0 + Sum(Zero) = Sum(Zero) /\ 0 + Sum(Zero) <= Sum(Zero)
      /\ Sum(Zero) <= 0 + Sum(Zero) + Sum(Zero)
  BY SumOfZero
<1>. QED  BY <1>1, <1>2, SumOfZero, Zenon DEF CountsBalance

\* CountsBalance is preserved by the steps of run(), which drop all counts at once.
LEMMA RunBalance ==
  ASSUME StagesOK, CountsBalance, RunStep \/ UNCHANGED vars
  PROVE  CountsBalance'
<1>1. CASE Validate \/ Skip \/ RaiseStop \/ Join \/ UNCHANGED vars
  <2>1. UNCHANGED <<machine, keys, matches, localKeys, localMatches, tested, hits, failed, pc>>
    BY <1>1 DEF Validate, Skip, RaiseStop, Join, vars, runVars, cellVars, workVars
  <2>2. stage' \in {"validate", "pick", "failed"} => stage \in {"validate", "pick", "failed"}
    BY <1>1 DEF Validate, Skip, RaiseStop, Join, vars, runVars
  <2>. QED  BY <2>1, <2>2, Zenon DEF CountsBalance, Sum, Gone, Uncounted, Nobody
<1>2. CASE Start
  <2>1. UNCHANGED <<machine, keys, matches, localKeys, localMatches, tested, hits, failed>>
    BY <1>2 DEF Start, cellVars, workVars
  <2>2. stage = "pick" /\ stage' = "measuring"
    BY <1>2, Zenon DEF Start
  <2>3. failed' = Nobody /\ \A w \in Workers : ~failed'[w]
    BY <2>1, <2>2 DEF CountsBalance, Nobody
  <2>4. stage' \notin {"validate", "pick", "failed"}
    BY <2>2
  <2>. QED  BY <2>1, <2>3, <2>4, Zenon DEF CountsBalance, Sum, Uncounted
<1>3. CASE Record \/ WriteFails
  <2>1. /\ keys' = 0 /\ matches' = 0 /\ localKeys' = Zero /\ localMatches' = Zero
        /\ tested' = Zero /\ hits' = Zero /\ failed' = Nobody
    BY <1>3, Zenon DEF Record, WriteFails, Dropped
  <2>2. (Fresh => CountsBalance)'
    BY FreshBalance, PTL
  <2>3. Zero' = Zero /\ Nobody' = Nobody
    BY Zenon DEF Zero, Nobody
  <2>. QED  BY <2>1, <2>2, <2>3, Zenon DEF Fresh
<1>. QED  BY <1>1, <1>2, <1>3, Zenon DEF RunStep

(***************************************************************************)
(* 5. The theorems.                                                        *)
(***************************************************************************)

\* A run starts with every worker gone and nothing counted.
LEMMA InitBInv == Init => BInv
<1>. SUFFICES ASSUME Init PROVE BInv
  OBVIOUS
<1>1. StagesOK
  BY InitStagesOK
<1>2. CountsBalance
  BY FreshBalance, Zenon DEF Fresh, Init
<1>. QED  BY <1>1, <1>2 DEF BInv

\* The invariant is inductive.
LEMMA NextBInv == BInv /\ [Next]_vars => BInv'
<1>1. ASSUME StagesOK, UNCHANGED vars PROVE StagesOK'
  BY <1>1
  DEF StagesOK, BTypeOK, ModesIsolated, HandsOK, Gone, Total, IsCpu, vars, runVars,
      cellVars, workVars
<1>2. ASSUME StagesOK, [Next]_vars PROVE StagesOK'
  BY <1>1, <1>2, RunStepStagesOK, WorkerStepStagesOK, Zenon DEF Next
<1>3. ASSUME BInv, [Next]_vars PROVE CountsBalance'
  <2>1. StagesOK /\ CountsBalance /\ StagesOK'
    BY <1>2, <1>3, Zenon DEF BInv
  <2>. QED  BY <1>3, <2>1, RunBalance, WorkerBalance, Zenon DEF Next
<1>. QED  BY <1>2, <1>3, Zenon DEF BInv

\* At every moment of a bench run the counts not yet flushed are where HandsOK
\* says, and joined workers are gone.
THEOREM BenchInvariance == Spec => []BInv
BY InitBInv, NextBInv, PTL DEF Spec

\* No worker of one mode runs on while another mode is prepared or measured.
THEOREM ModesNeverOverlap == Spec => []ModesIsolated
<1>1. BInv => ModesIsolated
  BY DEF BInv, StagesOK
<1>. QED  BY <1>1, BenchInvariance, PTL

\* A record is written only when every worker is gone and none has kept a
\* count to itself.
NothingHeld ==
  records' # records =>
    \A w \in Workers : Gone(w) /\ localKeys[w] = 0 /\ localMatches[w] = 0

\* Only Record writes one.
LEMMA OnlyRecordWrites ==
  ASSUME Next, ~Record
  PROVE  records' = records
<1>1. CASE RunStep
  BY <1>1 DEF RunStep, Validate, Skip, Start, RaiseStop, Join, WriteFails
<1>2. CASE \E w \in Workers : WorkerStep(w)
  BY <1>2 DEF WorkerStep, CpuStart, RngPanic, CpuBatch, CpuStop, FlushKeys, FlushMatches,
     GpuDispatch, GpuCount, GpuLossyCount, Counted, GpuError, GpuStop, runVars
<1>3. CASE UNCHANGED vars
  BY <1>3, Zenon DEF vars, runVars
<1>. QED  BY <1>1, <1>2, <1>3, Zenon DEF Next

\* When Record is possible, every worker is gone with empty hands.
LEMMA RecordWaitsForAll ==
  ASSUME BInv, Record
  PROVE  \A w \in Workers : Gone(w) /\ localKeys[w] = 0 /\ localMatches[w] = 0
<1>1. /\ joined \in 0..Total /\ request \in [cpu : Nat, gpu : Nat]
      /\ \A w \in Workers : HandsOK(w) /\ (w <= joined \/ w > Total => Gone(w))
  BY Zenon DEF BInv, StagesOK, BTypeOK
<1>2. joined = Total /\ Total \in Nat
  BY <1>1 DEF Record, JoinedAll, Total
<1>3. \A w \in Workers : w <= joined \/ w > Total
  BY <1>2, BenchAssumption DEF Workers
<1>. QED  BY <1>1, <1>3, Zenon DEF HandsOK

\* In every behaviour the record of a mode is written from counters that lack
\* nothing a worker still held, whatever failed or panicked in between.
THEOREM RecordsLackNothing == Spec => [][NothingHeld]_vars
<1>1. BInv /\ [Next]_vars => [NothingHeld]_vars
  BY OnlyRecordWrites, RecordWaitsForAll, Zenon DEF NothingHeld
<1>. QED  BY <1>1, BenchInvariance, PTL DEF Spec

\* For every number of workers, batch size, flush threshold and interleaving: a
\* record holds exactly the candidates compared and the matches among them if no
\* GPU launch failed, never a match too many, and otherwise lacks at most one
\* launch per CUDA device.
THEOREM RecordsAreExact == Spec => TotalsExact
<1>1. ASSUME BInv, Record PROVE Totals
  <2>1. \A w \in Workers : localKeys[w] = 0 /\ localMatches[w] = 0
    BY <1>1, RecordWaitsForAll, Zenon
  <2>2. localKeys \in [Workers -> Nat] /\ localMatches \in [Workers -> Nat]
        /\ keys \in Nat /\ matches \in Nat
    BY <1>1, HandsNat, Zenon DEF BInv
  <2>3. Sum(localKeys) = 0 /\ Sum(localMatches) = 0
    BY <2>1, <2>2, SumOfWorkers, SumOfZeros, Zenon DEF Sum, Workers
  <2>4. keys + Sum(localKeys) = keys /\ matches + Sum(localMatches) = matches
    BY <2>2, <2>3
  <2>. QED  BY <1>1, <2>4, Zenon DEF BInv, CountsBalance, Totals
<1>2. BInv /\ [Next]_vars => [records' # records => Totals]_vars
  BY <1>1, OnlyRecordWrites, Zenon
<1>. QED  BY <1>2, BenchInvariance, PTL DEF Spec, TotalsExact
=============================================================================
