------------------------- MODULE KeygenVerifyProofs -------------------------
(***************************************************************************)
(* Proofs about module KeygenVerify, for every number of steps, every      *)
(* limit on mismatches, every group, start scalar and number of faults.    *)
(***************************************************************************)
EXTENDS KeygenVerify, FiniteSetTheorems, TLAPS

\* How many of the steps 0..n lie in R: those below n, and n if it does.
LEMMA CountUp ==
  ASSUME NEW R, NEW n \in Nat
  PROVE  /\ Cardinality({k \in 0..(n - 1) : k \in R}) \in Nat
         /\ Cardinality({k \in 0..n : k \in R}) =
              Cardinality({k \in 0..(n - 1) : k \in R}) + (IF n \in R THEN 1 ELSE 0)
<1>. DEFINE S == {k \in 0..(n - 1) : k \in R}  T == {k \in 0..n : k \in R}
<1>1. IsFiniteSet(0..(n - 1))
  BY FS_Interval
<1>2. IsFiniteSet(S) /\ Cardinality(S) \in Nat
  BY <1>1, FS_Subset, FS_CardinalityType
<1>3. n \notin S
  OBVIOUS
<1>4. Cardinality(T) = Cardinality(S) + (IF n \in R THEN 1 ELSE 0)
  <2>1. CASE n \in R
    <3>1. T = S \cup {n}
      BY <2>1
    <3>. HIDE DEF S, T
    <3>2. Cardinality(S \cup {n}) = Cardinality(S) + 1
      BY <1>2, <1>3, FS_AddElement
    <3>. QED  BY <2>1, <3>1, <3>2
  <2>2. CASE n \notin R
    <3>1. T = S
      BY <2>2
    <3>. HIDE DEF S, T
    <3>. QED  BY <1>2, <2>2, <3>1
  <2>. QED  BY <2>1, <2>2
<1>. QED  BY <1>2, <1>4

\* Types, and what main has compared by the time it is at each place.
KVTypeOK ==
  /\ metal \in BOOLEAN
  /\ pc \in {"start", "kernel", "compare", "judge", "passed", "failed"}
  /\ i \in 0..Count /\ pass \in Nat /\ fail \in Nat /\ expected \in Nat

\* The host's expected scalar is the one of the step it compares; comparing ends
\* early on a mismatch only.
Progress ==
  /\ pc \in {"start", "kernel"} => pass = 0 /\ fail = 0 /\ expected = Start
  /\ pc = "start" => i = 0
  /\ pc = "compare" => expected = Start + 8 * i
  /\ pc = "judge" /\ i < Count => fail > 0
  /\ pc = "passed" => fail = 0

\* The inductive invariant.
KVInv == KVTypeOK /\ Progress /\ CountsOfCompared

\* The steps whose key and scalar are what a correct chain has there.
RightSteps == {k \in Steps : Right(k)}
WrongSteps == {k \in Steps : ~Right(k)}

\* The counts at the top of the comparison of step n.
CountsBelow(n) ==
  /\ pass = Cardinality({k \in 0..(n - 1) : k \in RightSteps})
  /\ fail = Cardinality({k \in 0..(n - 1) : k \in WrongSteps})

\* CountsOfCompared, said of the steps that are right and those that are wrong.
CountsPlaced ==
  /\ pc = "compare" => CountsBelow(i)
  /\ pc = "judge" /\ i < Count => CountsBelow(i + 1)
  /\ pc = "judge" /\ i = Count => CountsBelow(Count)
  /\ pc = "passed" => CountsBelow(Count)

\* The two ways of saying it agree.
LEMMA CountsAre == KVTypeOK => (CountsOfCompared <=> CountsPlaced)
<1>. SUFFICES ASSUME KVTypeOK PROVE CountsOfCompared <=> CountsPlaced
  OBVIOUS
<1>1. i \in 0..Count /\ Count \in Nat
  BY VerifyAssumption DEF KVTypeOK
<1>2. \A n \in 0..Count : /\ {k \in 0..(n - 1) : k \in RightSteps} = {k \in 0..(n - 1) : Right(k)}
                         /\ {k \in 0..(n - 1) : k \in WrongSteps} = {k \in 0..(n - 1) : ~Right(k)}
  BY <1>1 DEF RightSteps, WrongSteps, Steps
<1>3. \A n \in 0..Count : CountsBelow(n) <=>
        /\ pass = Cardinality({k \in 0..(n - 1) : Right(k)})
        /\ fail = Cardinality({k \in 0..(n - 1) : ~Right(k)})
  BY <1>2 DEF CountsBelow
<1>4. CASE pc = "compare"
  BY <1>1, <1>3, <1>4 DEF CountsOfCompared, CountsPlaced
<1>5. CASE pc = "judge" /\ i < Count
  <2>1. (i + 1) - 1 = i /\ i + 1 \in 0..Count
    BY <1>1, <1>5
  <2>2. CountsBelow(i + 1) <=> /\ pass = Cardinality({k \in 0..i : Right(k)})
                              /\ fail = Cardinality({k \in 0..i : ~Right(k)})
    BY <1>3, <2>1
  <2>. QED  BY <1>5, <1>1, <2>2 DEF CountsOfCompared, CountsPlaced
<1>6. CASE (pc = "judge" /\ ~(i < Count)) \/ pc = "passed"
  <2>1. Count \in 0..Count /\ (pc = "judge" => i = Count)
    BY <1>1, <1>6
  <2>. QED  BY <1>1, <1>3, <1>6, <2>1 DEF CountsOfCompared, CountsPlaced, Steps
<1>7. CASE pc \notin {"compare", "judge", "passed"}
  BY <1>7 DEF CountsOfCompared, CountsPlaced
<1>. QED  BY <1>1, <1>4, <1>5, <1>6, <1>7

\* The invariant holds when the command begins.
LEMMA InitKVInv == Init => KVInv
<1>. SUFFICES ASSUME Init PROVE KVInv
  OBVIOUS
<1>1. KVTypeOK
  BY VerifyAssumption DEF Init, KVTypeOK
<1>2. Progress
  BY DEF Init, Progress
<1>3. CountsOfCompared
  BY DEF Init, CountsOfCompared
<1>. QED  BY <1>1, <1>2, <1>3 DEF KVInv

\* Types and places are preserved.
LEMMA ProgressStep == KVTypeOK /\ Progress /\ [Next]_vars => KVTypeOK' /\ Progress'
<1>. SUFFICES ASSUME KVTypeOK, Progress, [Next]_vars PROVE KVTypeOK' /\ Progress'
  OBVIOUS
<1>. USE VerifyAssumption DEF KVTypeOK, Progress, hostVars
<1>1. CASE FirstPoint
  BY <1>1 DEF FirstPoint
<1>2. CASE ChainStep
  BY <1>2 DEF ChainStep
<1>3. CASE DriverError \/ PipelineFails \/ CommandFails \/ Synchronize
  BY <1>3 DEF DriverError, PipelineFails, CommandFails, Synchronize
<1>4. CASE Match
  BY <1>4 DEF Match
<1>5. CASE Mismatch
  BY <1>5 DEF Mismatch
<1>6. CASE Compared \/ Judge
  BY <1>6 DEF Compared, Judge
<1>7. CASE UNCHANGED vars
  BY <1>7 DEF vars
<1>. QED  BY <1>1, <1>2, <1>3, <1>4, <1>5, <1>6, <1>7 DEF Next

\* In a comparison, the host judges a step by what a correct chain has there.
LEMMA AgreesIsRight ==
  ASSUME KVTypeOK, Progress, pc = "compare", i < Count
  PROVE  (Agrees <=> i \in RightSteps) /\ (~Agrees <=> i \in WrongSteps)
<1>1. i \in Steps /\ expected = Start + 8 * i
  BY VerifyAssumption DEF KVTypeOK, Progress, Steps
<1>2. Agrees <=> Right(i)
  BY <1>1 DEF Agrees, Right, Truth
<1>. QED  BY <1>1, <1>2 DEF RightSteps, WrongSteps

\* Once the comparison has begun the output buffers are only read.
LEMMA OutputsStay ==
  ASSUME pc \in {"compare", "judge", "passed", "failed"}, [Next]_vars
  PROVE  /\ UNCHANGED <<pubkeys, scalars, RightSteps, WrongSteps>>
         /\ \A n : CountsBelow(n) /\ UNCHANGED <<pass, fail>> => CountsBelow(n)'
<1>1. UNCHANGED <<pubkeys, scalars>>
  BY DEF Next, FirstPoint, ChainStep, DriverError, PipelineFails, CommandFails, Synchronize,
     Match, Mismatch, Compared, Judge, vars
<1>2. UNCHANGED <<RightSteps, WrongSteps>>
  BY <1>1 DEF RightSteps, WrongSteps, Right
<1>. QED  BY <1>1, <1>2 DEF CountsBelow

\* CountsOfCompared is preserved: a comparison counts its own step, and no other.
LEMMA CountsStep == KVInv /\ [Next]_vars => CountsOfCompared'
<1>. SUFFICES ASSUME KVInv, [Next]_vars PROVE CountsOfCompared'
  OBVIOUS
<1>a. KVTypeOK /\ Progress /\ CountsOfCompared /\ KVTypeOK' /\ Progress'
  BY ProgressStep DEF KVInv
<1>b. i \in 0..Count /\ Count \in Nat \ {0}
  BY <1>a, VerifyAssumption DEF KVTypeOK
<1>c. CountsPlaced
  BY <1>a, CountsAre
<1>d. (KVTypeOK => (CountsOfCompared <=> CountsPlaced))'
  BY CountsAre, PTL
<1>. SUFFICES CountsPlaced'
  BY <1>a, <1>d
<1>. USE DEF CountsPlaced
<1>1. CASE FirstPoint \/ ChainStep
  BY <1>1 DEF FirstPoint, ChainStep
<1>2. CASE DriverError \/ PipelineFails
  BY <1>2 DEF DriverError, PipelineFails
<1>3. CASE CommandFails \/ Synchronize
  <2>1. pc' = "compare" /\ i' = 0 /\ pass' = 0 /\ fail' = 0
    BY <1>3, <1>a DEF CommandFails, Synchronize, Progress, hostVars
  <2>2. \A R : {k \in 0..(0 - 1) : k \in R} = {}
    OBVIOUS
  <2>3. CountsBelow(i)'
    BY <2>1, <2>2, FS_EmptySet DEF CountsBelow
  <2>. QED  BY <2>1, <2>3
<1>4. CASE Match \/ Mismatch
  <2>1. pc = "compare" /\ i < Count /\ CountsBelow(i)
    BY <1>4, <1>c DEF Match, Mismatch
  <2>2. UNCHANGED <<RightSteps, WrongSteps>>
    BY <2>1, OutputsStay
  <2>3. (Agrees <=> i \in RightSteps) /\ (~Agrees <=> i \in WrongSteps)
    BY <1>a, <2>1, AgreesIsRight
  <2>4. /\ pass' = pass + (IF i \in RightSteps THEN 1 ELSE 0)
        /\ fail' = fail + (IF i \in WrongSteps THEN 1 ELSE 0)
    <3>1. pass \in Nat /\ fail \in Nat
      BY <1>a DEF KVTypeOK
    <3>2. CASE Match
      <4>1. Agrees /\ pass' = pass + 1 /\ fail' = fail
        BY <3>2 DEF Match
      <4>. QED  BY <2>3, <3>1, <4>1
    <3>3. CASE Mismatch
      <4>1. ~Agrees /\ pass' = pass /\ fail' = fail + 1
        BY <3>3 DEF Mismatch
      <4>. QED  BY <2>3, <3>1, <4>1
    <3>. QED  BY <1>4, <3>2, <3>3
  <2>5. /\ pass' = Cardinality({k \in 0..i : k \in RightSteps})
        /\ fail' = Cardinality({k \in 0..i : k \in WrongSteps})
    <3>1. i \in Nat
      BY <1>b
    <3>2. \A R : Cardinality({k \in 0..i : k \in R}) =
                  Cardinality({k \in 0..(i - 1) : k \in R}) + (IF i \in R THEN 1 ELSE 0)
      <4>. TAKE R
      <4>. QED  BY <3>1, CountUp
    <3>. QED  BY <2>1, <2>4, <3>2, Zenon DEF CountsBelow
  <2>6. (i + 1) - 1 = i
    BY <1>b
  <2>7. CASE pc' = "compare"
    <3>1. i' = i + 1
      BY <1>4, <2>7 DEF Match, Mismatch
    <3>2. i' - 1 = i
      BY <2>6, <3>1
    <3>. QED  BY <2>2, <2>5, <2>7, <3>2 DEF CountsBelow
  <2>8. CASE pc' # "compare"
    <3>1. pc' = "judge" /\ i' = i
      BY <1>4, <2>1, <2>8 DEF Match, Mismatch
    <3>2. CountsBelow(i + 1)'
      BY <2>2, <2>5, <2>6, <3>1 DEF CountsBelow
    <3>. QED  BY <1>b, <2>1, <3>1, <3>2
  <2>. QED  BY <2>7, <2>8
<1>5. CASE Compared
  <2>1. pc = "compare" /\ i = Count /\ pc' = "judge" /\ UNCHANGED <<i, pass, fail>>
    BY <1>5 DEF Compared, hostVars
  <2>2. CountsBelow(Count)'
    BY <1>c, <2>1, OutputsStay
  <2>. QED  BY <1>b, <2>1, <2>2
<1>6. CASE Judge
  <2>1. pc = "judge" /\ pc' \in {"passed", "failed"} /\ UNCHANGED <<i, pass, fail>>
    BY <1>6 DEF Judge, hostVars
  <2>2. CASE pc' = "passed"
    <3>1. fail = 0
      BY <1>a, <1>6, <2>2 DEF Judge, KVTypeOK
    <3>2. i = Count
      BY <1>a, <1>b, <2>1, <3>1 DEF Progress
    <3>3. CountsBelow(Count)'
      BY <1>c, <2>1, <3>2, OutputsStay
    <3>. QED  BY <2>2, <3>3
  <2>. QED  BY <2>1, <2>2
<1>7. CASE UNCHANGED vars
  <2>1. UNCHANGED <<pc, i, pubkeys, scalars, pass, fail>>
    BY <1>7 DEF vars, hostVars
  <2>2. \A n : CountsBelow(n)' <=> CountsBelow(n)
    BY <2>1 DEF CountsBelow, RightSteps, WrongSteps, Right
  <2>. QED  BY <1>c, <2>1, <2>2
<1>. QED  BY <1>1, <1>2, <1>3, <1>4, <1>5, <1>6, <1>7 DEF Next

\* The inductive invariant: the counts are those of the steps compared so far,
\* each against its own expected value.
THEOREM KVInvariance == Spec => []KVInv
<1>1. KVInv /\ [Next]_vars => KVInv'
  BY ProgressStep, CountsStep DEF KVInv
<1>. QED  BY <1>1, InitKVInv, PTL DEF Spec

\* PASSED means that every key and scalar was right, whatever the device did,
\* and a reported mismatch is one.
THEOREM VerdictsAreTrue == Spec => []VerdictIsTrue
<1>1. KVInv => VerdictIsTrue
  <2>. SUFFICES ASSUME KVInv PROVE VerdictIsTrue
    OBVIOUS
  <2>a. KVTypeOK /\ Progress /\ CountsOfCompared /\ Count \in Nat \ {0} /\ i \in 0..Count
    BY VerifyAssumption DEF KVInv, KVTypeOK
  <2>b. \A n \in 0..Count : /\ IsFiniteSet({k \in 0..(n - 1) : k \in WrongSteps})
                            /\ {k \in 0..(n - 1) : k \in WrongSteps} \subseteq WrongSteps
    <3>. TAKE n \in 0..Count
    <3>1. IsFiniteSet(0..(n - 1))
      BY <2>a, FS_Interval
    <3>. QED  BY <3>1, FS_Subset
  <2>1. ASSUME pc = "passed" PROVE \A k \in Steps : Right(k)
    <3>1. fail = 0 /\ CountsBelow(Count) /\ Count \in 0..Count
      BY <2>a, <2>1, CountsAre DEF Progress, CountsPlaced
    <3>2. {k \in 0..(Count - 1) : k \in WrongSteps} = {}
      BY <2>b, <3>1, FS_EmptySet DEF CountsBelow
    <3>. QED  BY <3>2 DEF WrongSteps, Steps
  <2>2. ASSUME pc = "judge", fail > 0 PROVE \E k \in Steps : ~Right(k)
    <3>1. PICK n \in 0..Count : CountsBelow(n)
      BY <2>a, <2>2, CountsAre DEF CountsPlaced
    <3>2. {k \in 0..(n - 1) : k \in WrongSteps} # {}
      BY <2>2, <3>1, FS_EmptySet DEF CountsBelow
    <3>. QED  BY <2>b, <3>2 DEF WrongSteps
  <2>. QED  BY <2>a, <2>1, <2>2 DEF VerdictIsTrue
<1>. QED  BY <1>1, KVInvariance, PTL
=============================================================================
