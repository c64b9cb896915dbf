---------------------------- MODULE KeygenVerify ----------------------------
(***************************************************************************)
(* The --verify command: the kernel verify_keygen walks a chain of `count` *)
(* steps and writes a public key and a scalar at each; then the host       *)
(* recomputes every step directly, stops after some mismatches, and main   *)
(* reports PASSED or FAILED.  The device may fail in any way the command   *)
(* exists to find: the first multiplication, the encoding of a point, an   *)
(* addition of 8B or one of 8 may go wrong, once or repeatedly, a driver   *)
(* call may report an error, and on Metal a command may fail unnoticed.    *)
(* Points are residues of their scalar, as in ToyCurve.                    *)
(***************************************************************************)
EXTENDS Integers, FiniteSets

CONSTANTS
  Count,       \* chain steps (64)
  StopAfter,   \* mismatches after which the host stops comparing (5)
  Start,       \* start_scalar, clamped
  Group,       \* the order of the group
  MaxFaults    \* bound on the number of faults of the device

ASSUME VerifyAssumption ==
  /\ Count \in Nat \ {0} /\ StopAfter \in Nat \ {0} /\ Start \in Nat
  /\ Group \in Nat /\ Group > 8 /\ MaxFaults \in Nat

VARIABLES
  metal,            \* TRUE on the Metal back end (frozen)
  pc,               \* "start", "kernel", "compare", "judge", "passed" or "failed"
  i,
  point, scalar,    \* A and my_scalar
  pubkeys, scalars, \* the output buffers, zeroed when allocated
  pass, fail, expected,
  faults            \* how many faults the device made

hostVars == <<pass, fail, expected>>
vars == <<metal, pc, i, point, scalar, pubkeys, scalars, hostVars, faults>>

Steps == 0 .. Count - 1
Mult(s) == s % Group

\* What the device may compute instead of v.
Outcomes(v) == {[value |-> v, fault |-> 0]} \cup
  (IF faults < MaxFaults
   THEN {[value |-> v + slip, fault |-> 1] : slip \in {1, 8}} ELSE {})

Init ==
  /\ metal \in BOOLEAN
  /\ pc = "start" /\ i = 0 /\ point = 0 /\ scalar = Start
  /\ pubkeys = [k \in Steps |-> -1] /\ scalars = [k \in Steps |-> -1]
  /\ pass = 0 /\ fail = 0 /\ expected = Start
  /\ faults = 0

\* ge_scalarmult_base of the start scalar.
FirstPoint ==
  /\ pc = "start"
  /\ \E o \in Outcomes(Start) :
       point' = Mult(o.value) /\ faults' = faults + o.fault
  /\ pc' = "kernel"
  /\ UNCHANGED <<metal, i, scalar, pubkeys, scalars, hostVars>>

\* One step of verify_keygen: write both, then A += 8B and my_scalar += 8.
ChainStep ==
  /\ pc = "kernel" /\ i < Count
  /\ scalars' = [scalars EXCEPT ![i] = scalar]
  /\ \E w \in Outcomes(point), o \in Outcomes(point + 8),
        t \in Outcomes(scalar + 8) :
       /\ pubkeys' = [pubkeys EXCEPT ![i] = Mult(w.value)]
       /\ point' = Mult(o.value) /\ scalar' = t.value
       /\ faults' = faults + w.fault + o.fault + t.fault
       /\ faults' <= MaxFaults
  /\ i' = i + 1
  /\ UNCHANGED <<metal, pc, hostVars>>

\* compile_kernel, an allocation, the launch or a copy reports an error.
DriverError ==
  /\ pc \in {"start", "kernel"} /\ ~metal
  /\ pc' = "failed"
  /\ UNCHANGED <<metal, i, point, scalar, pubkeys, scalars, hostVars, faults>>

\* On Metal, no device, a library that does not compile or a pipeline that
\* cannot be made is reported; all of them come before the launch.
PipelineFails ==
  /\ pc = "start" /\ metal
  /\ pc' = "failed"
  /\ UNCHANGED <<metal, i, point, scalar, pubkeys, scalars, hostVars, faults>>

\* The Metal host does not look at the command buffer's status.
CommandFails ==
  /\ pc \in {"start", "kernel"} /\ metal
  /\ pc' = "compare" /\ i' = 0
  /\ UNCHANGED <<metal, point, scalar, pubkeys, scalars, hostVars, faults>>

Synchronize ==
  /\ pc = "kernel" /\ i = Count
  /\ pc' = "compare" /\ i' = 0
  /\ UNCHANGED <<metal, point, scalar, pubkeys, scalars, hostVars, faults>>

\* Mutant: the scalars are not compared.
Agrees_KeyOnly == pubkeys[i] = Mult(expected)

Agrees == pubkeys[i] = Mult(expected) /\ scalars[i] = expected

Match ==
  /\ pc = "compare" /\ i < Count /\ Agrees
  /\ pass' = pass + 1 /\ expected' = expected + 8 /\ i' = i + 1
  /\ UNCHANGED <<metal, pc, point, scalar, pubkeys, scalars, fail, faults>>

\* Mutant: the expected scalar is not advanced on a mismatch.
Mismatch_NoAdvance ==
  /\ pc = "compare" /\ i < Count /\ ~Agrees
  /\ fail' = fail + 1
  /\ IF fail' >= StopAfter
     THEN pc' = "judge" /\ UNCHANGED <<i, expected>>
     ELSE i' = i + 1 /\ UNCHANGED <<pc, expected>>
  /\ UNCHANGED <<metal, point, scalar, pubkeys, scalars, pass, faults>>

Mismatch ==
  /\ pc = "compare" /\ i < Count /\ ~Agrees
  /\ fail' = fail + 1
  /\ IF fail' >= StopAfter
     THEN pc' = "judge" /\ UNCHANGED <<i, expected>>
     ELSE i' = i + 1 /\ expected' = expected + 8 /\ UNCHANGED pc
  /\ UNCHANGED <<metal, point, scalar, pubkeys, scalars, pass, faults>>

Compared ==
  /\ pc = "compare" /\ i = Count
  /\ pc' = "judge"
  /\ UNCHANGED <<metal, i, point, scalar, pubkeys, scalars, hostVars, faults>>

\* Err if any step mismatched; main prints the verdict and exits 0 or 1.
Judge ==
  /\ pc = "judge"
  /\ pc' = IF fail > 0 THEN "failed" ELSE "passed"
  /\ UNCHANGED <<metal, i, point, scalar, pubkeys, scalars, hostVars, faults>>

Next == FirstPoint \/ ChainStep \/ DriverError \/ PipelineFails \/ CommandFails
          \/ Synchronize \/ Match \/ Mismatch \/ Compared \/ Judge

Spec == Init /\ [][Next]_vars

-----------------------------------------------------------------------------
\* What the kernel would write at step k of a correct chain.
Truth(k) == <<Mult(Start + 8 * k), Start + 8 * k>>
Right(k) == <<pubkeys[k], scalars[k]>> = Truth(k)

\* Each step is judged against its own expected value: the counts are those of
\* the steps compared so far, also after mismatches.
CountsOfCompared ==
  LET seen == IF pc = "compare" THEN 0 .. i - 1
              ELSE IF pc = "judge" /\ i < Count THEN 0 .. i ELSE Steps
  IN  pc \in {"compare", "judge", "passed"} =>
        /\ pass = Cardinality({k \in seen : Right(k)})
        /\ fail = Cardinality({k \in seen : ~Right(k)})

\* --verify passes exactly the devices whose chain was right at every step,
\* in both the key and the scalar, however few of the steps were compared.
\* In particular a device that never ran the kernel does not pass.  The counts
\* the command prints are those of the steps it compared.
VerdictIsTrue ==
  /\ CountsOfCompared
  /\ pc = "passed" => \A k \in Steps : Right(k)
  /\ pc = "judge" /\ fail > 0 => \E k \in Steps : ~Right(k)
=============================================================================
