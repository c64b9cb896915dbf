---------------------------- MODULE ScalarMath ----------------------------
(***************************************************************************)
(* The byte loops that move a 256-bit little-endian scalar along its       *)
(* chain: advance_scalar and clamp_scalar on the host                      *)
(* (src/src/search.rs), the thread and match offsets of the search kernels *)
(* and the +8 of the verification kernel (src/cuda/vanity_kernel.cu).      *)
(* Four loops, three ways to propagate a carry, two of them with an early  *)
(* exit; generate_keypair (src/src/keygen.rs) has the clamp once more.     *)
(* The other modules use scalars as integers: this one shows that the      *)
(* loops compute them.                                                     *)
(*                                                                         *)
(* Scaled down: a byte has ByteMod values (256), a scalar Bytes bytes      *)
(* (32), a u64 WordBytes bytes (8).  One action is one loop iteration.     *)
(***************************************************************************)
EXTENDS Integers, Sums

CONSTANTS
  ByteMod,     \* values of a byte, a multiple of 8
  Bytes,       \* bytes of a scalar
  WordBytes    \* bytes of the added offset

ASSUME WidthAssumption ==
  /\ ByteMod \in Nat \ {0} /\ ByteMod % 8 = 0
  /\ Bytes \in Nat /\ Bytes > 1 /\ WordBytes \in 1..Bytes

VARIABLES
  loop,      \* which loop runs: "advance", "offset", "eight" or "clamp"
  input,     \* the scalar before the loop
  delta,     \* what is added
  s,         \* the scalar
  i,         \* the next byte
  carry,
  done

vars == <<loop, input, delta, s, i, carry, done>>

Index == 0..(Bytes - 1)

\* What a byte counts for at each place; the last one is the width.
Place[j \in 0..Bytes] == IF j = 0 THEN 1 ELSE ByteMod * Place[j - 1]
ScalarMod == Place[Bytes]

Scalars == [Index -> 0..(ByteMod - 1)]

\* The value of a little-endian scalar, and byte j of a number.
Value(x) == SumUpTo([k \in 1..Bytes |-> x[k - 1] * Place[k - 1]], Bytes)
ByteOf(n, j) == (n \div Place[j]) % ByteMod

Init ==
  /\ loop \in {"advance", "offset", "eight", "clamp"}
  /\ input \in Scalars /\ s = input /\ i = 0 /\ done = FALSE
  /\ delta \in CASE loop = "eight" -> {8}
                 [] loop = "clamp" -> {0}
                 [] OTHER -> 0..(Place[WordBytes] - 1)
  /\ carry = IF loop = "advance" THEN delta ELSE 0

\* advance_scalar: the carry starts as the whole delta and moves down a byte
\* per iteration; the loop breaks when nothing is left of it.
CarryOn_SumOnly(c, sum) == sum \div ByteMod
CarryOn(c, sum) == (c \div ByteMod) + (sum \div ByteMod)

AdvanceByte ==
  LET sum == s[i] + (carry % ByteMod)
  IN /\ loop = "advance" /\ ~done
     /\ s' = [s EXCEPT ![i] = sum % ByteMod]
     /\ carry' = CarryOn(carry, sum)
     /\ i' = i + 1
     /\ done' = (carry' = 0 \/ i' = Bytes)
     /\ UNCHANGED <<loop, input, delta>>

\* vanity_search, vanity_count_matches: the offset's byte and the carry are
\* added at every one of the bytes.
OffsetByte ==
  LET byte_add == IF i < WordBytes THEN ByteOf(delta, i) ELSE 0
      sum == s[i] + byte_add + carry
  IN /\ loop = "offset" /\ ~done
     /\ s' = [s EXCEPT ![i] = sum % ByteMod]
     /\ carry' = sum \div ByteMod
     /\ i' = i + 1
     /\ done' = (i' = Bytes)
     /\ UNCHANGED <<loop, input, delta>>

\* verify_keygen: add 8 to the low byte, then carry while there is a carry.
LoopEnds(c, next) == c = 0 \/ next = Bytes

EightByte ==
  LET sum == s[i] + IF i = 0 THEN delta ELSE carry
  IN /\ loop = "eight" /\ ~done
     /\ s' = [s EXCEPT ![i] = sum % ByteMod]
     /\ carry' = sum \div ByteMod
     /\ i' = i + 1
     /\ done' = LoopEnds(carry', i')
     /\ UNCHANGED <<loop, input, delta>>

\* clamp_scalar: s[0] &= 248, s[31] &= 63, s[31] |= 64.
TopBits_BitSixOnly(byte) == (byte % (ByteMod \div 2)) + ByteMod \div 4
TopBits(byte) == (byte % (ByteMod \div 4)) + ByteMod \div 4

clamp(x) ==
  LET low == [x EXCEPT ![0] = @ - (@ % 8)]
  IN [low EXCEPT ![Bytes - 1] = TopBits(@)]

Clamp ==
  /\ loop = "clamp" /\ ~done
  /\ s' = clamp(s)
  /\ done' = TRUE
  /\ UNCHANGED <<loop, input, delta, i, carry>>

\* generate_keypair clamps the first half of the seed's SHA-512, keeps it as
\* the private scalar and multiplies by B with mul_base_clamped, which clamps
\* what it is given once more; the second half is appended untouched.
generate_keypair(half) == [private |-> clamp(half), multiplier |-> clamp(clamp(half))]

Terminated == done /\ UNCHANGED vars

Next == AdvanceByte \/ OffsetByte \/ EightByte \/ Clamp \/ Terminated

Spec == Init /\ [][Next]_vars

-----------------------------------------------------------------------------
(***************************************************************************)
(* What the loops keep.                                                    *)
(***************************************************************************)
MTypeOK ==
  /\ loop \in {"advance", "offset", "eight", "clamp"}
  /\ input \in Scalars /\ s \in Scalars /\ delta \in Nat
  /\ i \in 0..Bytes /\ carry \in Nat /\ done \in BOOLEAN

\* What is still to be added, in units of the place that comes next.
Pending ==
  CASE loop = "advance" -> carry
    [] loop = "offset"  -> carry + (delta \div Place[i])
    [] loop = "eight"   -> IF i = 0 THEN delta ELSE carry
    [] loop = "clamp"   -> 0

\* A loop is left at its last byte, or when nothing is pending.
LoopOK ==
  /\ i = Bytes => done
  /\ done => i = Bytes \/ Pending = 0
  /\ loop = "offset" => delta < Place[WordBytes]

\* The scalar and what is pending make up the sum, at every byte.
Balance == loop # "clamp" => Value(s) + Pending * Place[i] = Value(input) + delta

ClampedOnce == loop = "clamp" => s = IF done THEN clamp(input) ELSE input

\* The inductive invariant.
MInv == MTypeOK /\ LoopOK /\ Balance /\ ClampedOnce

\* search.rs: "Wraps mod 2^256".  Each of the three adders yields the sum,
\* whatever the bytes it carries through and wherever it breaks off, so the
\* host's territories, the kernel's offsets and the scalars the host expects
\* of the verification kernel agree.
AddersAdd ==
  done /\ loop # "clamp" => Value(s) = (Value(input) + delta) % ScalarMod

\* Clamping is the arithmetic the other modules use: a multiple of 8 in the
\* second quarter of the scalars, and nothing else of the input is touched.
\* Clamping twice changes nothing (a comment in keygen.rs), so the public key
\* of generate_keypair, and the first point of a CPU worker, belong to the
\* private scalar that is kept.
ClampIsArithmetic ==
  done /\ loop = "clamp" =>
    LET base == ScalarMod \div 4
        v    == Value(input)
    IN /\ Value(s) = ((v - (v % 8)) % base) + base
       /\ generate_keypair(input) = [private |-> s, multiplier |-> s]
=============================================================================
