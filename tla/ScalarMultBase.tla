--------------------------- MODULE ScalarMultBase ---------------------------
(***************************************************************************)
(* ge_scalarmult_base: the starting point of every GPU chain.  A scalar of *)
(* Bytes bytes (32 in the program) is recoded into signed digits of radix  *)
(* 16, and the digits look up a table of multiples of the base point:      *)
(* first those at odd positions, then four doublings, then the even ones.  *)
(* One action per loop iteration.                                          *)
(***************************************************************************)
EXTENDS Edwards, Sums

CONSTANTS
  Bytes,     \* the length of a scalar
  Inputs     \* the scalars tried

Digits == 2 * Bytes

\* The powers of 16.
Place[k \in 0 .. Digits] == IF k = 0 THEN 1 ELSE 16 * Place[k - 1]

ASSUME BytesAssumption == Bytes \in Nat \ {0}
\* a[31] <= 134.  The code's comment asks for a[31] <= 127, the clamped scalars;
\* the start of a GPU chain's later thread or launch may lie beyond those.
ASSUME InputsAssumption == Inputs \subseteq 0 .. 135 * Place[Digits - 2] - 1

VARIABLES
  pc,          \* "recode", "odd", "even" or "done"
  my_scalar,   \* the scalar, a in the code
  e,           \* its digits
  carry,
  i,
  A            \* the ge_p3 under construction, h in the code

digitVars == <<e, carry>>

Nibble(n, k) == (n \div Place[k]) % 16

-----------------------------------------------------------------------------
\* base[pos][k] = (k+1) * 256^pos * B, k in 0 .. 7.
base == [pos \in 0 .. Bytes - 1 |->
          [k \in 0 .. 7 |-> PrecompOf(Times((k + 1) * Place[2 * pos]))]]

negative(b) == IF b < 0 THEN 1 ELSE 0
equal(b, c) == IF b = c THEN 1 ELSE 0

cmov(t, u, b) ==
  Precomp(fe_cmov(t.yplusx, u.yplusx, b), fe_cmov(t.yminusx, u.yminusx, b),
          fe_cmov(t.xy2d, u.xy2d, b))

\* Mutant: the largest entry of a row is never selected.
select_NoEighth(pos, b) ==
  LET babs == IF b < 0 THEN -b ELSE b
      t == IF babs \in 1 .. 7 THEN base[pos][babs - 1] ELSE Precomp(1, 1, 0)
  IN  cmov(t, Precomp(t.yminusx, t.yplusx, fe_neg(t.xy2d)), negative(b))

\* The table's entry for a digit, without a branch on the digit.
select(pos, b) ==
  LET babs == b - 2 * negative(b) * b
      one == Precomp(1, 1, 0)
      found[k \in 0 .. 8] ==
        IF k = 0 THEN one
        ELSE cmov(found[k - 1], base[pos][k - 1], equal(babs, k))
      t == found[8]
  IN  cmov(t, Precomp(t.yminusx, t.yplusx, fe_neg(t.xy2d)), negative(b))

-----------------------------------------------------------------------------
ScalarMultInit ==
  /\ pc = "recode" /\ carry = 0 /\ i = 0 /\ A = ge_p3_0
  /\ my_scalar \in Inputs
  /\ e = [k \in 0 .. Digits - 1 |-> Nibble(my_scalar, k)]

\* Mutant: digits are made signed without rounding (8 stays 8, 9 .. 15 too).
Carry_NoRounding(digit) == digit \div 16

Carry(digit) == (digit + 8) \div 16

Recode ==
  /\ pc = "recode" /\ i < Digits - 1
  /\ LET digit == e[i] + carry
     IN  /\ carry' = Carry(digit)
         /\ e' = [e EXCEPT ![i] = digit - 16 * Carry(digit)]
  /\ i' = i + 1
  /\ UNCHANGED <<pc, my_scalar, A>>

RecodeLast ==
  /\ pc = "recode" /\ i = Digits - 1
  /\ e' = [e EXCEPT ![i] = @ + carry]
  /\ pc' = "odd" /\ i' = 1
  /\ UNCHANGED <<my_scalar, carry, A>>

AddDigit ==
  /\ i < Digits
  /\ A' = ge_p1p1_to_p3(ge_madd(A, select(i \div 2, e[i])))
  /\ i' = i + 2
  /\ UNCHANGED <<pc, my_scalar, e, carry>>

AddOdd == pc = "odd" /\ AddDigit

AddEven == pc = "even" /\ AddDigit

TimesSixteen ==
  /\ pc = "odd" /\ i >= Digits
  /\ LET twice == ge_p1p1_to_p2(ge_p3_dbl(A))
         four == ge_p1p1_to_p2(ge_p2_dbl(twice))
         eight == ge_p1p1_to_p2(ge_p2_dbl(four))
     IN  A' = ge_p1p1_to_p3(ge_p2_dbl(eight))
  /\ pc' = "even" /\ i' = 0
  /\ UNCHANGED <<my_scalar, e, carry>>

Return ==
  /\ pc = "even" /\ i >= Digits
  /\ pc' = "done"
  /\ UNCHANGED <<my_scalar, e, carry, i, A>>

ScalarMultStep ==
  Recode \/ RecodeLast \/ AddOdd \/ AddEven \/ TimesSixteen \/ Return

-----------------------------------------------------------------------------
\* The sum of digit * 16^k over the positions in S.
Value(S) ==
  SumUpTo([k \in 1 .. Digits |-> IF k - 1 \in S THEN e[k - 1] * Place[k - 1] ELSE 0],
          Digits)

Multiplying == pc \in {"recode", "odd", "even", "done"}

\* "each e[i] is between -8 and 8": after recoding, every digit is one the
\* table holds, and before and after, the digits with the pending carry make
\* up the scalar; the last digit absorbs the last carry only because the top
\* byte is at most 134.
DigitsMakeTheScalar ==
  /\ pc = "recode" => Value(0 .. Digits - 1) + carry * Place[i] = my_scalar
  /\ Multiplying /\ pc # "recode" =>
       /\ Value(0 .. Digits - 1) = my_scalar
       /\ \A k \in 0 .. Digits - 1 : e[k] \in -8 .. 8

Odd(n) == {k \in 0 .. Digits - 1 : k % 2 = 1 /\ k < n}
Even(n) == {k \in 0 .. Digits - 1 : k % 2 = 0 /\ k < n}

\* "h = a * B": at every iteration of the two digit loops the point is the
\* multiple of B that the digits added so far stand for; those at odd
\* positions count 1/16 of their weight until the four doublings.
PartialProduct ==
  LET multiple == CASE pc = "recode" -> 0
                    [] pc = "odd" -> Value(Odd(i)) \div 16
                    [] pc = "even" -> Value(Odd(Digits)) + Value(Even(i))
                    [] pc = "done" -> my_scalar
  IN  Multiplying => Valid(A) /\ Affine(A) = Times(multiple)

-----------------------------------------------------------------------------
(***************************************************************************)
(* The inductive invariant.                                                *)
(***************************************************************************)
\* A ge_p3 that stands for n B.
Stands(p, n) ==
  /\ p \in [X : Fe, Y : Fe, Z : Fe, T : Fe]
  /\ Valid(p) /\ Affine(p) = Times(n)

\* The last digit can take a carry, or none will come out of the one below it.
RoomOnTop(x, k, r) ==
  \/ x[Digits - 1] \in 0 .. 7
  \/ /\ x[Digits - 1] = 8
     /\ k < Digits - 1 => x[Digits - 2] \in 0 .. 6
     /\ k = Digits - 1 => r = 0

\* Digits below i are signed, those from i on are still nibbles.
RecodeOK ==
  pc = "recode" =>
    /\ i \in 0 .. Digits - 1 /\ A = ge_p3_0
    /\ \A k \in 0 .. Digits - 1 : e[k] \in (IF k < i THEN -8 .. 7 ELSE 0 .. 15)
    /\ RoomOnTop(e, i, carry)

\* The point stands for the digits added so far.
SumOK ==
  /\ pc = "odd" => /\ i \in 1 .. Digits + 1 /\ i % 2 = 1
                   /\ Value(Odd(i)) % 16 = 0 /\ Stands(A, Value(Odd(i)) \div 16)
  /\ pc = "even" => /\ i \in 0 .. Digits /\ i % 2 = 0
                    /\ Stands(A, Value(Odd(Digits)) + Value(Even(i)))
  /\ pc = "done" => Stands(A, my_scalar)

ScalarMultInv ==
  /\ my_scalar \in Nat /\ e \in [0 .. Digits - 1 -> Int] /\ carry \in {0, 1}
  /\ RecodeOK /\ SumOK /\ DigitsMakeTheScalar
=============================================================================
