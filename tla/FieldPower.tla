----------------------------- MODULE FieldPower -----------------------------
(***************************************************************************)
(* fe_invert: the addition chain that raises z to P - 2, P = 2^255 - 19.   *)
(* A register is the exponent of z it stands for, in binary: the set of    *)
(* the positions of its one bits, so exponents of 255 bits are exact.      *)
(***************************************************************************)
EXTENDS Integers

\* fe_sq, n times.
Sq(bits, n) == {k + n : k \in bits}

\* fe_mul adds exponents; in this chain the two never share a bit, so there
\* is no carry (TLC reports an error otherwise).
Mul(bits, more) == CASE bits \cap more = {} -> bits \cup more

InverseExponent ==
  LET one   == {0}
      z2    == Sq(one, 1)
      z9    == Mul(one, Sq(z2, 2))
      z11   == Mul(z2, z9)
      b5    == Mul(z9, Sq(z11, 1))      \* 2^5 - 1
      b10   == Mul(Sq(b5, 5), b5)
      b20   == Mul(Sq(b10, 10), b10)
      b40   == Mul(Sq(b20, 20), b20)
      b50   == Mul(Sq(b40, 10), b10)
      b100  == Mul(Sq(b50, 50), b50)
      b200  == Mul(Sq(b100, 100), b100)
      b250  == Mul(Sq(b200, 50), b50)
  IN Mul(Sq(b250, 5), z11)

\* P - 2 = 2^255 - 21: every bit below 255 but those worth 4 and 16.
ASSUME InverseAssumption == InverseExponent = (0 .. 254) \ {2, 4}
=============================================================================
