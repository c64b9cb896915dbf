------------------------------- MODULE Edwards -------------------------------
(***************************************************************************)
(* The field and group arithmetic of cuda/vanity_kernel.cu, over any       *)
(* twisted Edwards curve -x^2 + y^2 = 1 + D x^2 y^2 on a field of P        *)
(* elements, P = 5 (mod 8), D no square: P = 2^255 - 19 in the program, a  *)
(* prime of two or three digits in the instances.  A field element is its  *)
(* value: how ten limbs represent it is abstracted.  The file also holds   *)
(* operations that no kernel calls (subtraction, ge_cached, decoding):     *)
(* they are left out.                                                      *)
(***************************************************************************)
EXTENDS Integers, Sequences, FieldPower

CONSTANTS
  P, D,         \* the field and the curve
  BaseX, BaseY, \* the base point
  Multiples,    \* a table of its multiples (MultiplesAssumption)
  TopBit        \* the bit of an encoding that holds the sign of x, above any y

ASSUME FieldAssumption ==
  /\ P \in Nat /\ P % 8 = 5 /\ TopBit \in Nat
  /\ {D, BaseX, BaseY} \subseteq 0 .. P - 1
  /\ \A r \in 0 .. P - 1 : (r * r) % P # D
  /\ TopBit > P /\ TopBit % 2 = 0

Fe == 0 .. P - 1

fe_add(f, g) == (f + g) % P
fe_sub(f, g) == (f - g) % P
fe_neg(f) == (-f) % P
fe_mul(f, g) == (f * g) % P
fe_sq(f) == (f * f) % P
fe_sq2(f) == (2 * f * f) % P
fe_cmov(f, g, b) == IF b = 1 THEN g ELSE f

\* z^(P-2) (FieldPower): the inverse of z, and 0 for 0.
InverseOf == [z \in Fe |-> IF z = 0 THEN 0
                           ELSE CHOOSE w \in Fe : fe_mul(w, z) = 1]
fe_invert(z) == InverseOf[z]

\* Bytes are abstracted to the number they encode; the result is canonical.
fe_tobytes(h) == h
fe_isnegative(f) == fe_tobytes(f) % 2

-----------------------------------------------------------------------------
(***************************************************************************)
(* The representations of a point: ge_p2 (X:Y:Z) with x = X/Z, y = Y/Z;    *)
(* ge_p3 also T = XY/Z; ge_p1p1 ((X:Z), (Y:T)); ge_precomp                 *)
(* (y+x, y-x, 2dxy) of an affine point.                                    *)
(***************************************************************************)
P2(X, Y, Z) == [X |-> X, Y |-> Y, Z |-> Z]
P3(X, Y, Z, T) == [X |-> X, Y |-> Y, Z |-> Z, T |-> T]
Precomp(yplusx, yminusx, xy2d) ==
  [yplusx |-> yplusx, yminusx |-> yminusx, xy2d |-> xy2d]

d2 == fe_add(D, D)

ge_p3_0 == P3(0, 1, 1, 0)

ge_p3_to_p2(p) == P2(p.X, p.Y, p.Z)

ge_p1p1_to_p2(p) ==
  P2(fe_mul(p.X, p.T), fe_mul(p.Y, p.Z), fe_mul(p.Z, p.T))

ge_p1p1_to_p3(p) ==
  P3(fe_mul(p.X, p.T), fe_mul(p.Y, p.Z), fe_mul(p.Z, p.T), fe_mul(p.X, p.Y))

\* The sum of a ge_p3 and an affine point of a table.
ge_madd(p, q) ==
  LET a == fe_mul(fe_add(p.Y, p.X), q.yplusx)
      b == fe_mul(fe_sub(p.Y, p.X), q.yminusx)
      c == fe_mul(q.xy2d, p.T)
      zz == fe_add(p.Z, p.Z)
  IN  P3(fe_sub(a, b), fe_add(a, b), fe_add(zz, c), fe_sub(zz, c))

ge_p2_dbl(p) ==
  LET xx == fe_sq(p.X)
      yy == fe_sq(p.Y)
      y == fe_add(yy, xx)
      z == fe_sub(yy, xx)
  IN  P3(fe_sub(fe_sq(fe_add(p.X, p.Y)), y), y, z, fe_sub(fe_sq2(p.Z), z))

ge_p3_dbl(p) == ge_p2_dbl(ge_p3_to_p2(p))

\* Mutant: the sign of x is left out.
ge_p3_tobytes_NoSign(h) == fe_tobytes(fe_mul(h.Y, fe_invert(h.Z)))

\* The encoding of a point: y, and the parity of x in the top bit.
ge_p3_tobytes(h) ==
  LET recip == fe_invert(h.Z)
  IN  fe_tobytes(fe_mul(h.Y, recip))
        + TopBit * fe_isnegative(fe_mul(h.X, recip))

-----------------------------------------------------------------------------
(***************************************************************************)
(* The reference: the curve's affine points and its group law, by the      *)
(* textbook formula.                                                       *)
(***************************************************************************)
OnCurve(a) ==
  fe_sub(fe_sq(a[2]), fe_sq(a[1]))
    = fe_add(1, fe_mul(D, fe_mul(fe_sq(a[1]), fe_sq(a[2]))))

Neutral == <<0, 1>>

Curve == {a \in Fe \X Fe : OnCurve(a)}

\* What the denominators of a sum differ from 1 by.
Excess(a, b) == fe_mul(D, fe_mul(fe_mul(a[1], b[1]), fe_mul(a[2], b[2])))

Plus(a, b) ==
  << fe_mul(fe_add(fe_mul(a[1], b[2]), fe_mul(b[1], a[2])),
            fe_invert(fe_add(1, Excess(a, b)))),
     fe_mul(fe_add(fe_mul(a[2], b[2]), fe_mul(a[1], b[1])),
            fe_invert(fe_sub(1, Excess(a, b)))) >>

Base == <<BaseX, BaseY>>
Order == Len(Multiples)
Points == {Multiples[n] : n \in 1 .. Order}

\* The multiples of the base point, 0 B, 1 B, ..., up to its order.
ASSUME MultiplesAssumption ==
  /\ Multiples[1] = Neutral /\ OnCurve(Base)
  /\ \A n \in 1 .. Order :
       Plus(Multiples[n], Base) = Multiples[1 + (n % Order)]

\* What the mathematics of the curve provides: P is a prime, so the field has
\* inverses; the addition law is complete where D is no square, and makes the
\* curve a group, of which the multiples of the base point are a part.
ASSUME PrimeAssumption == \A z \in Fe \ {0} : \E w \in Fe : fe_mul(w, z) = 1
ASSUME GroupAssumption ==
  /\ Multiples \in Seq(Curve) \ {<<>>}
  /\ \A a, b \in Points : fe_add(1, Excess(a, b)) # 0 /\ fe_sub(1, Excess(a, b)) # 0
  /\ \A a, b \in Points, c \in Curve : Plus(a, Plus(b, c)) = Plus(Plus(a, b), c)

Times(n) == Multiples[1 + (n % Order)]

EncodingOf(a) == a[2] + TopBit * (a[1] % 2)

\* The affine point a ge_p2 or ge_p3 stands for, where it stands for one.
Valid(p) ==
  /\ p.Z # 0
  /\ "T" \in DOMAIN p => fe_mul(p.T, p.Z) = fe_mul(p.X, p.Y)
Affine(p) == <<fe_mul(p.X, fe_invert(p.Z)), fe_mul(p.Y, fe_invert(p.Z))>>
PrecompOf(a) == Precomp(fe_add(a[2], a[1]), fe_sub(a[2], a[1]),
                        fe_mul(d2, fe_mul(a[1], a[2])))
=============================================================================
