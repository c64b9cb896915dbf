------------------------- MODULE KernelThreadProofs -------------------------
(***************************************************************************)
(* One kernel thread multiplies the base point by its scalar and walks the *)
(* chain without leaving out, repeating or misattributing a candidate: for *)
(* every curve, every width of the scalars, every batch size and every     *)
(* number of iterations.                                                   *)
(*                                                                         *)
(* Section 1 computes with residues modulo P, section 2 with multiples of  *)
(* the base point, section 3 shows that the ge_* formulas compute with     *)
(* points, section 4 is ge_scalarmult_base, section 5 the loops of the     *)
(* kernels, and section 6 has the theorems.                                *)
(***************************************************************************)
EXTENDS KernelThread, SumLemmas, FiniteSetTheorems

-----------------------------------------------------------------------------
(***************************************************************************)
(* 1. Residues.                                                            *)
(***************************************************************************)
Res(a) == a % P

\* The field has more than two elements.
LEMMA FieldSize == P \in Nat \ {0} /\ P >= 5 /\ P \in Int /\ P > 0
BY FieldAssumption

\* A residue is a field element.
LEMMA ResType == ASSUME NEW a \in Int PROVE Res(a) \in Fe /\ Res(a) \in Int
BY FieldSize DEF Res, Fe

\* A field element is its own residue.
LEMMA ResOfElement == ASSUME NEW f \in Fe PROVE Res(f) = f /\ f \in Int
BY FieldSize DEF Res, Fe

\* An integer is its residue and a multiple of P.
LEMMA ResSplit ==
  ASSUME NEW a \in Int
  PROVE  \E q \in Int : a = Res(a) + q * P
<1>1. a = P * (a \div P) + (a % P) /\ a \div P \in Int
  BY FieldSize, Quotient
<1>2. P * (a \div P) = (a \div P) * P /\ (a \div P) * P \in Int /\ (a % P) \in Int
  BY <1>1, FieldSize, Regroup
<1>3. a = Res(a) + (a \div P) * P
  BY <1>1, <1>2 DEF Res
<1>. QED  BY <1>1, <1>3

\* Multiples of P do not matter.
LEMMA ResShift ==
  ASSUME NEW a \in Int, NEW q \in Int
  PROVE  Res(a + q * P) = Res(a)
<1>1. PICK s \in Int : a = Res(a) + s * P
  BY ResSplit
<1>2. Res(a) \in 0 .. P - 1 /\ Res(a) \in Int
  BY ResType DEF Fe
<1>3. (s + q) * P = s * P + q * P /\ s * P \in Int /\ q * P \in Int /\ s + q \in Int
  BY FieldSize, Distribute
<1>4. a + q * P = Res(a) + (s + q) * P /\ a + q * P \in Int
  BY <1>1, <1>2, <1>3
<1>5. (a + q * P) % P = Res(a)
  BY <1>2, <1>3, <1>4, FieldSize, QuotientUnique
<1>. QED  BY <1>5 DEF Res

\* Residues may be taken before or after adding, subtracting and multiplying.
LEMMA ResAdd ==
  ASSUME NEW a \in Int, NEW c \in Int
  PROVE  Res(Res(a) + Res(c)) = Res(a + c) /\ Res(Res(a) - Res(c)) = Res(a - c)
<1>1. PICK q \in Int : a = Res(a) + q * P
  BY ResSplit
<1>2. PICK r \in Int : c = Res(c) + r * P
  BY ResSplit
<1>. DEFINE f == Res(a)  g == Res(c)  s == q * P  t == r * P
<1>3. (q + r) * P = s + t /\ (q - r) * P = s - t
  BY FieldSize, Distribute
<1>4. s \in Int /\ t \in Int /\ q + r \in Int /\ q - r \in Int /\ f \in Int /\ g \in Int
  BY FieldSize, Distribute, ResType
<1>5. a = f + s /\ c = g + t
  BY <1>1, <1>2
<1>. HIDE DEF f, g, s, t
<1>6. a + c = (f + g) + (s + t) /\ a - c = (f - g) + (s - t)
  BY <1>4, <1>5
<1>7. f + g \in Int /\ f - g \in Int
  BY <1>4
<1>8. Res(f + g) = Res(a + c) /\ Res(f - g) = Res(a - c)
  BY <1>3, <1>4, <1>6, <1>7, ResShift
<1>. QED  BY <1>8 DEF f, g

\* The same for products.
LEMMA ResMul ==
  ASSUME NEW a \in Int, NEW c \in Int
  PROVE  Res(Res(a) * Res(c)) = Res(a * c)
<1>. DEFINE f == Res(a)
            g == Res(c)
<1>1. PICK q \in Int : a = f + q * P
  BY ResSplit
<1>2. PICK r \in Int : c = g + r * P
  BY ResSplit
<1>3. f \in Int /\ g \in Int /\ P \in Int
  BY FieldSize, ResType
<1>. HIDE DEF f, g
<1>4. (f + q * P) * (g + r * P) = f * g + (f * r + q * g + q * (r * P)) * P
      /\ f * g \in Int /\ f * r + q * g + q * (r * P) \in Int
  BY <1>3
<1>5. Res(a * c) = Res(f * g)
  BY <1>1, <1>2, <1>4, ResShift
<1>. QED  BY <1>5 DEF f, g

\* The operations of the field on residues.
LEMMA FieldOps ==
  ASSUME NEW a \in Int, NEW c \in Int
  PROVE  /\ fe_add(Res(a), Res(c)) = Res(a + c)
         /\ fe_sub(Res(a), Res(c)) = Res(a - c)
         /\ fe_mul(Res(a), Res(c)) = Res(a * c)
         /\ fe_sq(Res(a)) = Res(a * a)
<1>1. Res(Res(a) + Res(c)) = Res(a + c) /\ Res(Res(a) - Res(c)) = Res(a - c)
  BY ResAdd
<1>2. Res(Res(a) * Res(c)) = Res(a * c) /\ Res(Res(a) * Res(a)) = Res(a * a)
  BY ResMul
<1>3. \A x : Res(x) = x % P
  BY DEF Res
<1>. QED  BY <1>1, <1>2, <1>3, Zenon DEF fe_add, fe_sub, fe_mul, fe_sq

LEMMA FieldOps2 ==
  ASSUME NEW a \in Int
  PROVE  fe_sq2(Res(a)) = Res(2 * (a * a)) /\ fe_neg(Res(a)) = Res(-a)
<1>. DEFINE f == Res(a)
<1>1. f \in Int
  BY ResType
<1>2. Res(f * f) = Res(a * a) /\ f * f \in Int /\ a * a \in Int
  BY <1>1, ResMul
<1>3. Res(Res(f * f) + Res(f * f)) = Res(f * f + f * f)
      /\ Res(Res(a * a) + Res(a * a)) = Res(a * a + a * a)
  BY <1>2, ResAdd
<1>4. 2 * f * f = f * f + f * f /\ 2 * (a * a) = a * a + a * a
  BY <1>1
<1>5. fe_sq2(f) = Res(2 * f * f)
  BY DEF fe_sq2, Res
<1>6. fe_sq2(f) = Res(2 * (a * a))
  BY <1>2, <1>3, <1>4, <1>5, Zenon
<1>7. Res(-a) = Res(-f)
  <2>1. PICK q \in Int : a = f + q * P
    BY ResSplit
  <2>. HIDE DEF f
  <2>2. q * P \in Int /\ (-q) * P = -(q * P) /\ -q \in Int
    BY FieldSize
  <2>3. -a = -f + (-q) * P /\ -f \in Int
    BY <1>1, <2>1, <2>2
  <2>. QED  BY <2>2, <2>3, ResShift
<1>8. fe_neg(f) = Res(-f)
  BY DEF fe_neg, Res
<1>. QED  BY <1>6, <1>7, <1>8

\* The results of the operations are field elements.
LEMMA FieldTypes ==
  ASSUME NEW f \in Fe, NEW g \in Fe
  PROVE  /\ fe_add(f, g) \in Fe /\ fe_sub(f, g) \in Fe /\ fe_mul(f, g) \in Fe
         /\ fe_sq(f) \in Fe /\ fe_neg(f) \in Fe /\ fe_sq2(f) \in Fe
<1>1. f \in Int /\ g \in Int
  BY ResOfElement
<1>2. f + g \in Int /\ f - g \in Int /\ f * g \in Int /\ f * f \in Int /\ -f \in Int
      /\ 2 * f * f \in Int
  BY <1>1
<1>3. \A x \in Int : x % P \in Fe
  BY ResType DEF Res
<1>. QED  BY <1>2, <1>3 DEF fe_add, fe_sub, fe_mul, fe_sq, fe_neg, fe_sq2

\* Products of congruent numbers are congruent.
LEMMA ResTimes ==
  ASSUME NEW u \in Int, NEW v \in Int, NEW w \in Int, Res(u) = Res(v)
  PROVE  Res(u * w) = Res(v * w)
<1>1. Res(Res(u) * Res(w)) = Res(u * w) /\ Res(Res(v) * Res(w)) = Res(v * w)
  BY ResMul
<1>. QED  BY <1>1

\* Sums of congruent numbers are congruent.
LEMMA ResPlus ==
  ASSUME NEW u \in Int, NEW v \in Int, NEW w \in Int, Res(u) = Res(v)
  PROVE  Res(u + w) = Res(v + w) /\ Res(w + u) = Res(w + v) /\ Res(w - u) = Res(w - v)
<1>1. /\ Res(Res(u) + Res(w)) = Res(u + w) /\ Res(Res(v) + Res(w)) = Res(v + w)
      /\ Res(Res(w) + Res(u)) = Res(w + u) /\ Res(Res(w) + Res(v)) = Res(w + v)
      /\ Res(Res(w) - Res(u)) = Res(w - u) /\ Res(Res(w) - Res(v)) = Res(w - v)
  BY ResAdd
<1>. QED  BY <1>1, Zenon

\* fe_invert returns an inverse.
LEMMA FieldInverse ==
  ASSUME NEW z \in Fe, z # 0
  PROVE  fe_invert(z) \in Fe /\ fe_mul(fe_invert(z), z) = 1 /\ Res(fe_invert(z) * z) = 1
<1>1. \E w \in Fe : fe_mul(w, z) = 1
  BY PrimeAssumption
<1>2. fe_invert(z) = CHOOSE w \in Fe : fe_mul(w, z) = 1
  BY DEF fe_invert, InverseOf
<1>3. fe_invert(z) \in Fe /\ fe_mul(fe_invert(z), z) = 1
  BY <1>1, <1>2
<1>. QED  BY <1>3 DEF fe_mul, Res

\* A factor that is not 0 may be cancelled.
LEMMA Cancel ==
  ASSUME NEW u \in Int, NEW v \in Int, NEW z \in Int, Res(z) # 0,
         Res(u * z) = Res(v * z)
  PROVE  Res(u) = Res(v)
<1>. DEFINE w == fe_invert(Res(z))
<1>1. w \in Int /\ Res(w * Res(z)) = 1 /\ Res(z) \in Int
  <2>1. Res(z) \in Fe /\ Res(z) \in Int
    BY ResType
  <2>2. w \in Fe /\ Res(w * Res(z)) = 1
    BY <2>1, FieldInverse, Zenon
  <2>. QED  BY <2>1, <2>2, ResOfElement, Zenon
<1>. HIDE DEF w
<1>2. Res(w * z) = 1
  <2>1. Res(Res(w) * Res(z)) = Res(w * z) /\ Res(Res(w) * Res(Res(z))) = Res(w * Res(z))
    BY <1>1, ResMul
  <2>2. Res(Res(z)) = Res(z)
    BY ResType, ResOfElement
  <2>. QED  BY <1>1, <2>1, <2>2
<1>3. \A x \in Int : Res((x * z) * w) = Res(x)
  <2>. SUFFICES ASSUME NEW x \in Int PROVE Res((x * z) * w) = Res(x)
    OBVIOUS
  <2>1. (x * z) * w = (w * z) * x /\ w * z \in Int /\ 1 * x = x
    BY <1>1
  <2>2. Res(1) = 1
    BY FieldSize DEF Res
  <2>3. Res(w * z) = Res(1) /\ 1 \in Int
    BY <1>2, <2>2
  <2>4. Res((w * z) * x) = Res(1 * x)
    BY <2>1, <2>3, ResTimes, ZenonT(30)
  <2>. QED  BY <2>1, <2>4, Zenon
<1>4. u * z \in Int /\ v * z \in Int
  OBVIOUS
<1>5. Res((u * z) * w) = Res((v * z) * w)
  <2>. DEFINE x == u * z  y == v * z
  <2>1. x \in Int /\ y \in Int /\ Res(x) = Res(y) /\ w \in Int
    BY <1>1, <1>4
  <2>. HIDE DEF x, y
  <2>2. Res(x * w) = Res(y * w)
    BY <2>1, ResTimes, ZenonT(30)
  <2>. QED  BY <2>2 DEF x, y
<1>. QED  BY <1>3, <1>5, Zenon

\* Zero and one.
LEMMA ResUnits == Res(0) = 0 /\ Res(1) = 1 /\ Res(2) = 2 /\ {0, 1} \subseteq Fe
BY FieldSize DEF Res, Fe

\* A product is not 0 unless a factor is.
LEMMA NoZeroProduct ==
  ASSUME NEW u \in Int, NEW v \in Int, Res(u) # 0, Res(v) # 0
  PROVE  Res(u * v) # 0
<1>. SUFFICES ASSUME Res(u * v) = 0 PROVE FALSE
  OBVIOUS
<1>1. 0 * v = 0
  OBVIOUS
<1>2. Res(u * v) = Res(0 * v)
  BY <1>1, ResUnits
<1>3. Res(u) = Res(0)
  BY <1>2, Cancel
<1>. QED  BY <1>3, ResUnits

\* There is only one inverse.
LEMMA InverseUnique ==
  ASSUME NEW w \in Fe, NEW z \in Fe, fe_mul(w, z) = 1
  PROVE  z # 0 /\ w # 0 /\ fe_invert(z) = w
<1>1. Res(w * z) = 1 /\ w \in Int /\ z \in Int
  BY ResOfElement DEF fe_mul, Res
<1>2. z # 0 /\ w # 0
  <2>1. 0 * z = 0 /\ w * 0 = 0
    BY <1>1
  <2>. QED  BY <1>1, <2>1, ResUnits
<1>3. fe_invert(z) \in Int /\ Res(fe_invert(z) * z) = 1 /\ Res(fe_invert(z)) = fe_invert(z)
  BY <1>2, FieldInverse, ResOfElement, Zenon
<1>4. Res(z) # 0 /\ Res(w) = w
  BY <1>2, ResOfElement
<1>5. Res(fe_invert(z)) = Res(w)
  BY <1>1, <1>3, <1>4, Cancel
<1>. QED  BY <1>2, <1>3, <1>4, <1>5


\* The same as rules for rewriting: a sum,
LEMMA AddForm ==
  ASSUME NEW f, NEW g, NEW m \in Int, NEW n \in Int, f = Res(m), g = Res(n)
  PROVE  fe_add(f, g) = Res(m + n) /\ m + n \in Int
BY FieldOps

\* ... a difference,
LEMMA SubForm ==
  ASSUME NEW f, NEW g, NEW m \in Int, NEW n \in Int, f = Res(m), g = Res(n)
  PROVE  fe_sub(f, g) = Res(m - n) /\ m - n \in Int
BY FieldOps

\* ... a product,
LEMMA MulForm ==
  ASSUME NEW f, NEW g, NEW m \in Int, NEW n \in Int, f = Res(m), g = Res(n)
  PROVE  fe_mul(f, g) = Res(m * n) /\ m * n \in Int
BY FieldOps

\* ... a square,
LEMMA SqForm ==
  ASSUME NEW f, NEW m \in Int, f = Res(m)
  PROVE  fe_sq(f) = Res(m * m) /\ m * m \in Int
BY FieldOps

\* ... twice a square,
LEMMA Sq2Form ==
  ASSUME NEW f, NEW m \in Int, f = Res(m)
  PROVE  fe_sq2(f) = Res(2 * (m * m)) /\ 2 * (m * m) \in Int
BY FieldOps2

\* ... and a negative.
LEMMA NegForm ==
  ASSUME NEW f, NEW m \in Int, f = Res(m)
  PROVE  fe_neg(f) = Res(-m) /\ -m \in Int
BY FieldOps2

\* Taking the residue twice changes nothing, also under a product.
LEMMA ResTwice ==
  ASSUME NEW n \in Int, NEW h \in Int
  PROVE  Res(Res(n)) = Res(n) /\ Res(Res(n) * h) = Res(n * h) /\ Res(h * Res(n)) = Res(h * n)
<1>1. Res(n) \in Fe /\ Res(n) \in Int
  BY ResType
<1>2. Res(Res(n)) = Res(n)
  BY <1>1, ResOfElement, Zenon
<1>3. Res(Res(n) * h) = Res(n * h)
  BY <1>1, <1>2, ResTimes, ZenonT(30)
<1>4. Res(n) * h = h * Res(n) /\ n * h = h * n
  BY <1>1
<1>. QED  BY <1>2, <1>3, <1>4

\* Remainders do not change with multiples of the divisor.
LEMMA ModShift ==
  ASSUME NEW m \in Nat \ {0}, NEW x \in Int, NEW q \in Int
  PROVE  (x + q * m) % m = x % m /\ x % m \in 0 .. m - 1
<1>. DEFINE s == x \div m  r == x % m
<1>1. x = m * s + r /\ s \in Int /\ r \in 0 .. m - 1
  BY Quotient
<1>. HIDE DEF s, r
<1>2. m * s = s * m /\ s * m \in Int /\ q * m \in Int /\ (s + q) * m = s * m + q * m
  BY <1>1, Regroup, Distribute
<1>3. x + q * m = r + (s + q) * m /\ x + q * m \in Int /\ s + q \in Int
  BY <1>1, <1>2
<1>4. (x + q * m) % m = r
  BY <1>1, <1>3, QuotientUnique
<1>. QED  BY <1>1, <1>4 DEF r

-----------------------------------------------------------------------------
(***************************************************************************)
(* 2. The multiples of the base point.                                     *)
(***************************************************************************)
\* There is at least one multiple, and all of them are points of the curve.
LEMMA PointType ==
  /\ Order \in Nat \ {0} /\ Order \in Int /\ Order > 0
  /\ \A n \in Int : Times(n) \in Points /\ Times(n) \in Curve
  /\ Points \subseteq Curve
<1>1. Multiples \in Seq(Curve) /\ Multiples # <<>>
  BY GroupAssumption
<1>2. Order \in Nat \ {0} /\ DOMAIN Multiples = 1 .. Order
  BY <1>1 DEF Order
<1>3. \A n \in 1 .. Order : Multiples[n] \in Curve
  BY <1>1, <1>2
<1>4. ASSUME NEW n \in Int PROVE 1 + (n % Order) \in 1 .. Order
  <2>1. n % Order \in 0 .. Order - 1
    BY <1>2, ModShift
  <2>. QED  BY <1>2, <2>1
<1>5. \A n \in Int : Times(n) \in Points
  BY <1>4, Zenon DEF Points, Times
<1>6. Points \subseteq Curve
  BY <1>3 DEF Points
<1>7. Order \in Int /\ Order > 0
  BY <1>2
<1>. QED  BY <1>2, <1>5, <1>6, <1>7, Zenon

\* A point has two coordinates in the field, which satisfy the equation.
LEMMA CurvePoint ==
  ASSUME NEW a \in Curve
  PROVE  /\ a[1] \in Fe /\ a[2] \in Fe /\ a = <<a[1], a[2]>>
         /\ a[1] \in Int /\ a[2] \in Int
         /\ Res(a[2] * a[2] - a[1] * a[1])
              = Res(1 + D * ((a[1] * a[1]) * (a[2] * a[2])))
<1>1. a \in Fe \X Fe /\ OnCurve(a)
  BY DEF Curve
<1>. DEFINE x == a[1]  y == a[2]
<1>2. x \in Fe /\ y \in Fe /\ a = <<x, y>> /\ x \in Int /\ y \in Int
  BY <1>1, ResOfElement
<1>3. fe_sub(fe_sq(y), fe_sq(x)) = fe_add(1, fe_mul(D, fe_mul(fe_sq(x), fe_sq(y))))
  BY <1>1, Zenon DEF OnCurve
<1>. HIDE DEF x, y
<1>4. x * x \in Int /\ y * y \in Int /\ (x * x) * (y * y) \in Int
      /\ D * ((x * x) * (y * y)) \in Int /\ D \in Int
  BY <1>2, FieldAssumption
<1>5. fe_sq(x) = Res(x * x) /\ fe_sq(y) = Res(y * y) /\ D = Res(D) /\ 1 = Res(1)
  BY FieldAssumption, ResOfElement, ResUnits DEF fe_sq, Res, Fe
<1>6. fe_sub(fe_sq(y), fe_sq(x)) = Res(y * y - x * x)
  BY <1>4, <1>5, SubForm
<1>7. fe_mul(fe_sq(x), fe_sq(y)) = Res((x * x) * (y * y))
  BY <1>4, <1>5, MulForm
<1>8. fe_mul(D, fe_mul(fe_sq(x), fe_sq(y))) = Res(D * ((x * x) * (y * y)))
  BY <1>4, <1>5, <1>7, MulForm
<1>9. fe_add(1, fe_mul(D, fe_mul(fe_sq(x), fe_sq(y)))) = Res(1 + D * ((x * x) * (y * y)))
  <2>1. 1 \in Int
    OBVIOUS
  <2>. QED  BY <1>4, <1>5, <1>8, <2>1, AddForm
<1>10. Res(y * y - x * x) = Res(1 + D * ((x * x) * (y * y)))
  BY <1>3, <1>6, <1>9, Zenon
<1>. QED  BY <1>2, <1>10 DEF x, y

\* The numerators and the excess of a sum, before they are reduced.
SumX(a, c) == a[1] * c[2] + c[1] * a[2]
SumY(a, c) == a[2] * c[2] + a[1] * c[1]
SumK(a, c) == D * ((a[1] * c[1]) * (a[2] * c[2]))

\* They are integers.
LEMMA SumTypes ==
  ASSUME NEW a \in Curve, NEW c \in Curve
  PROVE  /\ SumX(a, c) \in Int /\ SumY(a, c) \in Int /\ SumK(a, c) \in Int
         /\ 1 + SumK(a, c) \in Int /\ 1 - SumK(a, c) \in Int
<1>. DEFINE x == a[1]  y == a[2]  u == c[1]  v == c[2]
<1>1. x \in Int /\ y \in Int /\ u \in Int /\ v \in Int /\ D \in Int
  BY CurvePoint, FieldAssumption
<1>. HIDE DEF x, y, u, v
<1>2. x * v + u * y \in Int /\ y * v + x * u \in Int
  BY <1>1
<1>3. (x * u) * (y * v) \in Int
  BY <1>1
<1>4. D * ((x * u) * (y * v)) \in Int
  BY <1>1, <1>3
<1>5. SumX(a, c) \in Int /\ SumY(a, c) \in Int /\ SumK(a, c) \in Int
  BY <1>2, <1>4, Zenon DEF SumX, SumY, SumK, x, y, u, v
<1>. QED  BY <1>5

\* The excess of a sum, and its denominators.
LEMMA ExcessForm ==
  ASSUME NEW a \in Curve, NEW c \in Curve
  PROVE  /\ Excess(a, c) = Res(SumK(a, c))
         /\ fe_add(1, Excess(a, c)) = Res(1 + SumK(a, c))
         /\ fe_sub(1, Excess(a, c)) = Res(1 - SumK(a, c))
<1>. DEFINE x == a[1]  y == a[2]  u == c[1]  v == c[2]  k == SumK(a, c)
<1>1. x \in Int /\ y \in Int /\ u \in Int /\ v \in Int /\ D \in Int
      /\ Res(D) = D /\ Res(1) = 1 /\ 1 \in Int
  <2>1. D \in Fe
    BY FieldAssumption DEF Fe
  <2>2. D \in Int /\ Res(D) = D
    BY <2>1, ResOfElement, Zenon
  <2>. QED  BY <2>2, CurvePoint, ResUnits
<1>2. k \in Int /\ k = D * ((x * u) * (y * v))
  BY SumTypes DEF SumK
<1>3. Excess(a, c) = fe_mul(D, fe_mul(fe_mul(x, u), fe_mul(y, v)))
  BY Zenon DEF Excess
<1>. HIDE DEF x, y, u, v, k
<1>4. x * u \in Int /\ y * v \in Int /\ (x * u) * (y * v) \in Int
  BY <1>1
<1>5. fe_mul(x, u) = Res(x * u) /\ fe_mul(y, v) = Res(y * v)
  BY DEF fe_mul, Res
<1>6. fe_mul(fe_mul(x, u), fe_mul(y, v)) = Res((x * u) * (y * v))
  BY <1>4, <1>5, MulForm
<1>7. Excess(a, c) = Res(k)
  BY <1>1, <1>2, <1>3, <1>4, <1>6, MulForm
<1>8. fe_add(1, Excess(a, c)) = Res(1 + k) /\ fe_sub(1, Excess(a, c)) = Res(1 - k)
  BY <1>1, <1>2, <1>7, AddForm, SubForm
<1>. QED  BY <1>7, <1>8 DEF k

\* A sum, where its denominators are not 0.
LEMMA PlusForm ==
  ASSUME NEW a \in Curve, NEW c \in Curve,
         Res(1 + SumK(a, c)) # 0, Res(1 - SumK(a, c)) # 0
  PROVE  /\ Plus(a, c) \in Fe \X Fe
         /\ Res(Plus(a, c)[1] * (1 + SumK(a, c))) = Res(SumX(a, c))
         /\ Res(Plus(a, c)[2] * (1 - SumK(a, c))) = Res(SumY(a, c))
<1>. DEFINE x == a[1]  y == a[2]  u == c[1]  v == c[2]
            k == SumK(a, c)
            nx == SumX(a, c)
            ny == SumY(a, c)
            f == fe_invert(Res(1 + k))
            g == fe_invert(Res(1 - k))
<1>1. x \in Int /\ y \in Int /\ u \in Int /\ v \in Int /\ D \in Int
      /\ Res(x) = x /\ Res(y) = y /\ Res(u) = u /\ Res(v) = v /\ Res(D) = D
      /\ Res(1) = 1 /\ 1 \in Int
  <2>1. x \in Fe /\ y \in Fe /\ u \in Fe /\ v \in Fe /\ D \in Fe
    BY CurvePoint, FieldAssumption DEF Fe
  <2>2. x \in Int /\ y \in Int /\ u \in Int /\ v \in Int /\ D \in Int
        /\ Res(x) = x /\ Res(y) = y /\ Res(u) = u /\ Res(v) = v /\ Res(D) = D
    BY <2>1, ResOfElement, Zenon
  <2>. QED  BY <2>2, ResUnits
<1>2. k \in Int /\ nx \in Int /\ ny \in Int /\ 1 + k \in Int /\ 1 - k \in Int
  BY SumTypes
<1>3. nx = x * v + u * y /\ ny = y * v + x * u
  BY DEF SumX, SumY
<1>4. Plus(a, c) = << fe_mul(fe_add(fe_mul(x, v), fe_mul(u, y)), fe_invert(fe_add(1, Excess(a, c)))),
                      fe_mul(fe_add(fe_mul(y, v), fe_mul(x, u)), fe_invert(fe_sub(1, Excess(a, c)))) >>
  BY Zenon DEF Plus
<1>5. Res(1 + k) # 0 /\ Res(1 - k) # 0
  OBVIOUS
<1>. HIDE DEF x, y, u, v, k, nx, ny
<1>6. x * u \in Int /\ y * v \in Int /\ x * v \in Int /\ u * y \in Int
  BY <1>1
<1>7. /\ fe_mul(x, u) = Res(x * u) /\ fe_mul(y, v) = Res(y * v)
      /\ fe_mul(x, v) = Res(x * v) /\ fe_mul(u, y) = Res(u * y)
  BY DEF fe_mul, Res
<1>10. fe_add(1, Excess(a, c)) = Res(1 + k) /\ fe_sub(1, Excess(a, c)) = Res(1 - k)
  BY ExcessForm, Zenon DEF k
<1>11. fe_add(fe_mul(x, v), fe_mul(u, y)) = Res(nx)
       /\ fe_add(fe_mul(y, v), fe_mul(x, u)) = Res(ny)
  BY <1>3, <1>6, <1>7, AddForm
<1>12. Plus(a, c) = <<fe_mul(Res(nx), f), fe_mul(Res(ny), g)>>
  BY <1>4, <1>10, <1>11, Zenon
<1>13. Res(1 + k) \in Fe /\ Res(1 - k) \in Fe /\ Res(nx) \in Fe /\ Res(ny) \in Fe
       /\ Res(nx) \in Int /\ Res(ny) \in Int /\ Res(1 + k) \in Int /\ Res(1 - k) \in Int
  BY <1>2, ResType, Zenon
<1>14. f \in Fe /\ Res(f * Res(1 + k)) = 1 /\ g \in Fe /\ Res(g * Res(1 - k)) = 1
  BY <1>5, <1>13, FieldInverse, Zenon
<1>15. f \in Int /\ g \in Int
  BY <1>14, ResOfElement, Zenon
<1>. HIDE DEF f, g
<1>16. ASSUME NEW h \in Int, NEW n \in Int, NEW w \in Int, Res(h * Res(w)) = 1
       PROVE  /\ fe_mul(Res(n), h) \in Fe
              /\ Res(fe_mul(Res(n), h) * w) = Res(n)
  <2>1. /\ h * w \in Int /\ n * h \in Int /\ (n * h) * w = (h * w) * n /\ 1 * n = n
        /\ Res(n) \in Int /\ Res(n) * h \in Int /\ 1 \in Int
    BY <1>16, ResType
  <2>2. fe_mul(Res(n), h) = Res(Res(n) * h)
    BY DEF fe_mul, Res
  <2>3. Res(Res(n) * h) = Res(n * h)
    BY ResTwice, Zenon
  <2>4. Res(Res(n * h) * w) = Res((n * h) * w)
    BY <2>1, ResTwice, Zenon
  <2>5. Res(h * w) = Res(1)
    BY <1>1, <1>16, ResTwice, Zenon
  <2>6. Res((h * w) * n) = Res(1 * n)
    <3>. DEFINE hw == h * w
    <3>. DEFINE one == 1
    <3>1. hw \in Int /\ one \in Int /\ Res(hw) = Res(one)
      BY <2>1, <2>5
    <3>. HIDE DEF hw, one
    <3>2. Res(hw * n) = Res(one * n)
      BY <3>1, n \in Int, ResTimes, ZenonT(30)
    <3>. QED  BY <3>2 DEF hw, one
  <2>7. fe_mul(Res(n), h) \in Fe
    BY <2>1, <2>2, ResType, Zenon
  <2>. QED  BY <2>1, <2>2, <2>3, <2>4, <2>6, <2>7, Zenon
<1>17. /\ fe_mul(Res(nx), f) \in Fe /\ Res(fe_mul(Res(nx), f) * (1 + k)) = Res(nx)
       /\ fe_mul(Res(ny), g) \in Fe /\ Res(fe_mul(Res(ny), g) * (1 - k)) = Res(ny)
  BY <1>2, <1>14, <1>15, <1>16
<1>18. Plus(a, c)[1] = fe_mul(Res(nx), f) /\ Plus(a, c)[2] = fe_mul(Res(ny), g)
       /\ Plus(a, c) \in Fe \X Fe
  BY <1>12, <1>17
<1>. QED  BY <1>17, <1>18, Zenon DEF k, nx, ny

\* The denominators of a sum of multiples are not 0.
LEMMA Complete ==
  ASSUME NEW a \in Points, NEW c \in Points
  PROVE  /\ a \in Curve /\ c \in Curve
         /\ Res(1 + SumK(a, c)) # 0 /\ Res(1 - SumK(a, c)) # 0
<1>1. a \in Curve /\ c \in Curve
  BY PointType
<1>2. fe_add(1, Excess(a, c)) # 0 /\ fe_sub(1, Excess(a, c)) # 0
  BY GroupAssumption, Zenon
<1>. QED  BY <1>1, <1>2, ExcessForm

\* Adding the neutral element on either side changes nothing.
LEMMA PlusNeutral ==
  ASSUME NEW a \in Curve, Neutral \in Curve
  PROVE  Plus(a, Neutral) = a /\ Plus(Neutral, a) = a
<1>. DEFINE x == a[1]  y == a[2]
<1>1. x \in Fe /\ y \in Fe /\ a = <<x, y>> /\ x \in Int /\ y \in Int /\ D \in Int
      /\ Res(x) = x /\ Res(y) = y
  BY CurvePoint, ResOfElement, FieldAssumption
<1>2. Neutral[1] = 0 /\ Neutral[2] = 1
  BY DEF Neutral
<1>. HIDE DEF x, y
<1>3. D * ((x * 0) * (y * 1)) = 0 /\ D * ((0 * x) * (1 * y)) = 0
  BY <1>1
<1>4. x * 1 + 0 * y = x /\ y * 1 + x * 0 = y /\ 0 * y + x * 1 = x /\ 1 * y + 0 * x = y
  BY <1>1
<1>5. SumK(a, Neutral) = 0 /\ SumK(Neutral, a) = 0
  BY <1>2, <1>3, Zenon DEF SumK, x, y
<1>6. SumX(a, Neutral) = x /\ SumY(a, Neutral) = y
      /\ SumX(Neutral, a) = x /\ SumY(Neutral, a) = y
  BY <1>2, <1>4, Zenon DEF SumX, SumY, x, y
<1>7. 1 + 0 = 1 /\ 1 - 0 = 1 /\ Res(1) # 0
  BY ResUnits
<1>8. ASSUME NEW s \in Fe \X Fe, Res(s[1] * 1) = x, Res(s[2] * 1) = y
      PROVE  s = a
  <2>1. s[1] \in Fe /\ s[2] \in Fe /\ s = <<s[1], s[2]>>
    OBVIOUS
  <2>2. s[1] * 1 = s[1] /\ s[2] * 1 = s[2]
    BY <2>1, ResOfElement
  <2>3. s[1] = x /\ s[2] = y
    BY <1>8, <2>1, <2>2, ResOfElement
  <2>. QED  BY <1>1, <2>1, <2>3
<1>9. Plus(a, Neutral) = a
  <2>1. Plus(a, Neutral) \in Fe \X Fe /\ Res(Plus(a, Neutral)[1] * 1) = Res(x)
        /\ Res(Plus(a, Neutral)[2] * 1) = Res(y)
    BY <1>5, <1>6, <1>7, PlusForm
  <2>. QED  BY <1>1, <1>8, <2>1
<1>10. Plus(Neutral, a) = a
  <2>1. Plus(Neutral, a) \in Fe \X Fe /\ Res(Plus(Neutral, a)[1] * 1) = Res(x)
        /\ Res(Plus(Neutral, a)[2] * 1) = Res(y)
    BY <1>5, <1>6, <1>7, PlusForm
  <2>. QED  BY <1>1, <1>8, <2>1
<1>. QED  BY <1>9, <1>10

\* Counting on by one is adding the base point.
LEMMA TimesStep ==
  /\ Times(0) = Neutral /\ Neutral \in Curve /\ Times(1) = Base /\ Base \in Curve
  /\ \A n \in Int : Plus(Times(n), Base) = Times(n + 1) /\ Times(n % Order) = Times(n)
<1>1. Order \in Nat \ {0} /\ Order > 0
  BY PointType
<1>2. ASSUME NEW n \in Int
      PROVE  /\ n % Order \in 0 .. Order - 1
             /\ (n % Order) % Order = n % Order
             /\ (1 + (n % Order)) % Order = (n + 1) % Order
  <2>. DEFINE r == n % Order  s == n \div Order
  <2>1. n = Order * s + r /\ s \in Int
    BY <1>1, Quotient
  <2>2. r \in 0 .. Order - 1
    BY <1>1, ModShift
  <2>. HIDE DEF r, s
  <2>3. Order * s = s * Order /\ s * Order \in Int
    BY <1>1, <2>1, Regroup
  <2>4. n + 1 = (1 + r) + s * Order /\ 1 + r \in Int /\ r \in Int
    BY <2>1, <2>2, <2>3
  <2>5. ((1 + r) + s * Order) % Order = (1 + r) % Order
    BY <1>1, <2>1, <2>4, ModShift
  <2>6. r % Order = r
    BY <1>1, <2>2, QuotientUnique, 0 * Order = 0, 0 \in Int
  <2>. QED  BY <2>2, <2>4, <2>5, <2>6 DEF r
<1>3. Times(0) = Neutral
  <2>1. 0 % Order = 0
    BY <1>1
  <2>. QED  BY <2>1, MultiplesAssumption DEF Times
<1>4. ASSUME NEW n \in Int PROVE Plus(Times(n), Base) = Times(n + 1)
  <2>. DEFINE j == 1 + (n % Order)
  <2>1. j % Order = (n + 1) % Order
    BY <1>2, Zenon
  <2>2. j \in 1 .. Order
    <3>. DEFINE r == n % Order
    <3>1. r \in 0 .. Order - 1
      BY <1>2, Zenon
    <3>. HIDE DEF r
    <3>2. 1 + r \in 1 .. Order
      BY <1>1, <3>1
    <3>. QED  BY <3>2 DEF r
  <2>3. Plus(Multiples[j], Base) = Multiples[1 + (j % Order)]
    <3>. HIDE DEF j
    <3>. QED  BY <2>2, MultiplesAssumption
  <2>. QED  BY <2>1, <2>3, Zenon DEF Times
<1>5. Neutral \in Curve
  BY <1>3, PointType
<1>6. Base \in Curve
  BY MultiplesAssumption, FieldAssumption DEF Curve, Base, Fe
<1>7. Times(1) = Base
  <2>1. Plus(Times(0), Base) = Times(0 + 1)
    BY <1>4
  <2>2. Plus(Neutral, Base) = Base
    BY <1>5, <1>6, PlusNeutral
  <2>. QED  BY <1>3, <2>1, <2>2
<1>8. \A n \in Int : Times(n % Order) = Times(n)
  BY <1>2 DEF Times
<1>. QED  BY <1>3, <1>4, <1>5, <1>6, <1>7, <1>8

\* The sum of two multiples is the multiple of the sum.
LEMMA TimesAdd ==
  ASSUME NEW m \in Int, NEW n \in Int
  PROVE  Plus(Times(m), Times(n)) = Times(m + n)
<1>1. Order \in Nat \ {0} /\ Order > 0
  BY PointType
<1>2. \A k \in 0 .. Order - 1 : Plus(Times(m), Times(k)) = Times(m + k)
  <2>. DEFINE S == {k \in 0 .. Order - 1 : Plus(Times(m), Times(k)) = Times(m + k)}
  <2>1. 0 \in S
    <3>1. Plus(Times(m), Times(0)) = Times(m)
      BY TimesStep, PointType, PlusNeutral
    <3>2. m + 0 = m /\ 0 \in 0 .. Order - 1
      BY <1>1
    <3>. QED  BY <3>1, <3>2
  <2>2. ASSUME NEW k \in 1 .. Order - 1, k - 1 \in S PROVE k \in S
    <3>1. Plus(Times(m), Times(k - 1)) = Times(m + (k - 1))
      BY <2>2
    <3>2. /\ k - 1 \in Int /\ (k - 1) + 1 = k /\ m + (k - 1) \in Int
          /\ (m + (k - 1)) + 1 = m + k /\ k \in 0 .. Order - 1
      BY <1>1
    <3>3. Times(k) = Plus(Times(k - 1), Base)
      BY <3>2, TimesStep
    <3>4. Plus(Times(m), Plus(Times(k - 1), Base)) = Plus(Plus(Times(m), Times(k - 1)), Base)
      <4>1. Times(m) \in Points /\ Times(k - 1) \in Points /\ Base \in Curve
        BY <3>2, PointType, TimesStep
      <4>. QED  BY <4>1, GroupAssumption, Zenon
    <3>5. Plus(Times(m + (k - 1)), Base) = Times(m + k)
      BY <3>2, TimesStep
    <3>6. Plus(Times(m), Times(k)) = Times(m + k)
      BY <3>1, <3>3, <3>4, <3>5, Zenon
    <3>. QED  BY <3>2, <3>6
  <2>. HIDE DEF S
  <2>3. \A k \in 0 .. Order - 1 : k \in S
    <3>1. Order - 1 \in Nat
      BY <1>1
    <3>. QED  BY <2>1, <2>2, <3>1, UpTo, Zenon
  <2>. QED  BY <2>3 DEF S
<1>. DEFINE r == n % Order  s == n \div Order
<1>3. n = Order * s + r /\ s \in Int /\ r \in 0 .. Order - 1
  BY <1>1, Quotient, ModShift
<1>4. Times(r) = Times(n)
  BY TimesStep
<1>5. Plus(Times(m), Times(r)) = Times(m + r)
  BY <1>2, <1>3
<1>6. Times(m + r) = Times(m + n)
  <2>. HIDE DEF r, s
  <2>1. Order * s = s * Order /\ s * Order \in Int
    BY <1>1, <1>3, Regroup
  <2>2. m + n = (m + r) + s * Order /\ m + r \in Int
    BY <1>3, <2>1
  <2>3. ((m + r) + s * Order) % Order = (m + r) % Order
    BY <1>1, <1>3, <2>2, ModShift, Zenon
  <2>4. (m + n) % Order = (m + r) % Order
    BY <2>2, <2>3, Zenon
  <2>. QED  BY <2>4 DEF Times
<1>. QED  BY <1>4, <1>5, <1>6, Zenon

\* The inverse of a multiple is its mirror image.
LEMMA TimesNeg ==
  ASSUME NEW n \in Int
  PROVE  Times(-n) = <<fe_neg(Times(n)[1]), Times(n)[2]>>
<1>. DEFINE a == Times(n)  x == a[1]  y == a[2]  m == fe_neg(x)  c == <<m, y>>
<1>1. a \in Points /\ a \in Curve /\ Times(-n) \in Points /\ Times(-n) \in Curve /\ -n \in Int
  BY PointType
<1>2. x \in Fe /\ y \in Fe /\ a = <<x, y>> /\ x \in Int /\ y \in Int /\ Res(x) = x /\ Res(y) = y
      /\ D \in Int
  BY <1>1, CurvePoint, ResOfElement, FieldAssumption
<1>3. m = Res(-x) /\ m \in Fe /\ m \in Int /\ Res(m) = Res(-x) /\ -x \in Int
  BY <1>2, FieldTypes, NegForm, ResOfElement
<1>4. Res(y * y - x * x) = Res(1 + D * ((x * x) * (y * y)))
  BY <1>1, CurvePoint
<1>5. Res(m * m) = Res(x * x) /\ Res(m * y) = Res(-(x * y)) /\ Res(x * m) = Res(-(x * x))
  <2>. HIDE DEF x, y, m
  <2>1. (-x) * (-x) = x * x /\ (-x) * y = -(x * y) /\ (-x) * x = -(x * x) /\ m * x = x * m
        /\ m * (-x) = (-x) * m
    BY <1>2, <1>3
  <2>2. ASSUME NEW v \in Int PROVE Res(m * v) = Res((-x) * v)
    <3>. DEFINE u == -x
    <3>1. u \in Int /\ Res(m) = Res(u)
      BY <1>3
    <3>. HIDE DEF u
    <3>2. Res(m * v) = Res(u * v)
      BY <1>3, <3>1, ResTimes, ZenonT(30)
    <3>. QED  BY <3>2 DEF u
  <2>3. /\ Res(m * m) = Res((-x) * m) /\ Res(m * (-x)) = Res((-x) * (-x))
        /\ Res(m * y) = Res((-x) * y) /\ Res(m * x) = Res((-x) * x)
    BY <1>2, <1>3, <2>2, Zenon
  <2>. QED  BY <2>1, <2>3, Zenon
<1>6. c \in Curve
  <2>. HIDE DEF x, y, m
  <2>1. x * x \in Int /\ y * y \in Int /\ m * m \in Int /\ (x * x) * (y * y) \in Int
        /\ D * ((x * x) * (y * y)) \in Int /\ 1 \in Int /\ Res(D) = D /\ Res(1) = 1
    <3>1. D \in Fe
      BY FieldAssumption DEF Fe
    <3>. QED  BY <1>2, <1>3, <3>1, ResUnits, ResOfElement
  <2>2. fe_sq(y) = Res(y * y) /\ fe_sq(m) = Res(x * x)
    BY <1>5 DEF fe_sq, Res
  <2>3. fe_sub(fe_sq(y), fe_sq(m)) = Res(y * y - x * x)
    BY <2>1, <2>2, SubForm
  <2>4. fe_mul(fe_sq(m), fe_sq(y)) = Res((x * x) * (y * y))
    BY <2>1, <2>2, MulForm
  <2>5. fe_mul(D, fe_mul(fe_sq(m), fe_sq(y))) = Res(D * ((x * x) * (y * y)))
    BY <1>2, <2>1, <2>4, MulForm
  <2>6. fe_add(1, fe_mul(D, fe_mul(fe_sq(m), fe_sq(y)))) = Res(1 + D * ((x * x) * (y * y)))
    BY <2>1, <2>5, AddForm
  <2>7. c[1] = m /\ c[2] = y /\ c \in Fe \X Fe
    BY <1>2, <1>3
  <2>8. OnCurve(c)
    BY <1>4, <2>3, <2>6, <2>7, Zenon DEF OnCurve
  <2>. QED  BY <2>7, <2>8 DEF Curve
<1>7. Plus(a, c) = Neutral
  <2>. DEFINE k == SumK(a, c)
  <2>1. c[1] = m /\ c[2] = y
    OBVIOUS
  <2>2. /\ SumK(a, c) = D * ((x * m) * (y * y))
        /\ SumX(a, c) = x * y + m * y /\ SumY(a, c) = y * y + x * m
        /\ SumK(a, a) = D * ((x * x) * (y * y))
    BY <2>1, Zenon DEF SumK, SumX, SumY
  <2>3. k \in Int /\ SumX(a, c) \in Int /\ SumY(a, c) \in Int /\ 1 + k \in Int /\ 1 - k \in Int
        /\ SumK(a, a) \in Int /\ 1 + SumK(a, a) \in Int /\ 1 - SumK(a, a) \in Int
    BY <1>1, <1>6, SumTypes
  <2>4. Res(1 + SumK(a, a)) # 0 /\ Res(1 - SumK(a, a)) # 0
    BY <1>1, Complete
  <2>. DEFINE w == D * (y * y)
  <2>. HIDE DEF x, y, m
  <2>5. /\ x * m \in Int /\ x * x \in Int /\ -(x * x) \in Int /\ y * y \in Int /\ w \in Int
        /\ x * y \in Int /\ m * y \in Int /\ -(x * y) \in Int
        /\ (x * m) * w = D * ((x * m) * (y * y))
        /\ (-(x * x)) * w = -(D * ((x * x) * (y * y)))
    BY <1>2, <1>3
  <2>6. Res(k) = Res(-SumK(a, a))
    <3>1. Res((x * m) * w) = Res((-(x * x)) * w)
      <4>. DEFINE q == x * m  r == -(x * x)
      <4>1. q \in Int /\ r \in Int /\ w \in Int /\ Res(q) = Res(r)
        BY <1>5, <2>5
      <4>. HIDE DEF w, q, r
      <4>2. Res(q * w) = Res(r * w)
        BY <4>1, ResTimes, ZenonT(30)
      <4>. QED  BY <4>2 DEF q, r
    <3>. QED  BY <2>2, <2>5, <3>1, Zenon
  <2>7. Res(1 + k) = Res(1 - SumK(a, a)) /\ Res(1 - k) = Res(1 + SumK(a, a))
    <3>. DEFINE l == SumK(a, a)
    <3>. HIDE DEF k, l, a, c
    <3>1. Res(k) = Res(-l) /\ k \in Int /\ l \in Int /\ -l \in Int /\ 1 \in Int
      BY <2>3, <2>6 DEF l
    <3>2. Res(1 + k) = Res(1 + (-l)) /\ Res(1 - k) = Res(1 - (-l))
      <4>. DEFINE one == 1  minus == -l
      <4>1. Res(k) = Res(minus) /\ k \in Int /\ minus \in Int /\ one \in Int
        BY <3>1
      <4>. HIDE DEF one, minus
      <4>2. Res(one + k) = Res(one + minus) /\ Res(one - k) = Res(one - minus)
        BY <4>1, ResPlus, ZenonT(30)
      <4>. QED  BY <4>2 DEF one, minus
    <3>3. 1 + (-l) = 1 - l /\ 1 - (-l) = 1 + l
      BY <3>1
    <3>. QED  BY <3>2, <3>3 DEF l
  <2>8. /\ Plus(a, c) \in Fe \X Fe
        /\ Res(Plus(a, c)[1] * (1 + k)) = Res(SumX(a, c))
        /\ Res(Plus(a, c)[2] * (1 - k)) = Res(SumY(a, c))
    BY <1>1, <1>6, <2>4, <2>7, PlusForm
  <2>9. Res(SumX(a, c)) = 0
    <3>1. Res(x * y + m * y) = Res(x * y + (-(x * y)))
      BY <1>5, <2>5, ResPlus
    <3>2. x * y + (-(x * y)) = 0
      BY <2>5
    <3>. QED  BY <2>2, <3>1, <3>2, ResUnits
  <2>10. Res(SumY(a, c)) = Res(1 - k)
    <3>1. Res(y * y + x * m) = Res(y * y + (-(x * x)))
      <4>. DEFINE f == x * m  g == -(x * x)  h == y * y
      <4>1. f \in Int /\ g \in Int /\ h \in Int /\ Res(f) = Res(g)
        BY <1>5, <2>5
      <4>. HIDE DEF f, g, h
      <4>2. Res(h + f) = Res(h + g)
        BY <4>1, ResPlus, ZenonT(30)
      <4>. QED  BY <4>2 DEF f, g, h
    <3>2. y * y + (-(x * x)) = y * y - x * x
      BY <2>5
    <3>. QED  BY <1>4, <2>2, <2>7, <3>1, <3>2, Zenon
  <2>. DEFINE s == Plus(a, c)
  <2>. HIDE DEF k, a, c, s
  <2>11. s[1] \in Fe /\ s[2] \in Fe /\ s = <<s[1], s[2]>> /\ s[1] \in Int /\ s[2] \in Int
         /\ Res(s[1]) = s[1] /\ Res(s[2]) = s[2]
    <3>1. s \in Fe \X Fe
      BY <2>8 DEF s
    <3>2. s[1] \in Fe /\ s[2] \in Fe /\ s = <<s[1], s[2]>>
      BY <3>1
    <3>. QED  BY <3>2, ResOfElement
  <2>12. s[1] = 0
    <3>1. Res(1 + k) # 0
      BY <2>4, <2>7
    <3>2. Res(s[1] * (1 + k)) = 0
      BY <2>8, <2>9 DEF s
    <3>. QED  BY <2>3, <2>11, <3>1, <3>2, NoZeroProduct
  <2>13. s[2] = 1
    <3>1. Res(1 - k) # 0
      BY <2>4, <2>7
    <3>2. 1 * (1 - k) = 1 - k
      BY <2>3
    <3>3. Res(s[2] * (1 - k)) = Res(1 * (1 - k)) /\ 1 \in Int
      BY <2>8, <2>10, <3>2 DEF s
    <3>4. Res(s[2]) = Res(1)
      BY <2>3, <2>11, <3>1, <3>3, Cancel
    <3>. QED  BY <2>11, <3>4, ResUnits
  <2>. QED  BY <2>11, <2>12, <2>13 DEF s, Neutral
<1>8. Times(-n) = Plus(Times(-n), Plus(a, c))
  BY <1>1, <1>7, TimesStep, PlusNeutral
<1>9. Plus(Times(-n), Plus(a, c)) = Plus(Plus(Times(-n), a), c)
  BY <1>1, <1>6, GroupAssumption, Zenon
<1>10. Plus(Times(-n), a) = Neutral
  <2>1. -n + n = 0
    OBVIOUS
  <2>. QED  BY <1>1, <2>1, TimesAdd, TimesStep
<1>11. Plus(Neutral, c) = c
  BY <1>6, TimesStep, PlusNeutral
<1>. QED  BY <1>8, <1>9, <1>10, <1>11, Zenon

-----------------------------------------------------------------------------
(***************************************************************************)
(* 3. The formulas compute with points.                                    *)
(***************************************************************************)
\* p is a ge_p2, or a ge_p3, of the affine point a.
OfPoint(p, a) ==
  /\ p.Z \in Fe /\ p.Z # 0
  /\ p.X = fe_mul(a[1], p.Z) /\ p.Y = fe_mul(a[2], p.Z)
Extended(p, a) == OfPoint(p, a) /\ p.T = fe_mul(fe_mul(a[1], a[2]), p.Z)

ExtendedPoints == [X : Fe, Y : Fe, Z : Fe, T : Fe]

\* A common factor of the fractions of a sum does not matter: what is returned
\* from a ge_p1p1 that holds them is the sum.
LEMMA SumOfFractions ==
  ASSUME NEW a \in Points, NEW c \in Points, NEW h \in Int, Res(h) # 0, NEW p,
         p.X = Res(h * SumX(a, c)), p.Y = Res(h * SumY(a, c)),
         p.Z = Res(h * (1 + SumK(a, c))), p.T = Res(h * (1 - SumK(a, c)))
  PROVE  /\ OfPoint(ge_p1p1_to_p2(p), Plus(a, c))
         /\ Extended(ge_p1p1_to_p3(p), Plus(a, c))
         /\ ge_p1p1_to_p3(p) \in ExtendedPoints
<1>. DEFINE s == Plus(a, c)  s1 == s[1]  s2 == s[2]
            k == SumK(a, c)  f == 1 + k  g == 1 - k
            nx == SumX(a, c)  ny == SumY(a, c)
            z == (h * f) * (h * g)
            Z == fe_mul(p.Z, p.T)
<1>1. a \in Curve /\ c \in Curve /\ Res(f) # 0 /\ Res(g) # 0
  BY Complete
<1>2. f \in Int /\ g \in Int /\ nx \in Int /\ ny \in Int
  BY <1>1, SumTypes
<1>3. s \in Fe \X Fe /\ Res(s1 * f) = Res(nx) /\ Res(s2 * g) = Res(ny)
  BY <1>1, PlusForm
<1>4. s1 \in Int /\ s2 \in Int /\ Res(s1) = s1 /\ Res(s2) = s2
  <2>1. s1 \in Fe /\ s2 \in Fe
    BY <1>3
  <2>. QED  BY <2>1, ResOfElement
<1>5. p.X = Res(h * nx) /\ p.Y = Res(h * ny) /\ p.Z = Res(h * f) /\ p.T = Res(h * g)
  OBVIOUS
<1>. HIDE DEF s1, s2, k, f, g, nx, ny
<1>6. /\ h * f \in Int /\ h * g \in Int /\ h * nx \in Int /\ h * ny \in Int
      /\ s1 * f \in Int /\ s2 * g \in Int /\ s1 * s2 \in Int /\ nx * ny \in Int
      /\ h * (h * g) \in Int /\ h * (h * f) \in Int /\ h * h \in Int /\ z \in Int
  BY <1>2, <1>4
<1>7. Z = Res(z) /\ fe_mul(p.X, p.T) = Res((h * nx) * (h * g))
      /\ fe_mul(p.Y, p.Z) = Res((h * ny) * (h * f))
      /\ fe_mul(p.X, p.Y) = Res((h * nx) * (h * ny))
  <2>. DEFINE m == h * nx  n == h * ny  u == h * f  v == h * g
  <2>1. m \in Int /\ n \in Int /\ u \in Int /\ v \in Int
        /\ p.X = Res(m) /\ p.Y = Res(n) /\ p.Z = Res(u) /\ p.T = Res(v)
    BY <1>5, <1>6
  <2>. HIDE DEF m, n, u, v
  <2>2. /\ fe_mul(Res(u), Res(v)) = Res(u * v) /\ fe_mul(Res(m), Res(v)) = Res(m * v)
        /\ fe_mul(Res(n), Res(u)) = Res(n * u) /\ fe_mul(Res(m), Res(n)) = Res(m * n)
    BY <2>1, FieldOps, ZenonT(30)
  <2>3. /\ fe_mul(p.Z, p.T) = Res(u * v) /\ fe_mul(p.X, p.T) = Res(m * v)
        /\ fe_mul(p.Y, p.Z) = Res(n * u) /\ fe_mul(p.X, p.Y) = Res(m * n)
    BY <2>1, <2>2, Zenon
  <2>. QED  BY <2>3 DEF m, n, u, v
<1>8. Z \in Fe /\ Z # 0
  <2>1. Res(h * f) # 0 /\ Res(h * g) # 0
    BY <1>1, <1>2, NoZeroProduct
  <2>. QED  BY <1>6, <1>7, <2>1, NoZeroProduct, ResType
<1>9. /\ fe_mul(s1, Z) = Res(s1 * z) /\ fe_mul(s2, Z) = Res(s2 * z)
      /\ fe_mul(fe_mul(s1, s2), Z) = Res((s1 * s2) * z)
  <2>1. fe_mul(s1, s2) = Res(s1 * s2)
    BY <1>4, MulForm
  <2>. HIDE DEF z, Z
  <2>. QED  BY <1>4, <1>6, <1>7, <2>1, MulForm
<1>10. Res((h * nx) * (h * g)) = Res(s1 * z)
  <2>. DEFINE w == h * (h * g)  v == s1 * f
  <2>1. (h * nx) * (h * g) = nx * w /\ s1 * z = v * w
    BY <1>2, <1>4, <1>6
  <2>2. w \in Int /\ v \in Int /\ Res(v) = Res(nx)
    BY <1>3, <1>6
  <2>. HIDE DEF w, v
  <2>3. Res(v * w) = Res(nx * w)
    BY <1>2, <2>2, ResTimes, ZenonT(30)
  <2>. QED  BY <2>1, <2>3
<1>11. Res((h * ny) * (h * f)) = Res(s2 * z)
  <2>. DEFINE w == h * (h * f)  v == s2 * g
  <2>1. (h * ny) * (h * f) = ny * w /\ s2 * z = v * w
    BY <1>2, <1>4, <1>6
  <2>2. w \in Int /\ v \in Int /\ Res(v) = Res(ny)
    BY <1>3, <1>6
  <2>. HIDE DEF w, v
  <2>3. Res(v * w) = Res(ny * w)
    BY <1>2, <2>2, ResTimes, ZenonT(30)
  <2>. QED  BY <2>1, <2>3
<1>12. Res((h * nx) * (h * ny)) = Res((s1 * s2) * z)
  <2>. DEFINE v == s1 * f  u == s2 * g  w == h * h
  <2>1. (h * nx) * (h * ny) = (nx * ny) * w /\ (s1 * s2) * z = (v * u) * w
    BY <1>2, <1>4, <1>6
  <2>2. w \in Int /\ v \in Int /\ u \in Int /\ Res(v) = Res(nx) /\ Res(u) = Res(ny)
    BY <1>3, <1>6
  <2>. HIDE DEF w, v, u
  <2>3. Res(v * u) = Res(nx * u) /\ Res(u * nx) = Res(ny * nx)
    <3>. DEFINE x == nx  y == ny
    <3>. HIDE DEF nx, ny, x, y
    <3>1. x \in Int /\ u \in Int /\ v \in Int /\ Res(v) = Res(x)
      BY <1>2, <2>2 DEF x
    <3>2. x \in Int /\ u \in Int /\ y \in Int /\ Res(u) = Res(y)
      BY <1>2, <2>2 DEF x, y
    <3>3. Res(v * u) = Res(x * u)
      BY <3>1, ResTimes, ZenonT(30)
    <3>4. Res(u * x) = Res(y * x)
      BY <3>2, ResTimes, ZenonT(30)
    <3>. QED  BY <3>3, <3>4 DEF x, y
  <2>4. nx * u = u * nx /\ ny * nx = nx * ny /\ v * u \in Int /\ nx * ny \in Int
    BY <1>2, <2>2
  <2>. DEFINE m == v * u  n == nx * ny
  <2>5. Res(m) = Res(n) /\ m \in Int /\ n \in Int
    BY <2>3, <2>4
  <2>. HIDE DEF m, n
  <2>6. Res(m * w) = Res(n * w)
    BY <2>2, <2>5, ResTimes, ZenonT(30)
  <2>. QED  BY <2>1, <2>6 DEF m, n
<1>. HIDE DEF z, Z
<1>13. /\ fe_mul(p.X, p.T) = fe_mul(s1, Z) /\ fe_mul(p.Y, p.Z) = fe_mul(s2, Z)
       /\ fe_mul(p.X, p.Y) = fe_mul(fe_mul(s1, s2), Z)
  BY <1>7, <1>9, <1>10, <1>11, <1>12, Zenon
<1>14. ge_p1p1_to_p2(p) = P2(fe_mul(p.X, p.T), fe_mul(p.Y, p.Z), Z)
       /\ ge_p1p1_to_p3(p) = P3(fe_mul(p.X, p.T), fe_mul(p.Y, p.Z), Z, fe_mul(p.X, p.Y))
  BY Zenon DEF ge_p1p1_to_p2, ge_p1p1_to_p3, Z
<1>15. fe_mul(p.X, p.T) \in Fe /\ fe_mul(p.Y, p.Z) \in Fe /\ fe_mul(p.X, p.Y) \in Fe
  BY <1>6, <1>7, ResType
<1>16. ge_p1p1_to_p3(p) \in ExtendedPoints
  BY <1>8, <1>14, <1>15 DEF P3, ExtendedPoints
<1>17. OfPoint(ge_p1p1_to_p2(p), s)
  BY <1>8, <1>13, <1>14 DEF P2, OfPoint, s1, s2
<1>18. Extended(ge_p1p1_to_p3(p), s)
  BY <1>8, <1>13, <1>14 DEF P3, OfPoint, Extended, s1, s2
<1>. QED  BY <1>16, <1>17, <1>18

\* ge_madd adds a point of the table.
LEMMA MaddPoint ==
  ASSUME NEW a \in Points, NEW c \in Points, NEW p, Extended(p, a)
  PROVE  /\ Extended(ge_p1p1_to_p3(ge_madd(p, PrecompOf(c))), Plus(a, c))
         /\ ge_p1p1_to_p3(ge_madd(p, PrecompOf(c))) \in ExtendedPoints
<1>. DEFINE x == a[1]  y == a[2]  u == c[1]  v == c[2]  z == p.Z
            q == PrecompOf(c)  r == ge_madd(p, q)
            aa == fe_mul(fe_add(p.Y, p.X), q.yplusx)
            bb == fe_mul(fe_sub(p.Y, p.X), q.yminusx)
            cc == fe_mul(q.xy2d, p.T)
            zz == fe_add(p.Z, p.Z)
            nx == SumX(a, c)  ny == SumY(a, c)  k == SumK(a, c)
            h == 2 * z
<1>1. a \in Curve /\ c \in Curve
  BY Complete
<1>2. /\ x \in Int /\ y \in Int /\ u \in Int /\ v \in Int
      /\ Res(x) = x /\ Res(y) = y /\ Res(u) = u /\ Res(v) = v
  BY <1>1, CurvePoint, ResOfElement
<1>3. D \in Int /\ Res(D) = D
  <2>1. D \in Fe
    BY FieldAssumption DEF Fe
  <2>. QED  BY <2>1, ResOfElement
<1>4. z \in Int /\ Res(z) = z /\ z # 0
  BY ResOfElement DEF Extended, OfPoint
<1>5. q.yplusx = fe_add(v, u) /\ q.yminusx = fe_sub(v, u) /\ q.xy2d = fe_mul(d2, fe_mul(u, v))
  BY DEF PrecompOf, Precomp
<1>6. p.X = fe_mul(x, z) /\ p.Y = fe_mul(y, z) /\ p.T = fe_mul(fe_mul(x, y), z)
  BY DEF Extended, OfPoint
<1>7. r.X = fe_sub(aa, bb) /\ r.Y = fe_add(aa, bb) /\ r.Z = fe_add(zz, cc) /\ r.T = fe_sub(zz, cc)
  <2>. HIDE DEF q
  <2>. QED  BY DEF ge_madd, P3
<1>8. nx = x * v + u * y /\ ny = y * v + x * u /\ k = D * ((x * u) * (y * v))
  BY Zenon DEF SumX, SumY, SumK
<1>. HIDE DEF x, y, u, v, z, q, r, nx, ny, k
<1>9. /\ x * z \in Int /\ y * z \in Int /\ x * y \in Int /\ u * v \in Int /\ D + D \in Int
      /\ (D + D) * (u * v) \in Int /\ (x * y) * z \in Int
      /\ v + u \in Int /\ v - u \in Int /\ y * z + x * z \in Int /\ y * z - x * z \in Int
  BY <1>2, <1>3, <1>4
<1>10. /\ p.X = Res(x * z) /\ p.Y = Res(y * z) /\ fe_mul(x, y) = Res(x * y)
       /\ fe_mul(u, v) = Res(u * v) /\ d2 = Res(D + D)
       /\ q.yplusx = Res(v + u) /\ q.yminusx = Res(v - u)
       /\ zz = Res(z + z)
  BY <1>5, <1>6, Zenon DEF Res, fe_mul, fe_add, fe_sub, d2, z
<1>11. p.T = Res((x * y) * z) /\ q.xy2d = Res((D + D) * (u * v))
  BY <1>4, <1>5, <1>6, <1>9, <1>10, MulForm
<1>12. fe_add(p.Y, p.X) = Res(y * z + x * z) /\ fe_sub(p.Y, p.X) = Res(y * z - x * z)
  BY <1>9, <1>10, AddForm, SubForm
<1>. DEFINE ai == (y * z + x * z) * (v + u)  bi == (y * z - x * z) * (v - u)
            ci == ((D + D) * (u * v)) * ((x * y) * z)  zi == z + z
<1>13. aa = Res(ai) /\ bb = Res(bi) /\ cc = Res(ci)
  <2>. DEFINE l == y * z + x * z  m == y * z - x * z  n == v + u  o == v - u
              s == (D + D) * (u * v)  t == (x * y) * z
  <2>1. /\ l \in Int /\ m \in Int /\ n \in Int /\ o \in Int /\ s \in Int /\ t \in Int
        /\ fe_add(p.Y, p.X) = Res(l) /\ fe_sub(p.Y, p.X) = Res(m)
        /\ q.yplusx = Res(n) /\ q.yminusx = Res(o) /\ q.xy2d = Res(s) /\ p.T = Res(t)
    BY <1>9, <1>10, <1>11, <1>12, Zenon
  <2>. HIDE DEF l, m, n, o, s, t
  <2>2. aa = Res(l * n) /\ bb = Res(m * o) /\ cc = Res(s * t)
    BY <2>1, MulForm
  <2>. QED  BY <2>2 DEF l, m, n, o, s, t
<1>14. ai \in Int /\ bi \in Int /\ ci \in Int /\ zi \in Int
  BY <1>9, <1>4
<1>15. ai - bi = h * nx /\ ai + bi = h * ny
  BY <1>2, <1>4, <1>8
<1>16. ci = h * k
  <2>1. ci = (2 * z) * (D * ((x * u) * (y * v)))
    BY <1>2, <1>3, <1>4
  <2>. QED  BY <1>8, <2>1
<1>17. k \in Int /\ zi = h * 1 /\ h \in Int
  BY <1>1, <1>4, SumTypes DEF k
<1>18. zi + ci = h * (1 + k) /\ zi - ci = h * (1 - k)
  <2>. HIDE DEF zi, ci, h
  <2>. QED  BY <1>16, <1>17
<1>. HIDE DEF ai, bi, ci, zi, aa, bb, cc
<1>19. r.X = Res(h * nx) /\ r.Y = Res(h * ny)
  BY <1>7, <1>13, <1>14, <1>15, AddForm, SubForm
<1>20. r.Z = Res(h * (1 + k)) /\ r.T = Res(h * (1 - k))
  <2>1. zz = Res(zi)
    BY <1>10 DEF zi
  <2>. HIDE DEF zz
  <2>. QED  BY <1>7, <1>13, <1>14, <1>18, <2>1, AddForm, SubForm
<1>21. Res(h) # 0
  <2>1. Res(2) # 0 /\ Res(z) # 0 /\ 2 \in Int
    BY <1>4, ResUnits
  <2>. QED  BY <1>4, <2>1, NoZeroProduct
<1>. HIDE DEF h
<1>22. Extended(ge_p1p1_to_p3(r), Plus(a, c)) /\ ge_p1p1_to_p3(r) \in ExtendedPoints
  BY <1>17, <1>19, <1>20, <1>21, SumOfFractions DEF nx, ny, k
<1>. QED  BY <1>22 DEF r, q

\* ge_p2_dbl doubles.
LEMMA DblPoint ==
  ASSUME NEW a \in Points, NEW p, OfPoint(p, a)
  PROVE  /\ OfPoint(ge_p1p1_to_p2(ge_p2_dbl(p)), Plus(a, a))
         /\ Extended(ge_p1p1_to_p3(ge_p2_dbl(p)), Plus(a, a))
         /\ ge_p1p1_to_p3(ge_p2_dbl(p)) \in ExtendedPoints
<1>. DEFINE x == a[1]  y == a[2]  z == p.Z  r == ge_p2_dbl(p)
            xx == fe_sq(p.X)  yy == fe_sq(p.Y)
            ya == fe_add(yy, xx)  ys == fe_sub(yy, xx)
            nx == SumX(a, a)  ny == SumY(a, a)  k == SumK(a, a)
            h == z * z
<1>1. a \in Curve
  BY Complete
<1>2. x \in Int /\ y \in Int /\ Res(x) = x /\ Res(y) = y /\ D \in Int
      /\ Res(y * y - x * x) = Res(1 + D * ((x * x) * (y * y)))
  BY <1>1, CurvePoint, ResOfElement, FieldAssumption
<1>3. z \in Int /\ Res(z) = z /\ z # 0
  BY ResOfElement DEF OfPoint
<1>4. p.X = fe_mul(x, z) /\ p.Y = fe_mul(y, z)
  BY DEF OfPoint
<1>5. r.X = fe_sub(fe_sq(fe_add(p.X, p.Y)), ya) /\ r.Y = ya /\ r.Z = ys
      /\ r.T = fe_sub(fe_sq2(p.Z), ys)
  BY DEF ge_p2_dbl, P3
<1>6. nx = x * y + x * y /\ ny = y * y + x * x /\ k = D * ((x * x) * (y * y))
  BY Zenon DEF SumX, SumY, SumK
<1>7. k \in Int
  BY <1>1, SumTypes
<1>. HIDE DEF x, y, r, nx, ny, k
<1>8. /\ x * z \in Int /\ y * z \in Int /\ h \in Int /\ x * z + y * z \in Int
      /\ y * y - x * x \in Int /\ nx \in Int /\ ny \in Int
  BY <1>2, <1>3, <1>6
<1>9. p.X = Res(x * z) /\ p.Y = Res(y * z)
  BY <1>4 DEF Res, fe_mul
<1>. DEFINE xi == (x * z) * (x * z)  yi == (y * z) * (y * z)
            si == (x * z + y * z) * (x * z + y * z)
<1>10. xx = Res(xi) /\ yy = Res(yi) /\ xi \in Int /\ yi \in Int /\ si \in Int
  BY <1>8, <1>9, SqForm
<1>11. fe_sq(fe_add(p.X, p.Y)) = Res(si)
  <2>1. fe_add(p.X, p.Y) = Res(x * z + y * z)
    <3>. DEFINE m == x * z  n == y * z
    <3>1. m \in Int /\ n \in Int /\ p.X = Res(m) /\ p.Y = Res(n)
      BY <1>8, <1>9
    <3>. HIDE DEF m, n
    <3>2. fe_add(p.X, p.Y) = Res(m + n)
      BY <3>1, AddForm
    <3>. QED  BY <3>2 DEF m, n
  <2>. QED  BY <1>8, <2>1, SqForm
<1>12. fe_sq2(p.Z) = Res(2 * (z * z)) /\ 2 * (z * z) = h + h
  BY <1>3, Sq2Form
<1>13. /\ yi + xi = h * ny /\ yi - xi = h * (y * y - x * x)
       /\ si - (yi + xi) = h * nx
  BY <1>2, <1>3, <1>6
<1>. HIDE DEF xi, yi, si, xx, yy
<1>14. ya = Res(yi + xi) /\ ys = Res(yi - xi) /\ yi + xi \in Int /\ yi - xi \in Int
  BY <1>10, AddForm, SubForm
<1>15. r.Y = Res(h * ny) /\ r.X = Res(h * nx)
  <2>1. fe_sub(fe_sq(fe_add(p.X, p.Y)), ya) = Res(si - (yi + xi))
    <3>. HIDE DEF ya
    <3>. QED  BY <1>10, <1>11, <1>14, SubForm
  <2>. QED  BY <1>5, <1>13, <1>14, <2>1, Zenon
<1>16. Res(h * (y * y - x * x)) = Res(h * (1 + k)) /\ 1 + k \in Int
  <2>. DEFINE m == y * y - x * x  n == 1 + k
  <2>1. Res(m) = Res(n) /\ m \in Int /\ n \in Int /\ h \in Int
    BY <1>2, <1>6, <1>7, <1>8
  <2>. HIDE DEF m, n, h
  <2>2. Res(m * h) = Res(n * h)
    BY <2>1, ResTimes, ZenonT(30)
  <2>3. m * h = h * m /\ n * h = h * n
    BY <2>1
  <2>. QED  BY <2>1, <2>2, <2>3 DEF m, n
<1>17. r.Z = Res(h * (1 + k))
  BY <1>5, <1>13, <1>14, <1>16, Zenon
<1>18. r.T = Res(h * (1 - k))
  <2>. DEFINE l == h * (1 + k)  t == h + h
  <2>1. ys = Res(l) /\ l \in Int /\ t \in Int /\ fe_sq2(p.Z) = Res(t)
    <3>1. l \in Int /\ t \in Int
      BY <1>8, <1>16
    <3>. QED  BY <1>5, <1>12, <1>17, <3>1, Zenon
  <2>2. t - l = h * (1 - k)
    <3>. HIDE DEF h
    <3>. QED  BY <1>7, <1>8
  <2>. HIDE DEF l, t, ys
  <2>3. fe_sub(fe_sq2(p.Z), ys) = Res(t - l)
    BY <2>1, SubForm
  <2>. QED  BY <1>5, <2>2, <2>3, Zenon
<1>19. Res(h) # 0
  <2>1. Res(z) # 0
    BY <1>3
  <2>. QED  BY <1>3, <2>1, NoZeroProduct
<1>. HIDE DEF h
<1>20. /\ OfPoint(ge_p1p1_to_p2(r), Plus(a, a))
       /\ Extended(ge_p1p1_to_p3(r), Plus(a, a)) /\ ge_p1p1_to_p3(r) \in ExtendedPoints
  BY <1>8, <1>15, <1>17, <1>18, <1>19, SumOfFractions DEF nx, ny, k
<1>. QED  BY <1>20 DEF r

\* Dividing undoes multiplying.
LEMMA DivideForm ==
  ASSUME NEW f \in Fe, NEW x \in Fe, NEW z \in Fe, z # 0
  PROVE  f = fe_mul(x, z) <=> fe_mul(f, fe_invert(z)) = x
<1>. DEFINE w == fe_invert(z)
<1>1. /\ f \in Int /\ x \in Int /\ z \in Int /\ Res(f) = f /\ Res(x) = x /\ Res(z) = z
  BY ResOfElement
<1>2. w \in Fe /\ Res(w * z) = 1
  BY FieldInverse
<1>3. w \in Int
  BY <1>2, ResOfElement
<1>. HIDE DEF w
<1>4. fe_mul(x, z) = Res(x * z) /\ fe_mul(f, w) = Res(f * w) /\ x * z \in Int /\ f * w \in Int
      /\ w * z \in Int /\ Res(w * z) = Res(1) /\ 1 \in Int
  BY <1>1, <1>2, <1>3, ResUnits DEF fe_mul, Res
<1>5. ASSUME NEW v \in Int PROVE Res((w * z) * v) = Res(v)
  <2>. DEFINE u == w * z
  <2>1. u \in Int /\ Res(u) = Res(1) /\ 1 * v = v
    BY <1>4
  <2>. HIDE DEF u
  <2>2. Res(u * v) = Res(1 * v)
    BY <1>4, <2>1, ResTimes, ZenonT(30)
  <2>. QED  BY <2>1, <2>2 DEF u
<1>6. ASSUME f = fe_mul(x, z) PROVE fe_mul(f, w) = x
  <2>1. Res(Res(x * z) * w) = Res((x * z) * w)
    BY <1>3, <1>4, ResTwice, Zenon
  <2>2. (x * z) * w = (w * z) * x
    BY <1>1, <1>3
  <2>3. Res((w * z) * x) = x
    BY <1>1, <1>5, Zenon
  <2>. QED  BY <1>4, <1>6, <2>1, <2>2, <2>3, Zenon
<1>7. ASSUME fe_mul(f, w) = x PROVE f = fe_mul(x, z)
  <2>1. Res(Res(f * w) * z) = Res((f * w) * z)
    BY <1>1, <1>4, ResTwice, Zenon
  <2>2. (f * w) * z = (w * z) * f
    BY <1>1, <1>3
  <2>3. Res((w * z) * f) = f
    BY <1>1, <1>5, Zenon
  <2>. QED  BY <1>4, <1>7, <2>1, <2>2, <2>3, Zenon
<1>. QED  BY <1>6, <1>7 DEF w

\* The ge_p3 that stand for n B are the extended points of Times(n).
LEMMA StandsExtended ==
  ASSUME NEW n \in Int, NEW p
  PROVE  Stands(p, n) <=> p \in ExtendedPoints /\ Extended(p, Times(n))
<1>. SUFFICES ASSUME p \in ExtendedPoints
              PROVE  Valid(p) /\ Affine(p) = Times(n) <=> Extended(p, Times(n))
  BY Zenon DEF Stands, ExtendedPoints
<1>. DEFINE a == Times(n)  x == a[1]  y == a[2]  z == p.Z
<1>1. x \in Fe /\ y \in Fe /\ a = <<x, y>>
  BY PointType, CurvePoint
<1>2. p.X \in Fe /\ p.Y \in Fe /\ z \in Fe /\ p.T \in Fe /\ "T" \in DOMAIN p
  BY DEF ExtendedPoints
<1>3. Valid(p) <=> z # 0 /\ fe_mul(p.T, z) = fe_mul(p.X, p.Y)
  BY <1>2 DEF Valid
<1>. SUFFICES ASSUME z # 0
              PROVE  fe_mul(p.T, z) = fe_mul(p.X, p.Y) /\ Affine(p) = a <=> Extended(p, a)
  BY <1>3 DEF Extended, OfPoint
<1>4. Affine(p) = a <=> p.X = fe_mul(x, z) /\ p.Y = fe_mul(y, z)
  <2>1. Affine(p) = a <=> fe_mul(p.X, fe_invert(z)) = x /\ fe_mul(p.Y, fe_invert(z)) = y
    BY <1>1 DEF Affine
  <2>. QED  BY <1>1, <1>2, <2>1, DivideForm
<1>5. ASSUME p.X = fe_mul(x, z), p.Y = fe_mul(y, z)
      PROVE  fe_mul(p.T, z) = fe_mul(p.X, p.Y) <=> p.T = fe_mul(fe_mul(x, y), z)
  <2>. DEFINE t == p.T
  <2>1. /\ x \in Int /\ y \in Int /\ z \in Int /\ t \in Int /\ Res(z) # 0 /\ Res(t) = t
        /\ Res(x) = x /\ Res(y) = y
    BY <1>1, <1>2, ResOfElement
  <2>2. fe_mul(p.X, p.Y) = Res((x * z) * (y * z)) /\ fe_mul(fe_mul(x, y), z) = Res((x * y) * z)
    <3>. HIDE DEF x, y, z
    <3>. DEFINE l == x * z  m == y * z  o == x * y
    <3>1. l \in Int /\ m \in Int /\ o \in Int /\ p.X = Res(l) /\ p.Y = Res(m) /\ fe_mul(x, y) = Res(o)
      BY <1>5, <2>1 DEF fe_mul, Res
    <3>. HIDE DEF l, m, o
    <3>2. fe_mul(Res(l), Res(m)) = Res(l * m) /\ fe_mul(Res(o), Res(z)) = Res(o * z)
      BY <2>1, <3>1, FieldOps, Zenon
    <3>3. Res(z) = z
      BY <1>2, ResOfElement, Zenon DEF z
    <3>4. fe_mul(p.X, p.Y) = Res(l * m) /\ fe_mul(fe_mul(x, y), z) = Res(o * z)
      BY <3>1, <3>2, <3>3, Zenon
    <3>. QED  BY <3>4 DEF l, m, o
  <2>. HIDE DEF x, y, z, t
  <2>. DEFINE o == (x * y) * z
  <2>3. (x * z) * (y * z) = o * z /\ o \in Int
    BY <2>1
  <2>4. fe_mul(p.T, z) = Res(t * z)
    BY DEF fe_mul, Res, t
  <2>. HIDE DEF o
  <2>5. Res(t * z) = Res(o * z) <=> Res(t) = Res(o)
    <3>1. ASSUME Res(t * z) = Res(o * z) PROVE Res(t) = Res(o)
      BY <2>1, <2>3, <3>1, Cancel
    <3>2. ASSUME Res(t) = Res(o) PROVE Res(t * z) = Res(o * z)
      BY <2>1, <2>3, <3>2, ResTimes, ZenonT(30)
    <3>. QED  BY <3>1, <3>2
  <2>6. fe_mul(fe_mul(x, y), z) = Res(o) /\ fe_mul(p.X, p.Y) = Res(o * z)
    BY <2>2, <2>3 DEF o
  <2>. QED  BY <2>1, <2>4, <2>5, <2>6, Zenon DEF t
<1>. QED  BY <1>2, <1>4, <1>5, Zenon DEF Extended, OfPoint

\* The table's entry for 0 is the neutral element, and that for -n is the
\* mirror image of that for n.
LEMMA PrecompNeg ==
  /\ PrecompOf(Times(0)) = Precomp(1, 1, 0)
  /\ \A n \in Int :
       LET t == PrecompOf(Times(n))
       IN  PrecompOf(Times(-n)) = Precomp(t.yminusx, t.yplusx, fe_neg(t.xy2d))
<1>1. PrecompOf(Times(0)) = Precomp(1, 1, 0)
  <2>1. Times(0)[1] = 0 /\ Times(0)[2] = 1
    BY TimesStep DEF Neutral
  <2>2. fe_add(1, 0) = 1 /\ fe_sub(1, 0) = 1 /\ fe_mul(0, 1) = 0
    BY FieldSize DEF fe_add, fe_sub, fe_mul
  <2>3. fe_mul(d2, 0) = 0
    <3>1. d2 \in Int
      BY FieldAssumption, FieldSize DEF d2, fe_add
    <3>2. d2 * 0 = 0 /\ Res(0) = 0
      BY <3>1, ResUnits
    <3>. QED  BY <3>2 DEF fe_mul, Res
  <2>. QED  BY <2>1, <2>2, <2>3, Zenon DEF PrecompOf
<1>2. ASSUME NEW n \in Int
      PROVE  LET t == PrecompOf(Times(n))
             IN  PrecompOf(Times(-n)) = Precomp(t.yminusx, t.yplusx, fe_neg(t.xy2d))
  <2>. DEFINE x == Times(n)[1]  y == Times(n)[2]  m == fe_neg(x)  t == PrecompOf(Times(n))
  <2>1. x \in Int /\ y \in Int /\ Res(x) = x /\ Res(y) = y /\ -x \in Int
    BY PointType, CurvePoint, ResOfElement
  <2>2. m = Res(-x)
    BY <2>1, NegForm
  <2>3. Times(-n)[1] = m /\ Times(-n)[2] = y
    BY TimesNeg
  <2>4. t.yplusx = fe_add(y, x) /\ t.yminusx = fe_sub(y, x) /\ t.xy2d = fe_mul(d2, fe_mul(x, y))
    BY DEF PrecompOf, Precomp
  <2>. HIDE DEF x, y, m, t
  <2>5. fe_add(y, m) = fe_sub(y, x) /\ fe_sub(y, m) = fe_add(y, x)
    <3>1. y + (-x) = y - x /\ y - (-x) = y + x
      BY <2>1
    <3>2. fe_add(Res(y), Res(-x)) = Res(y + (-x)) /\ fe_sub(Res(y), Res(-x)) = Res(y - (-x))
      BY <2>1, FieldOps, Zenon
    <3>3. fe_add(y, x) = Res(y + x) /\ fe_sub(y, x) = Res(y - x)
      BY DEF fe_add, fe_sub, Res
    <3>. QED  BY <2>1, <2>2, <3>1, <3>2, <3>3, Zenon
  <2>6. fe_mul(d2, fe_mul(m, y)) = fe_neg(fe_mul(d2, fe_mul(x, y)))
    <3>. DEFINE d == D + D  u == (-x) * y  v == x * y
    <3>1. d \in Int /\ u \in Int /\ v \in Int /\ u = -v
      BY <2>1, FieldAssumption
    <3>2. d2 = Res(d)
      BY DEF d2, fe_add, Res
    <3>3. fe_mul(x, y) = Res(v)
      BY DEF fe_mul, Res
    <3>4. fe_mul(m, y) = Res(u)
      BY <2>1, <2>2, MulForm
    <3>. HIDE DEF d, u, v
    <3>5. fe_mul(Res(d), Res(u)) = Res(d * u) /\ fe_mul(Res(d), Res(v)) = Res(d * v)
      BY <3>1, FieldOps, Zenon
    <3>6. d * u = -(d * v) /\ d * v \in Int
      BY <3>1
    <3>7. fe_neg(Res(d * v)) = Res(-(d * v))
      BY <3>6, FieldOps2, Zenon
    <3>. QED  BY <3>2, <3>3, <3>4, <3>5, <3>6, <3>7, Zenon
  <2>7. PrecompOf(Times(-n)) = Precomp(fe_sub(y, x), fe_add(y, x), fe_neg(fe_mul(d2, fe_mul(x, y))))
    BY <2>3, <2>5, <2>6, Zenon DEF PrecompOf
  <2>. QED  BY <2>4, <2>7, Zenon DEF t
<1>. QED  BY <1>1, <1>2

-----------------------------------------------------------------------------
(***************************************************************************)
(* 4. ge_scalarmult_base.                                                  *)
(***************************************************************************)
\* The constants, as the lemmas use them.
LEMMA Sizes ==
  /\ Bytes \in Nat \ {0} /\ Digits \in Nat \ {0} /\ Digits = 2 * Bytes
  /\ Digits - 1 \in Nat /\ Digits > 1
BY BytesAssumption DEF Digits

\* Place[k] is 16 to the power of k.
LEMMA PlaceFunction ==
  /\ Place[0] = 1
  /\ \A k \in 1 .. Digits : Place[k] = 16 * Place[k - 1]
  /\ \A k \in 0 .. Digits : Place[k] \in Nat \ {0}
<1>1. Digits \in Nat /\ 16 \in Nat \ {0}
  BY Sizes
<1>2. Place = CHOOSE t : t = PowersBody(t, 16, Digits)
  BY DEF Place, PowersBody
<1>3. Place = PowersBody(Place, 16, Digits)
  BY <1>1, <1>2, PowersExist
<1>. QED  BY <1>1, <1>3, PowersFunction

\* The next place counts sixteen times as much.
LEMMA NextPlace ==
  ASSUME NEW k \in 0 .. Digits - 1
  PROVE  /\ Place[k] \in Nat \ {0} /\ Place[k + 1] \in Nat \ {0}
         /\ Place[k + 1] = 16 * Place[k]
<1>1. k + 1 \in 1 .. Digits /\ k \in 0 .. Digits /\ k + 1 \in 0 .. Digits /\ (k + 1) - 1 = k
  BY Sizes
<1>. QED  BY <1>1, PlaceFunction

\* cmov returns one of its table entries.
LEMMA CmovForm ==
  ASSUME NEW t, NEW u, t = Precomp(t.yplusx, t.yminusx, t.xy2d),
         u = Precomp(u.yplusx, u.yminusx, u.xy2d)
  PROVE  cmov(t, u, 0) = t /\ cmov(t, u, 1) = u
BY DEF cmov, fe_cmov

\* One step of the recursive definition of the loop over a row of the table.
RowBody(f, pos, n) ==
  [k \in 0 .. 8 |-> IF k = 0 THEN Precomp(1, 1, 0)
                    ELSE cmov(f[k - 1], base[pos][k - 1], equal(n, k))]

\* The loop over a row of the table ends with the n-th multiple.
LEMMA RowForm ==
  ASSUME NEW pos \in 0 .. Bytes - 1, NEW n \in 0 .. 8, NEW f,
         f = CHOOSE t : t = RowBody(t, pos, n)
  PROVE  f[8] = PrecompOf(Times(n * Place[2 * pos]))
<1>. DEFINE entry == PrecompOf(Times(n * Place[2 * pos]))
            g == [k \in 0 .. 8 |-> IF k < n THEN Precomp(1, 1, 0) ELSE entry]
<1>1. Place[2 * pos] \in Nat
  <2>1. 2 * pos \in 0 .. Digits
    BY Sizes
  <2>. QED  BY <2>1, PlaceFunction
<1>2. \A k \in 0 .. 7 : base[pos][k] = PrecompOf(Times((k + 1) * Place[2 * pos]))
  BY DEF base
<1>3. entry = Precomp(entry.yplusx, entry.yminusx, entry.xy2d)
  BY DEF PrecompOf, Precomp
<1>4. \A k \in 0 .. 7 : base[pos][k] = Precomp(base[pos][k].yplusx, base[pos][k].yminusx, base[pos][k].xy2d)
  BY <1>2 DEF PrecompOf, Precomp
<1>5. LET one == Precomp(1, 1, 0) IN one = Precomp(one.yplusx, one.yminusx, one.xy2d)
  BY DEF Precomp
<1>6. n = 0 => entry = Precomp(1, 1, 0)
  <2>1. 0 * Place[2 * pos] = 0
    BY <1>1
  <2>. QED  BY <2>1, PrecompNeg
<1>. HIDE DEF entry
<1>7. g[0] = Precomp(1, 1, 0)
  BY <1>6
<1>8. ASSUME NEW k \in 1 .. 8 PROVE g[k] = cmov(g[k - 1], base[pos][k - 1], equal(n, k))
  <2>1. k - 1 \in 0 .. 7 /\ k - 1 \in 0 .. 8 /\ k \in 0 .. 8
    OBVIOUS
  <2>2. g[k - 1] = Precomp(g[k - 1].yplusx, g[k - 1].yminusx, g[k - 1].xy2d)
    BY <1>3, <1>5, <2>1
  <2>3. cmov(g[k - 1], base[pos][k - 1], 0) = g[k - 1]
        /\ cmov(g[k - 1], base[pos][k - 1], 1) = base[pos][k - 1]
    <3>. HIDE DEF g
    <3>. QED  BY <1>4, <2>1, <2>2, CmovForm, Zenon
  <2>4. CASE n = k
    <3>1. g[k] = entry /\ equal(n, k) = 1
      BY <2>1, <2>4 DEF equal
    <3>2. base[pos][k - 1] = entry
      <4>1. (k - 1) + 1 = n
        BY <2>4
      <4>. QED  BY <1>2, <2>1, <4>1 DEF entry
    <3>. QED  BY <2>3, <3>1, <3>2
  <2>5. CASE n # k
    <3>1. g[k] = g[k - 1] /\ equal(n, k) = 0
      BY <2>1, <2>5 DEF equal
    <3>. QED  BY <2>3, <3>1
  <2>. QED  BY <2>4, <2>5
<1>9. g = RowBody(g, pos, n)
  <2>. DEFINE h == RowBody(g, pos, n)
  <2>1. \A k \in 0 .. 8 : g[k] = h[k]
    <3>. SUFFICES ASSUME NEW k \in 0 .. 8 PROVE g[k] = h[k]
      OBVIOUS
    <3>1. CASE k = 0
      <4>. HIDE DEF g
      <4>. QED  BY <1>7, <3>1 DEF RowBody
    <3>2. CASE k # 0
      <4>1. k \in 1 .. 8
        BY <3>2
      <4>. HIDE DEF g
      <4>. QED  BY <1>8, <4>1, <3>2 DEF RowBody
    <3>. QED  BY <3>1, <3>2
  <2>2. DOMAIN g = 0 .. 8 /\ DOMAIN h = 0 .. 8 /\ g = [k \in 0 .. 8 |-> g[k]] /\ h = [k \in 0 .. 8 |-> h[k]]
    BY DEF RowBody
  <2>. HIDE DEF g, h
  <2>3. [k \in 0 .. 8 |-> g[k]] = [k \in 0 .. 8 |-> h[k]]
    BY <2>1
  <2>4. g = h
    BY <2>2, <2>3, Zenon
  <2>. QED  BY <2>4 DEF h
<1>10. f = RowBody(f, pos, n)
  <2>. HIDE DEF g
  <2>. QED  BY <1>9, Zenon
<1>11. f[0] = Precomp(1, 1, 0) /\ \A k \in 1 .. 8 : f[k] = cmov(f[k - 1], base[pos][k - 1], equal(n, k))
  <2>1. \A k \in 1 .. 8 : k \in 0 .. 8 /\ k # 0
    OBVIOUS
  <2>2. 0 \in 0 .. 8 /\ \A k \in 0 .. 8 :
          RowBody(f, pos, n)[k] = (IF k = 0 THEN Precomp(1, 1, 0)
                                            ELSE cmov(f[k - 1], base[pos][k - 1], equal(n, k)))
    BY DEF RowBody
  <2>. HIDE DEF g
  <2>3. \A k \in 0 .. 8 : f[k] = RowBody(f, pos, n)[k]
    BY <1>10, Zenon
  <2>4. f[0] = Precomp(1, 1, 0)
    BY <2>2, <2>3, Zenon
  <2>. QED  BY <2>1, <2>2, <2>3, <2>4, Zenon
<1>12. \A k \in 0 .. 8 : f[k] = g[k]
  <2>. DEFINE S == {k \in 0 .. 8 : f[k] = g[k]}
  <2>1. 0 \in S
    <3>. HIDE DEF g
    <3>. QED  BY <1>7, <1>11
  <2>2. ASSUME NEW k \in 1 .. 8, k - 1 \in S PROVE k \in S
    <3>. HIDE DEF g
    <3>1. f[k - 1] = g[k - 1]
      BY <2>2
    <3>2. f[k] = g[k]
      BY <1>8, <1>11, <3>1, Zenon
    <3>. QED  BY <3>2
  <2>. HIDE DEF S
  <2>3. \A k \in 0 .. 8 : k \in S
    BY <2>1, <2>2, UpTo, 8 \in Nat, Zenon
  <2>. QED  BY <2>3 DEF S
<1>13. g[8] = entry
  OBVIOUS
<1>. HIDE DEF g
<1>. QED  BY <1>12, <1>13 DEF entry

\* select returns the table's point for a digit.
LEMMA SelectForm ==
  ASSUME NEW pos \in 0 .. Bytes - 1, NEW n \in -8 .. 8
  PROVE  select(pos, n) = PrecompOf(Times(n * Place[2 * pos]))
<1>. DEFINE m == n - 2 * negative(n) * n
            f == CHOOSE t : t = RowBody(t, pos, m)
            u == f[8]
            w == Precomp(u.yminusx, u.yplusx, fe_neg(u.xy2d))
<1>1. select(pos, n) = cmov(u, w, negative(n))
  BY DEF select, RowBody
<1>2. m \in 0 .. 8 /\ (n < 0 => m = -n) /\ (~(n < 0) => m = n)
  BY DEF negative
<1>3. u = PrecompOf(Times(m * Place[2 * pos]))
  <2>. HIDE DEF m
  <2>1. f = CHOOSE t : t = RowBody(t, pos, m)
    OBVIOUS
  <2>. HIDE DEF f
  <2>. QED  BY <1>2, <2>1, RowForm, Zenon
<1>. HIDE DEF m, f, u
<1>4. u = Precomp(u.yplusx, u.yminusx, u.xy2d)
  BY <1>3 DEF PrecompOf, Precomp
<1>5. w = Precomp(w.yplusx, w.yminusx, w.xy2d)
  BY DEF Precomp
<1>6. Place[2 * pos] \in Nat
  <2>1. 2 * pos \in 0 .. Digits
    BY Sizes
  <2>. QED  BY <2>1, PlaceFunction
<1>7. w = PrecompOf(Times(-(m * Place[2 * pos])))
  <2>1. m * Place[2 * pos] \in Int
    BY <1>2, <1>6
  <2>. QED  BY <1>3, <2>1, PrecompNeg
<1>. HIDE DEF w
<1>8. cmov(u, w, 0) = u /\ cmov(u, w, 1) = w
  BY <1>4, <1>5, CmovForm, Zenon
<1>9. CASE n < 0
  <2>1. n * Place[2 * pos] = -(m * Place[2 * pos])
    BY <1>2, <1>6, <1>9
  <2>2. negative(n) = 1
    BY <1>9 DEF negative
  <2>. QED  BY <1>1, <1>7, <1>8, <2>1, <2>2
<1>10. CASE ~(n < 0)
  <2>1. m = n /\ negative(n) = 0
    BY <1>2, <1>10 DEF negative
  <2>. QED  BY <1>1, <1>3, <1>8, <2>1
<1>. QED  BY <1>9, <1>10

\* What the digits x at the positions S count for; Value is Sigma of e.
Weights(x, S) ==
  [k \in 1 .. Digits |-> IF k - 1 \in S THEN x[k - 1] * Place[k - 1] ELSE 0]
Sigma(x, S) == SumUpTo(Weights(x, S), Digits)

DigitStrings == [0 .. Digits - 1 -> Int]

\* Weights and their sum are integers.
LEMMA SigmaType ==
  ASSUME NEW x \in DigitStrings, NEW S
  PROVE  Weights(x, S) \in [1 .. Digits -> Int] /\ Sigma(x, S) \in Int
<1>1. Digits \in Nat
  BY Sizes
<1>2. ASSUME NEW k \in 1 .. Digits PROVE x[k - 1] * Place[k - 1] \in Int
  <2>1. k - 1 \in 0 .. Digits - 1 /\ k - 1 \in 0 .. Digits
    BY <1>1
  <2>2. x[k - 1] \in Int /\ Place[k - 1] \in Int
    BY <2>1, PlaceFunction DEF DigitStrings
  <2>. QED  BY <2>2
<1>3. Weights(x, S) \in [1 .. Digits -> Int]
  BY <1>2 DEF Weights
<1>. QED  BY <1>1, <1>3, SumInt DEF Sigma

\* What a digit counts for where its position is in S.
Counted(x, S, k) == IF k \in S THEN x[k] ELSE 0

\* Changing one digit, or adding its position, changes the sum by as much.
LEMMA SigmaChange ==
  ASSUME NEW x \in DigitStrings, NEW y \in DigitStrings, NEW S, NEW T,
         NEW j \in 0 .. Digits - 1,
         \A k \in 0 .. Digits - 1 : k # j => Counted(y, T, k) = Counted(x, S, k)
  PROVE  Sigma(y, T) = Sigma(x, S) + (Counted(y, T, j) - Counted(x, S, j)) * Place[j]
<1>. DEFINE f == Weights(x, S)  g == Weights(y, T)
<1>1. Digits \in Nat /\ j + 1 \in 1 .. Digits /\ (j + 1) - 1 = j
  BY Sizes
<1>2. ASSUME NEW k \in 1 .. Digits
      PROVE  /\ f[k] = Counted(x, S, k - 1) * Place[k - 1]
             /\ g[k] = Counted(y, T, k - 1) * Place[k - 1]
  <2>1. k - 1 \in 0 .. Digits
    BY <1>1
  <2>2. 0 * Place[k - 1] = 0
    BY <2>1, PlaceFunction
  <2>. QED  BY <2>2 DEF Weights, Counted
<1>3. f \in [1 .. Digits -> Int] /\ g \in [1 .. Digits -> Int]
  BY SigmaType
<1>. HIDE DEF f, g
<1>4. \A k \in 1 .. Digits : k # j + 1 => g[k] = f[k]
  <2>. SUFFICES ASSUME NEW k \in 1 .. Digits, k # j + 1 PROVE g[k] = f[k]
    OBVIOUS
  <2>1. k - 1 \in 0 .. Digits - 1 /\ k - 1 # j
    BY <1>1
  <2>. QED  BY <1>2, <2>1
<1>5. SumUpTo(g, Digits) = SumUpTo(f, Digits) + g[j + 1] - f[j + 1]
  BY <1>1, <1>3, <1>4, SumUpdate
<1>6. g[j + 1] = Counted(y, T, j) * Place[j] /\ f[j + 1] = Counted(x, S, j) * Place[j]
  BY <1>1, <1>2
<1>. DEFINE l == Counted(y, T, j)  m == Counted(x, S, j)
<1>7. l \in Int /\ m \in Int /\ Place[j] \in Int
  <2>1. x[j] \in Int /\ y[j] \in Int
    BY DEF DigitStrings
  <2>. QED  BY <2>1, NextPlace DEF Counted
<1>8. SumUpTo(f, Digits) \in Int
  BY <1>1, <1>3, SumInt
<1>. HIDE DEF l, m
<1>9. (l - m) * Place[j] = l * Place[j] - m * Place[j] /\ l * Place[j] \in Int /\ m * Place[j] \in Int
  BY <1>7, Distribute
<1>10. SumUpTo(g, Digits) = SumUpTo(f, Digits) + (l - m) * Place[j]
  BY <1>5, <1>6, <1>8, <1>9 DEF l, m
<1>. QED  BY <1>10 DEF Sigma, f, g, l, m

\* No digits make 0, and odd and even positions make all of them.
LEMMA SigmaSplit ==
  ASSUME NEW x \in DigitStrings
  PROVE  /\ Sigma(x, {}) = 0
         /\ Sigma(x, Odd(Digits)) + Sigma(x, Even(Digits)) = Sigma(x, 0 .. Digits - 1)
<1>1. Digits \in Nat
  BY Sizes
<1>2. Sigma(x, {}) = 0
  <2>1. \A k \in 1 .. Digits : Weights(x, {})[k] = 0
    BY DEF Weights
  <2>. QED  BY <1>1, <2>1, SigmaType, SumOfZeros DEF Sigma
<1>. DEFINE f == Weights(x, Odd(Digits))  g == Weights(x, Even(Digits))
            h == Weights(x, 0 .. Digits - 1)
<1>3. /\ f \in [1 .. Digits -> Int] /\ g \in [1 .. Digits -> Int]
      /\ h \in [1 .. Digits -> Int]
  BY SigmaType
<1>4. ASSUME NEW k \in 1 .. Digits PROVE h[k] = f[k] + g[k]
  <2>. DEFINE j == k - 1  t == x[j] * Place[j]
  <2>1. j \in 0 .. Digits - 1 /\ j < Digits
    BY <1>1
  <2>2. t \in Int
    <3>1. x[j] \in Int /\ Place[j] \in Int
      BY <2>1, NextPlace DEF DigitStrings
    <3>. HIDE DEF j
    <3>. QED  BY <3>1
  <2>3. /\ f[k] = (IF j \in Odd(Digits) THEN t ELSE 0)
        /\ g[k] = (IF j \in Even(Digits) THEN t ELSE 0) /\ h[k] = t
    BY <2>1 DEF Weights
  <2>4. j % 2 = 1 \/ j % 2 = 0
    BY <2>1
  <2>. HIDE DEF j, t, f, g, h
  <2>5. CASE j % 2 = 1
    <3>1. j \in Odd(Digits) /\ j \notin Even(Digits)
      BY <2>1, <2>5 DEF Odd, Even
    <3>. QED  BY <2>2, <2>3, <3>1
  <2>6. CASE j % 2 = 0
    <3>1. j \notin Odd(Digits) /\ j \in Even(Digits)
      BY <2>1, <2>6 DEF Odd, Even
    <3>. QED  BY <2>2, <2>3, <3>1
  <2>. QED  BY <2>4, <2>5, <2>6
<1>. HIDE DEF f, g, h
<1>5. SumUpTo(h, Digits) = SumUpTo(f, Digits) + SumUpTo(g, Digits)
  BY <1>1, <1>3, <1>4, SumAdd
<1>. QED  BY <1>2, <1>5 DEF Sigma, f, g, h

\* The digits of a number in radix 16 make up the number.
LEMMA NibblesMakeTheNumber ==
  ASSUME NEW m \in Nat, m < 135 * Place[Digits - 2],
         NEW x, x = [k \in 0 .. Digits - 1 |-> Nibble(m, k)]
  PROVE  /\ x \in DigitStrings /\ \A k \in 0 .. Digits - 1 : x[k] \in 0 .. 15
         /\ RoomOnTop(x, 0, 0)
         /\ Sigma(x, 0 .. Digits - 1) = m
<1>1. Digits \in Nat /\ Digits - 1 \in 0 .. Digits - 1 /\ 0 \in 0 .. Digits
      /\ (Digits - 1) + 1 = Digits
  BY Sizes
<1>2. ASSUME NEW k \in 0 .. Digits - 1
      PROVE  /\ x[k] \in 0 .. 15 /\ x[k] \in Int
             /\ m % Place[k + 1] = (m % Place[k]) + x[k] * Place[k]
             /\ m \div Place[k] \in Nat
             /\ x[k] = (m \div Place[k]) % 16
  <2>. DEFINE p == Place[k]  d == m \div p  r == m % p  q == d \div 16  t == d % 16
  <2>1. p \in Nat \ {0} /\ Place[k + 1] = 16 * p /\ p \in Int /\ p > 0 /\ Place[k + 1] \in Nat \ {0}
    BY NextPlace
  <2>2. x[k] = t
    BY DEF Nibble
  <2>. HIDE DEF p
  <2>3. m = p * d + r /\ d \in Int /\ r \in 0 .. p - 1
    <3>1. m \in Int /\ 0 \in Int
      OBVIOUS
    <3>2. m = p * d + r /\ d \in Int
      BY <2>1, <3>1, Quotient
    <3>3. r \in 0 .. p - 1
      BY <2>1, <3>1, ModShift
    <3>. QED  BY <3>2, <3>3
  <2>. HIDE DEF d, r
  <2>4. d = 16 * q + t /\ q \in Int /\ t \in 0 .. 15
    <3>1. 16 \in Int /\ 16 > 0 /\ 16 \in Nat \ {0} /\ 16 - 1 = 15
      OBVIOUS
    <3>2. d = 16 * q + t /\ q \in Int
      BY <2>3, <3>1, Quotient
    <3>3. t \in 0 .. 15
      BY <2>3
    <3>. QED  BY <3>2, <3>3
  <2>5. d >= 0
    <3>1. CASE d <= -1
      <4>1. d * p <= (-1) * p /\ (-1) * p = -p /\ d * p = p * d
        BY <2>1, <2>3, <3>1, ProductGrows
      <4>. QED  BY <2>1, <2>3, <4>1
    <3>. QED  BY <2>3, <3>1
  <2>. HIDE DEF q, t
  <2>6. t * p \in Int /\ t * p <= 15 * p /\ 15 * p \in Int /\ 0 * p <= t * p /\ 0 * p = 0
    BY <2>1, <2>4, ProductGrows
  <2>7. r + t * p \in 0 .. 16 * p - 1
    BY <2>1, <2>3, <2>6
  <2>8. p * d = t * p + q * (16 * p) /\ p * d \in Int /\ q * (16 * p) \in Int
    BY <2>1, <2>3, <2>4
  <2>9. m = (r + t * p) + q * (16 * p)
    BY <2>3, <2>6, <2>8
  <2>10. m % (16 * p) = r + t * p
    <3>. DEFINE u == 16 * p  v == r + t * p
    <3>1. u \in Nat \ {0} /\ v \in 0 .. u - 1 /\ m = v + q * u /\ m \in Int
      BY <2>1, <2>7, <2>9
    <3>. HIDE DEF u, v
    <3>2. m % u = v
      BY <2>4, <3>1, QuotientUnique
    <3>. QED  BY <3>2 DEF u, v
  <2>11. x[k] \in 0 .. 15 /\ x[k] \in Int
    BY <2>2, <2>4
  <2>12. m % Place[k + 1] = r + x[k] * p
    BY <2>1, <2>2, <2>10
  <2>13. d \in Nat
    BY <2>3, <2>5
  <2>14. x[k] = d % 16
    BY <2>2 DEF t
  <2>. QED  BY <2>11, <2>12, <2>13, <2>14, Zenon DEF p, d, r
<1>3. x \in DigitStrings
  <2>1. x = [k \in 0 .. Digits - 1 |-> x[k]]
    OBVIOUS
  <2>. QED  BY <1>2, <2>1 DEF DigitStrings
<1>4. \A n \in 0 .. Digits : Sigma(x, 0 .. n - 1) = m % Place[n]
  <2>. DEFINE S == {n \in 0 .. Digits : Sigma(x, 0 .. n - 1) = m % Place[n]}
  <2>1. 0 \in S
    <3>1. m % 1 = 0 /\ 0 .. 0 - 1 = {}
      OBVIOUS
    <3>. QED  BY <1>1, <1>3, <3>1, SigmaSplit, PlaceFunction
  <2>2. ASSUME NEW n \in 1 .. Digits, n - 1 \in S PROVE n \in S
    <3>. DEFINE j == n - 1
    <3>1. j \in 0 .. Digits - 1 /\ j + 1 = n /\ n \in 0 .. Digits
      BY <1>1
    <3>2. Sigma(x, 0 .. j - 1) = m % Place[j]
      BY <2>2
    <3>3. Sigma(x, 0 .. n - 1) = Sigma(x, 0 .. j - 1) + (x[j] - 0) * Place[j]
      <4>1. Counted(x, 0 .. n - 1, j) = x[j] /\ Counted(x, 0 .. j - 1, j) = 0
        BY <3>1 DEF Counted
      <4>2. \A k \in 0 .. Digits - 1 : k # j => Counted(x, 0 .. n - 1, k) = Counted(x, 0 .. j - 1, k)
        BY <3>1 DEF Counted
      <4>. HIDE DEF j
      <4>3. Sigma(x, 0 .. n - 1) = Sigma(x, 0 .. j - 1)
              + (Counted(x, 0 .. n - 1, j) - Counted(x, 0 .. j - 1, j)) * Place[j]
        BY <1>3, <3>1, <4>2, SigmaChange
      <4>. QED  BY <4>1, <4>3
    <3>4. x[j] - 0 = x[j]
      BY <1>2, <3>1
    <3>5. m % Place[n] = (m % Place[j]) + x[j] * Place[j]
      <4>1. m % Place[j + 1] = (m % Place[j]) + x[j] * Place[j]
        BY <1>2, <3>1
      <4>. QED  BY <3>1, <4>1
    <3>6. Sigma(x, 0 .. n - 1) = m % Place[n]
      <4>. HIDE DEF j
      <4>. QED  BY <3>2, <3>3, <3>4, <3>5
    <3>. QED  BY <3>1, <3>6
  <2>. HIDE DEF S
  <2>3. \A n \in 0 .. Digits : n \in S
    BY <1>1, <2>1, <2>2, UpTo, Zenon
  <2>. QED  BY <2>3 DEF S
<1>. DEFINE p == Place[Digits - 1]
<1>. DEFINE q == Place[Digits - 2]
<1>5. /\ p \in Nat \ {0} /\ Place[Digits] = 16 * p /\ p = 16 * q /\ q \in Nat \ {0}
      /\ m < 135 * q
  <2>1. Digits - 2 \in 0 .. Digits - 1 /\ (Digits - 2) + 1 = Digits - 1
    BY Sizes
  <2>. QED  BY <1>1, <2>1, NextPlace
<1>. HIDE DEF p, q
<1>6. m % Place[Digits] = m
  <2>. DEFINE u == 16 * p
  <2>1. u \in Nat \ {0} /\ m \in 0 .. u - 1 /\ m = m + 0 * u /\ 0 \in Int /\ m \in Int
    BY <1>5
  <2>. HIDE DEF u
  <2>2. m % u = m
    BY <2>1, QuotientUnique
  <2>. QED  BY <1>5, <2>2 DEF u
<1>7. Sigma(x, 0 .. Digits - 1) = m
  BY <1>1, <1>4, <1>6
<1>8. RoomOnTop(x, 0, 0)
  <2>. DEFINE d == m \div p  c == m \div q
  <2>1. d \in Nat /\ x[Digits - 1] = d % 16
    BY <1>1, <1>2 DEF p
  <2>2. c \in Nat /\ x[Digits - 2] = c % 16
    <3>1. Digits - 2 \in 0 .. Digits - 1
      BY Sizes
    <3>. QED  BY <1>2, <3>1 DEF q
  <2>3. m = p * d + (m % p) /\ m % p \in 0 .. p - 1 /\ p * d = d * p /\ d * p \in Int
    <3>1. m \in Int /\ p \in Int /\ p > 0 /\ 0 \in Int
      BY <1>1, <1>5
    <3>2. m = p * d + (m % p) /\ d \in Int
      BY <3>1, Quotient
    <3>3. m % p \in 0 .. p - 1
      BY <1>5, <3>1, ModShift, Zenon
    <3>. HIDE DEF d
    <3>4. p * d = d * p /\ d * p \in Int
      BY <3>1, <3>2
    <3>. QED  BY <3>2, <3>3, <3>4
  <2>4. m = q * c + (m % q) /\ m % q \in 0 .. q - 1 /\ q * c = c * q /\ c * q \in Int
    <3>1. m \in Int /\ q \in Int /\ q > 0 /\ 0 \in Int
      BY <1>1, <1>5
    <3>2. m = q * c + (m % q) /\ c \in Int
      BY <3>1, Quotient
    <3>3. m % q \in 0 .. q - 1
      BY <1>5, <3>1, ModShift, Zenon
    <3>. HIDE DEF c
    <3>4. q * c = c * q /\ c * q \in Int
      BY <3>1, <3>2
    <3>. QED  BY <3>2, <3>3, <3>4
  <2>. HIDE DEF d, c
  <2>5. d < 9
    <3>1. CASE d >= 9
      <4>1. 9 * p <= d * p
        BY <1>5, <2>1, <3>1, ProductGrows
      <4>. QED  BY <1>5, <2>3, <4>1
    <3>. QED  BY <2>1, <3>1
  <2>6. c < 135
    <3>1. CASE c >= 135
      <4>1. 135 * q <= c * q
        BY <1>5, <2>2, <3>1, ProductGrows
      <4>. QED  BY <1>5, <2>4, <4>1
    <3>. QED  BY <2>2, <3>1
  <2>7. d = 8 => c >= 128
    <3>1. CASE d = 8 /\ c <= 127
      <4>1. c * q <= 127 * q
        BY <1>5, <2>2, <3>1, ProductGrows
      <4>2. m >= 128 * q
        BY <1>5, <2>3, <3>1
      <4>. QED  BY <1>5, <2>4, <4>1, <4>2
    <3>. QED  BY <2>2, <3>1
  <2>8. x[Digits - 1] \in 0 .. 7 \/ (x[Digits - 1] = 8 /\ x[Digits - 2] \in 0 .. 6)
    <3>1. CASE d < 8
      BY <2>1, <3>1
    <3>2. CASE d = 8
      BY <2>1, <2>2, <2>6, <2>7, <3>2
    <3>. QED  BY <2>1, <2>5, <3>1, <3>2
  <2>9. 0 < Digits - 1
    BY Sizes
  <2>. QED  BY <2>8, <2>9 DEF RoomOnTop
<1>. QED  BY <1>2, <1>3, <1>7, <1>8

\* Where a point stands for m B, adding an entry of the form n B to it makes
\* one that stands for (m + n) B; the entry select returns is of that form.
LEMMA AddMultiple ==
  ASSUME NEW m \in Int, NEW n \in Int, NEW p, Stands(p, m)
  PROVE  Stands(ge_p1p1_to_p3(ge_madd(p, PrecompOf(Times(n)))), m + n)
<1>. DEFINE r == ge_p1p1_to_p3(ge_madd(p, PrecompOf(Times(n))))
<1>1. Extended(p, Times(m))
  BY StandsExtended
<1>2. Times(m) \in Points /\ Times(n) \in Points
  BY PointType
<1>3. Extended(r, Plus(Times(m), Times(n))) /\ r \in ExtendedPoints
  BY <1>1, <1>2, MaddPoint
<1>4. Plus(Times(m), Times(n)) = Times(m + n) /\ m + n \in Int
  BY TimesAdd
<1>. HIDE DEF r
<1>5. Stands(r, m + n)
  BY <1>3, <1>4, StandsExtended
<1>. QED  BY <1>5 DEF r

\* Adding the digit n at position k.
LEMMA AddSelected ==
  ASSUME NEW m \in Int, NEW n \in -8 .. 8, NEW pos \in 0 .. Bytes - 1, NEW p, Stands(p, m)
  PROVE  /\ n * Place[2 * pos] \in Int
         /\ Stands(ge_p1p1_to_p3(ge_madd(p, select(pos, n))), m + n * Place[2 * pos])
<1>1. 2 * pos \in 0 .. Digits
  BY Sizes
<1>2. Place[2 * pos] \in Int
  BY <1>1, PlaceFunction
<1>. DEFINE q == Place[2 * pos]
<1>3. n * q \in Int
  <2>. HIDE DEF q
  <2>1. q \in Int
    BY <1>2 DEF q
  <2>. QED  BY <2>1
<1>4. select(pos, n) = PrecompOf(Times(n * q))
  BY SelectForm
<1>. HIDE DEF q
<1>5. Stands(ge_p1p1_to_p3(ge_madd(p, select(pos, n))), m + n * q)
  BY <1>3, <1>4, AddMultiple
<1>. QED  BY <1>3, <1>5 DEF q

\* The four doublings.
LEMMA FourDoublings ==
  ASSUME NEW m \in Int, NEW p, Stands(p, m),
         NEW r, NEW two, NEW four, NEW eight,
         two = ge_p1p1_to_p2(ge_p3_dbl(p)), four = ge_p1p1_to_p2(ge_p2_dbl(two)),
         eight = ge_p1p1_to_p2(ge_p2_dbl(four)), r = ge_p1p1_to_p3(ge_p2_dbl(eight))
  PROVE  Stands(r, 16 * m)
<1>. DEFINE n2 == m + m  n4 == n2 + n2  n8 == n4 + n4  n16 == n8 + n8
            p2 == ge_p3_to_p2(p)
<1>1. n2 \in Int /\ n4 \in Int /\ n8 \in Int /\ n16 \in Int /\ n16 = 16 * m
  OBVIOUS
<1>2. OfPoint(p2, Times(m))
  <2>1. OfPoint(p, Times(m))
    BY StandsExtended DEF Extended
  <2>. QED  BY <2>1 DEF OfPoint, ge_p3_to_p2, P2
<1>3. /\ Plus(Times(m), Times(m)) = Times(n2) /\ Plus(Times(n2), Times(n2)) = Times(n4)
      /\ Plus(Times(n4), Times(n4)) = Times(n8) /\ Plus(Times(n8), Times(n8)) = Times(n16)
  <2>. HIDE DEF n2
  <2>1. Plus(Times(m), Times(m)) = Times(n2)
    BY TimesAdd DEF n2
  <2>. HIDE DEF n4
  <2>2. Plus(Times(n2), Times(n2)) = Times(n4)
    BY <1>1, TimesAdd DEF n4
  <2>. HIDE DEF n8
  <2>3. Plus(Times(n4), Times(n4)) = Times(n8)
    BY <1>1, TimesAdd DEF n8
  <2>. HIDE DEF n16
  <2>4. Plus(Times(n8), Times(n8)) = Times(n16)
    BY <1>1, TimesAdd DEF n16
  <2>. QED  BY <2>1, <2>2, <2>3, <2>4
<1>4. two = ge_p1p1_to_p2(ge_p2_dbl(p2))
  BY DEF ge_p3_dbl
<1>. HIDE DEF n2, n4, n8, n16, p2
<1>5. Times(m) \in Points /\ Times(n2) \in Points /\ Times(n4) \in Points /\ Times(n8) \in Points
  BY <1>1, PointType
<1>6. OfPoint(two, Times(n2))
  BY <1>2, <1>3, <1>4, <1>5, DblPoint
<1>7. OfPoint(four, Times(n4))
  BY <1>3, <1>5, <1>6, DblPoint
<1>8. OfPoint(eight, Times(n8))
  BY <1>3, <1>5, <1>7, DblPoint
<1>9. Extended(r, Times(n16)) /\ r \in ExtendedPoints
  BY <1>3, <1>5, <1>8, DblPoint
<1>. QED  BY <1>1, <1>9, StandsExtended

\* The neutral element stands for 0 B.
LEMMA NeutralStands == Stands(ge_p3_0, 0)
<1>1. /\ ge_p3_0.X = 0 /\ ge_p3_0.Y = 1 /\ ge_p3_0.Z = 1 /\ ge_p3_0.T = 0
      /\ ge_p3_0 \in ExtendedPoints
  BY ResUnits DEF ge_p3_0, P3, ExtendedPoints
<1>2. fe_mul(0, 1) = 0 /\ fe_mul(1, 1) = 1 /\ 0 # 1
  BY FieldSize DEF fe_mul
<1>3. Times(0) = <<0, 1>>
  BY TimesStep DEF Neutral
<1>4. Extended(ge_p3_0, Times(0))
  BY <1>1, <1>2, <1>3, ResUnits DEF Extended, OfPoint
<1>. QED  BY <1>1, <1>4, StandsExtended

-----------------------------------------------------------------------------
\* The inductive invariant of ge_scalarmult_base as a predicate of the control
\* point c, the index j, the scalar s, the digits x, the carry r, the point p.
MulInv(c, j, s, x, r, p) ==
  /\ s \in Nat /\ x \in DigitStrings /\ r \in {0, 1}
  /\ c = "recode" =>
       /\ j \in 0 .. Digits - 1 /\ p = ge_p3_0
       /\ \A k \in 0 .. Digits - 1 : x[k] \in (IF k < j THEN -8 .. 7 ELSE 0 .. 15)
       /\ RoomOnTop(x, j, r)
       /\ Sigma(x, 0 .. Digits - 1) + r * Place[j] = s
  /\ c \in {"odd", "even", "done"} =>
       /\ Sigma(x, 0 .. Digits - 1) = s
       /\ \A k \in 0 .. Digits - 1 : x[k] \in -8 .. 8
  /\ c = "odd" => /\ j \in 1 .. Digits + 1 /\ j % 2 = 1
                  /\ Sigma(x, Odd(j)) % 16 = 0 /\ Stands(p, Sigma(x, Odd(j)) \div 16)
  /\ c = "even" => /\ j \in 0 .. Digits /\ j % 2 = 0
                   /\ Stands(p, Sigma(x, Odd(Digits)) + Sigma(x, Even(j)))
  /\ c = "done" => Stands(p, s)

\* It is the invariant, of a state and of its successor.
LEMMA MulInvForm ==
  /\ ScalarMultInv <=> MulInv(pc, i, my_scalar, e, carry, A)
  /\ ScalarMultInv' <=> MulInv(pc', i', my_scalar', e', carry', A')
<1>1. \A S : Value(S) = Sigma(e, S)
  BY DEF Value, Sigma, Weights
<1>2. \A S : Value(S)' = Sigma(e', S)
  BY DEF Value, Sigma, Weights
<1>3. Multiplying <=> pc \in {"recode", "odd", "even", "done"}
  BY DEF Multiplying
<1>4. ScalarMultInv <=> MulInv(pc, i, my_scalar, e, carry, A)
  BY <1>1 DEF ScalarMultInv, RecodeOK, SumOK, DigitsMakeTheScalar, Multiplying, MulInv, DigitStrings
<1>5. /\ Value(0 .. Digits - 1)' = Sigma(e', 0 .. Digits - 1)
      /\ Value(Odd(i))' = Sigma(e', Odd(i')) /\ Value(Even(i))' = Sigma(e', Even(i'))
      /\ Value(Odd(Digits))' = Sigma(e', Odd(Digits))
  BY DEF Value, Sigma, Weights, Odd, Even
<1>6. ScalarMultInv' <=> MulInv(pc', i', my_scalar', e', carry', A')
  BY <1>5 DEF ScalarMultInv, RecodeOK, SumOK, DigitsMakeTheScalar, Multiplying, MulInv, DigitStrings
<1>. QED  BY <1>4, <1>6

\* Changing the digit at one position.
LEMMA DigitChange ==
  ASSUME NEW x \in DigitStrings, NEW y \in DigitStrings, NEW S,
         NEW j \in 0 .. Digits - 1, j \in S,
         \A k \in 0 .. Digits - 1 : k # j => y[k] = x[k]
  PROVE  Sigma(y, S) = Sigma(x, S) + (y[j] - x[j]) * Place[j]
<1>1. Counted(y, S, j) = y[j] /\ Counted(x, S, j) = x[j]
  BY DEF Counted
<1>2. \A k \in 0 .. Digits - 1 : k # j => Counted(y, S, k) = Counted(x, S, k)
  BY DEF Counted
<1>3. Sigma(y, S) = Sigma(x, S) + (Counted(y, S, j) - Counted(x, S, j)) * Place[j]
  BY <1>2, SigmaChange
<1>. QED  BY <1>1, <1>3

\* Assigning to a digit changes that digit.
LEMMA DigitUpdate ==
  ASSUME NEW x \in DigitStrings, NEW j \in 0 .. Digits - 1, NEW v \in Int,
         NEW y, y = [x EXCEPT ![j] = v]
  PROVE  /\ y \in DigitStrings /\ y[j] = v
         /\ \A k \in 0 .. Digits - 1 : k # j => y[k] = x[k]
BY DEF DigitStrings

\* The initial digits are the nibbles of an input.
LEMMA MulInit ==
  ASSUME NEW s \in Inputs, NEW x, x = [k \in 0 .. Digits - 1 |-> Nibble(s, k)]
  PROVE  MulInv("recode", 0, s, x, 0, ge_p3_0)
<1>1. Digits \in Nat /\ Digits - 1 \in 0 .. Digits /\ 0 \in 0 .. Digits - 1 /\ 0 \in 0 .. Digits
  BY Sizes
<1>2. Place[Digits - 2] \in Nat /\ Place[0] = 1
  <2>1. Digits - 2 \in 0 .. Digits
    BY Sizes
  <2>. QED  BY <1>1, <2>1, PlaceFunction
<1>3. s \in Nat /\ s < 135 * Place[Digits - 2]
  <2>. DEFINE q == Place[Digits - 2]
  <2>1. s \in 0 .. 135 * q - 1
    BY InputsAssumption
  <2>. HIDE DEF q
  <2>2. q \in Nat
    BY <1>2 DEF q
  <2>3. s \in Nat /\ s < 135 * q
    BY <2>1, <2>2
  <2>. QED  BY <2>3 DEF q
<1>4. /\ x \in DigitStrings /\ \A k \in 0 .. Digits - 1 : x[k] \in 0 .. 15
      /\ RoomOnTop(x, 0, 0)
      /\ Sigma(x, 0 .. Digits - 1) = s
  BY <1>3, NibblesMakeTheNumber
<1>5. \A k \in 0 .. Digits - 1 : x[k] \in (IF k < 0 THEN -8 .. 7 ELSE 0 .. 15)
  BY <1>1, <1>4
<1>6. Sigma(x, 0 .. Digits - 1) + 0 * Place[0] = s
  <2>. HIDE <1>5
  <2>. QED  BY <1>2, <1>3, <1>4
<1>. QED  BY <1>1, <1>3, <1>4, <1>5, <1>6 DEF MulInv

\* A digit that is made signed hands on what it loses to the next.
LEMMA MulRecode ==
  ASSUME NEW j, NEW s, NEW x, NEW r, NEW p, MulInv("recode", j, s, x, r, p),
         j < Digits - 1, NEW n, n = Carry(x[j] + r), NEW y \in DigitStrings,
         y[j] = (x[j] + r) - 16 * n,
         \A k \in 0 .. Digits - 1 : k # j => y[k] = x[k]
  PROVE  MulInv("recode", j + 1, s, y, n, p)
<1>1. /\ s \in Nat /\ x \in DigitStrings /\ r \in {0, 1}
      /\ j \in 0 .. Digits - 1 /\ p = ge_p3_0
      /\ \A k \in 0 .. Digits - 1 : x[k] \in (IF k < j THEN -8 .. 7 ELSE 0 .. 15)
      /\ RoomOnTop(x, j, r)
      /\ Sigma(x, 0 .. Digits - 1) + r * Place[j] = s
  BY DEF MulInv
<1>2. Digits \in Nat /\ j + 1 \in 0 .. Digits - 1 /\ Digits - 1 \in 0 .. Digits - 1 /\ j # Digits - 1
  BY <1>1, Sizes
<1>3. x[j] \in 0 .. 15
  BY <1>1
<1>4. n \in {0, 1} /\ (x[j] + r) - 16 * n \in -8 .. 7
  <2>. DEFINE t == x[j] + r
  <2>1. t \in 0 .. 16
    <3>. DEFINE d == x[j]
    <3>1. d \in 0 .. 15 /\ r \in {0, 1}
      BY <1>1, <1>3, Zenon
    <3>. HIDE DEF d
    <3>2. d + r \in 0 .. 16
      BY <3>1
    <3>. QED  BY <3>2 DEF d
  <2>2. n = (t + 8) \div 16
    BY DEF Carry
  <2>. HIDE DEF t
  <2>3. n \in {0, 1} /\ t - 16 * n \in -8 .. 7
    BY <2>1, <2>2
  <2>. QED  BY <2>3 DEF t
<1>5. y \in DigitStrings /\ y[j] = (x[j] + r) - 16 * n
      /\ \A k \in 0 .. Digits - 1 : k # j => y[k] = x[k]
  OBVIOUS
<1>6. \A k \in 0 .. Digits - 1 : y[k] \in (IF k < j + 1 THEN -8 .. 7 ELSE 0 .. 15)
  <2>. SUFFICES ASSUME NEW k \in 0 .. Digits - 1
                PROVE  y[k] \in (IF k < j + 1 THEN -8 .. 7 ELSE 0 .. 15)
    OBVIOUS
  <2>1. CASE k = j
    BY <1>1, <1>4, <1>5, <2>1
  <2>2. CASE k < j
    <3>1. x[k] \in -8 .. 7 /\ y[k] = x[k] /\ k < j + 1
      BY <1>1, <1>5, <2>2
    <3>. QED  BY <3>1
  <2>3. CASE k > j
    <3>1. x[k] \in 0 .. 15 /\ y[k] = x[k] /\ ~(k < j + 1)
      BY <1>1, <1>5, <2>3
    <3>. QED  BY <3>1
  <2>. QED  BY <1>1, <2>1, <2>2, <2>3
<1>7. RoomOnTop(y, j + 1, n)
  <2>. DEFINE top == Digits - 1  below == Digits - 2
  <2>1. top \in 0 .. Digits - 1 /\ below \in 0 .. Digits - 1 /\ below = top - 1
        /\ j < top /\ j \in Int /\ top \in Int
    BY <1>1, Sizes
  <2>2. y[top] = x[top]
    BY <1>5, <2>1
  <2>3. CASE x[top] \in 0 .. 7
    BY <2>2, <2>3 DEF RoomOnTop
  <2>4. CASE x[top] = 8 /\ x[below] \in 0 .. 6
    <3>1. CASE j + 1 < top
      <4>1. y[below] = x[below]
        BY <1>5, <2>1, <3>1
      <4>. QED  BY <2>1, <2>2, <2>4, <3>1, <4>1 DEF RoomOnTop
    <3>2. CASE j + 1 = top
      <4>1. x[j] \in 0 .. 6 /\ r \in {0, 1}
        <5>1. j = below
          BY <2>1, <3>2
        <5>. QED  BY <1>1, <2>4, <5>1
      <4>2. n = 0
        <5>. DEFINE t == x[j]
        <5>1. t \in 0 .. 6
          BY <4>1
        <5>2. n = (t + r + 8) \div 16
          BY Zenon DEF Carry
        <5>. HIDE DEF t
        <5>. QED  BY <4>1, <5>1, <5>2
      <4>. QED  BY <2>1, <2>2, <2>4, <3>2, <4>2 DEF RoomOnTop
    <3>. QED  BY <2>1, <3>1, <3>2
  <2>5. x[top] \in 0 .. 7 \/ (x[top] = 8 /\ x[below] \in 0 .. 6)
    BY <1>1, <2>1 DEF RoomOnTop
  <2>. QED  BY <2>3, <2>4, <2>5
<1>8. Sigma(y, 0 .. Digits - 1) = Sigma(x, 0 .. Digits - 1) + (y[j] - x[j]) * Place[j]
  <2>1. x \in DigitStrings /\ j \in 0 .. Digits - 1
    BY <1>1, <1>2
  <2>. QED  BY <2>1, DigitChange
<1>9. Sigma(x, 0 .. Digits - 1) \in Int
  BY <1>1, SigmaType
<1>10. Sigma(y, 0 .. Digits - 1) + n * Place[j + 1] = s
  <2>. DEFINE q == Place[j]  v == Sigma(x, 0 .. Digits - 1)
  <2>1. q \in Nat /\ Place[j + 1] = 16 * q
    BY <1>1, NextPlace
  <2>2. v + r * q = s /\ v \in Int
    BY <1>1, <1>9
  <2>3. y[j] - x[j] = r - 16 * n
    <3>. DEFINE t == x[j]
    <3>1. t \in Int
      BY <1>3
    <3>2. r \in Int /\ n \in Int
      BY <1>1, <1>4
    <3>. HIDE DEF t
    <3>3. ((t + r) - 16 * n) - t = r - 16 * n
      BY <3>1, <3>2
    <3>. QED  BY <1>5, <3>3 DEF t
  <2>. HIDE DEF q, v
  <2>4. (r - 16 * n) * q = r * q - n * (16 * q)
    BY <1>1, <1>4, <2>1
  <2>5. Sigma(y, 0 .. Digits - 1) = v + (r - 16 * n) * q
    BY <1>8, <2>3 DEF q, v
  <2>6. r * q \in Int /\ n * (16 * q) \in Int
    BY <1>1, <1>4, <2>1
  <2>. QED  BY <2>1, <2>2, <2>4, <2>5, <2>6
<1>. QED  BY <1>1, <1>2, <1>4, <1>5, <1>6, <1>7, <1>10 DEF MulInv

\* The last digit absorbs the last carry.
LEMMA MulRecodeLast ==
  ASSUME NEW s, NEW x, NEW r, NEW p, NEW j, j = Digits - 1, MulInv("recode", j, s, x, r, p),
         NEW y \in DigitStrings, y[j] = x[j] + r,
         \A k \in 0 .. Digits - 1 : k # j => y[k] = x[k]
  PROVE  MulInv("odd", 1, s, y, r, p)
<1>1. /\ s \in Nat /\ x \in DigitStrings /\ r \in {0, 1} /\ p = ge_p3_0
      /\ \A k \in 0 .. Digits - 1 : x[k] \in (IF k < j THEN -8 .. 7 ELSE 0 .. 15)
      /\ RoomOnTop(x, j, r)
      /\ Sigma(x, 0 .. Digits - 1) + r * Place[j] = s
  BY DEF MulInv
<1>2. Digits \in Nat /\ j \in 0 .. Digits - 1 /\ 1 \in 1 .. Digits + 1
  BY Sizes
<1>3. x[j] + r \in 0 .. 8
  <2>1. r \in {0, 1} /\ (x[j] \in 0 .. 7 \/ (x[j] = 8 /\ r = 0))
    BY <1>1, <1>2 DEF RoomOnTop
  <2>. QED  BY <2>1
<1>4. y \in DigitStrings /\ y[j] = x[j] + r
      /\ \A k \in 0 .. Digits - 1 : k # j => y[k] = x[k]
  OBVIOUS
<1>5. \A k \in 0 .. Digits - 1 : y[k] \in -8 .. 8
  <2>. SUFFICES ASSUME NEW k \in 0 .. Digits - 1 PROVE y[k] \in -8 .. 8
    OBVIOUS
  <2>1. CASE k = j
    BY <1>3, <1>4, <2>1
  <2>2. CASE k # j
    <3>1. x[k] \in -8 .. 7 /\ y[k] = x[k]
      BY <1>1, <1>2, <1>4, <2>2
    <3>. QED  BY <3>1
  <2>. QED  BY <2>1, <2>2
<1>6. Sigma(y, 0 .. Digits - 1) = Sigma(x, 0 .. Digits - 1) + (y[j] - x[j]) * Place[j]
  <2>1. x \in DigitStrings /\ j \in 0 .. Digits - 1
    BY <1>1, <1>2
  <2>. QED  BY <1>4, <2>1, DigitChange, ZenonT(30)
<1>7. Sigma(y, 0 .. Digits - 1) = s
  <2>1. y[j] - x[j] = r
    <3>. DEFINE t == x[j]
    <3>1. t \in Int /\ r \in Int /\ y[j] = t + r
      BY <1>1, <1>2, <1>4 DEF DigitStrings
    <3>. HIDE DEF t
    <3>2. (t + r) - t = r
      BY <3>1
    <3>. QED  BY <3>1, <3>2 DEF t
  <2>. QED  BY <1>1, <1>6, <2>1
<1>8. Odd(1) = {}
  BY DEF Odd
<1>9. Sigma(y, Odd(1)) = 0
  BY <1>4, <1>8, SigmaSplit
<1>10. 0 % 16 = 0 /\ 0 \div 16 = 0 /\ 1 % 2 = 1
  OBVIOUS
<1>11. Stands(p, 0)
  BY <1>1, NeutralStands
<1>12. Sigma(y, Odd(1)) % 16 = 0 /\ Sigma(y, Odd(1)) \div 16 = 0
  BY <1>9, <1>10
<1>. QED  BY <1>1, <1>2, <1>4, <1>5, <1>7, <1>10, <1>11, <1>12, Zenon DEF MulInv

\* Adding the digits at odd positions: they count for 1/16.
LEMMA MulAddOdd ==
  ASSUME NEW j, NEW s, NEW x, NEW r, NEW p, MulInv("odd", j, s, x, r, p), j < Digits,
         NEW q, q = ge_p1p1_to_p3(ge_madd(p, select(j \div 2, x[j])))
  PROVE  MulInv("odd", j + 2, s, x, r, q)
<1>1. /\ s \in Nat /\ x \in DigitStrings /\ r \in {0, 1}
      /\ Sigma(x, 0 .. Digits - 1) = s
      /\ \A k \in 0 .. Digits - 1 : x[k] \in -8 .. 8
      /\ j \in 1 .. Digits + 1 /\ j % 2 = 1
      /\ Sigma(x, Odd(j)) % 16 = 0 /\ Stands(p, Sigma(x, Odd(j)) \div 16)
  BY DEF MulInv
<1>2. j \in 0 .. Digits - 1 /\ j - 1 \in 0 .. Digits - 1 /\ (j - 1) + 1 = j
      /\ j + 2 \in 1 .. Digits + 1 /\ (j + 2) % 2 = 1
  BY <1>1, Sizes
<1>. DEFINE h == j \div 2
<1>3. 2 * h = j - 1 /\ h \in 0 .. Bytes - 1
  BY <1>1, <1>2, Sizes
<1>. DEFINE v == Sigma(x, Odd(j))  w == v \div 16  g == Place[j - 1]  d == x[j]
<1>4. v \in Int
  BY <1>1, SigmaType
<1>5. g \in Nat /\ Place[j] = 16 * g
  BY <1>2, NextPlace
<1>6. d \in -8 .. 8
  BY <1>1, <1>2
<1>7. Sigma(x, Odd(j + 2)) = v + d * Place[j]
  <2>. DEFINE S == Odd(j)  T == Odd(j + 2)
  <2>1. Counted(x, T, j) = x[j] /\ Counted(x, S, j) = 0
    BY <1>1, <1>2 DEF Counted, Odd
  <2>2. \A k \in 0 .. Digits - 1 : k # j => Counted(x, T, k) = Counted(x, S, k)
    <3>. SUFFICES ASSUME NEW k \in 0 .. Digits - 1, k # j
                  PROVE  k \in T <=> k \in S
      BY DEF Counted
    <3>. QED  BY <1>1, <1>2, Sizes DEF Odd
  <2>. HIDE DEF S, T, v
  <2>3. Sigma(x, T) = Sigma(x, S) + (Counted(x, T, j) - Counted(x, S, j)) * Place[j]
    BY <1>1, <1>2, <2>2, SigmaChange
  <2>4. d - 0 = d
    BY <1>6
  <2>5. Sigma(x, T) = Sigma(x, S) + d * Place[j]
    BY <2>1, <2>3, <2>4
  <2>. QED  BY <2>5 DEF v, S, T
<1>. HIDE DEF v, g, d, h
<1>8. v = 16 * w /\ w \in Int
  BY <1>1, <1>4 DEF v
<1>. HIDE DEF w
<1>9. d * g \in Int /\ d * (16 * g) = 16 * (d * g)
  BY <1>5, <1>6
<1>10. Sigma(x, Odd(j + 2)) = 16 * (w + d * g)
  BY <1>5, <1>7, <1>8, <1>9
<1>. DEFINE u == w + d * g
<1>11. u \in Int
  BY <1>8, <1>9
<1>12. Stands(q, u)
  <2>1. Stands(p, w)
    BY <1>1 DEF v, w
  <2>2. Stands(q, w + d * Place[2 * h])
    BY <1>3, <1>6, <1>8, <2>1, AddSelected DEF d, h
  <2>. QED  BY <1>3, <2>2 DEF g
<1>. HIDE DEF u
<1>13. Sigma(x, Odd(j + 2)) = 16 * u
  BY <1>10 DEF u
<1>14. (16 * u) % 16 = 0 /\ (16 * u) \div 16 = u
  BY <1>11
<1>15. Sigma(x, Odd(j + 2)) % 16 = 0 /\ Sigma(x, Odd(j + 2)) \div 16 = u
  BY <1>13, <1>14
<1>. QED  BY <1>1, <1>2, <1>12, <1>15, Zenon DEF MulInv

\* Sixteen times the sum is what the digits at odd positions count for.
LEMMA MulSixteen ==
  ASSUME NEW j, NEW s, NEW x, NEW r, NEW p, MulInv("odd", j, s, x, r, p), j >= Digits,
         NEW q, NEW two, NEW four, NEW eight,
         two = ge_p1p1_to_p2(ge_p3_dbl(p)), four = ge_p1p1_to_p2(ge_p2_dbl(two)),
         eight = ge_p1p1_to_p2(ge_p2_dbl(four)), q = ge_p1p1_to_p3(ge_p2_dbl(eight))
  PROVE  MulInv("even", 0, s, x, r, q)
<1>1. /\ s \in Nat /\ x \in DigitStrings /\ r \in {0, 1}
      /\ Sigma(x, 0 .. Digits - 1) = s
      /\ \A k \in 0 .. Digits - 1 : x[k] \in -8 .. 8
      /\ j \in 1 .. Digits + 1 /\ j % 2 = 1
      /\ Sigma(x, Odd(j)) % 16 = 0 /\ Stands(p, Sigma(x, Odd(j)) \div 16)
  BY DEF MulInv
<1>2. Digits \in Nat /\ 0 \in 0 .. Digits /\ 0 % 2 = 0
  BY Sizes
<1>3. Odd(j) = Odd(Digits) /\ Even(0) = {}
  BY <1>1, Sizes DEF Odd, Even
<1>. DEFINE v == Sigma(x, Odd(Digits))  w == v \div 16
<1>4. v \in Int /\ v % 16 = 0 /\ Stands(p, w)
  BY <1>1, <1>3, SigmaType
<1>. HIDE DEF v
<1>5. v = 16 * w /\ w \in Int
  BY <1>4
<1>. HIDE DEF w
<1>6. Stands(q, 16 * w)
  BY <1>4, <1>5, FourDoublings
<1>7. Sigma(x, Even(0)) = 0
  BY <1>1, <1>3, SigmaSplit
<1>8. Sigma(x, Odd(Digits)) + Sigma(x, Even(0)) = 16 * w
  BY <1>4, <1>5, <1>7 DEF v
<1>. QED  BY <1>1, <1>2, <1>6, <1>8, Zenon DEF MulInv

\* Adding the digits at even positions.
LEMMA MulAddEven ==
  ASSUME NEW j, NEW s, NEW x, NEW r, NEW p, MulInv("even", j, s, x, r, p), j < Digits,
         NEW q, q = ge_p1p1_to_p3(ge_madd(p, select(j \div 2, x[j])))
  PROVE  MulInv("even", j + 2, s, x, r, q)
<1>1. /\ s \in Nat /\ x \in DigitStrings /\ r \in {0, 1}
      /\ Sigma(x, 0 .. Digits - 1) = s
      /\ \A k \in 0 .. Digits - 1 : x[k] \in -8 .. 8
      /\ j \in 0 .. Digits /\ j % 2 = 0
      /\ Stands(p, Sigma(x, Odd(Digits)) + Sigma(x, Even(j)))
  BY DEF MulInv
<1>2. j \in 0 .. Digits - 1 /\ j + 2 \in 0 .. Digits /\ (j + 2) % 2 = 0
  BY <1>1, Sizes
<1>. DEFINE h == j \div 2
<1>3. 2 * h = j /\ h \in 0 .. Bytes - 1
  BY <1>1, <1>2, Sizes
<1>. DEFINE v == Sigma(x, Odd(Digits))  w == Sigma(x, Even(j))  d == x[j]
<1>4. v \in Int /\ w \in Int
  BY <1>1, SigmaType
<1>5. d \in -8 .. 8
  BY <1>1, <1>2
<1>6. Sigma(x, Even(j + 2)) = w + d * Place[j]
  <2>. DEFINE S == Even(j)  T == Even(j + 2)
  <2>1. Counted(x, T, j) = x[j] /\ Counted(x, S, j) = 0
    BY <1>1, <1>2 DEF Counted, Even
  <2>2. \A k \in 0 .. Digits - 1 : k # j => Counted(x, T, k) = Counted(x, S, k)
    <3>. SUFFICES ASSUME NEW k \in 0 .. Digits - 1, k # j
                  PROVE  k \in T <=> k \in S
      BY DEF Counted
    <3>. QED  BY <1>1, <1>2, Sizes DEF Even
  <2>. HIDE DEF S, T, w
  <2>3. Sigma(x, T) = Sigma(x, S) + (Counted(x, T, j) - Counted(x, S, j)) * Place[j]
    BY <1>1, <1>2, <2>2, SigmaChange
  <2>4. d - 0 = d
    BY <1>5
  <2>5. Sigma(x, T) = Sigma(x, S) + d * Place[j]
    BY <2>1, <2>3, <2>4
  <2>. QED  BY <2>5 DEF w, S, T
<1>. HIDE DEF v, w, d, h
<1>7. Stands(q, (v + w) + d * Place[j]) /\ d * Place[j] \in Int
  <2>1. Stands(p, v + w) /\ v + w \in Int
    BY <1>1, <1>4 DEF v, w
  <2>2. Stands(q, (v + w) + d * Place[2 * h]) /\ d * Place[2 * h] \in Int
    BY <1>3, <1>5, <2>1, AddSelected DEF d, h
  <2>. QED  BY <1>3, <2>2
<1>8. v + Sigma(x, Even(j + 2)) = (v + w) + d * Place[j]
  <2>. DEFINE g == d * Place[j]
  <2>1. g \in Int
    BY <1>7
  <2>. HIDE DEF g
  <2>2. Sigma(x, Even(j + 2)) = w + g
    BY <1>6 DEF g
  <2>3. v + Sigma(x, Even(j + 2)) = (v + w) + g
    BY <1>4, <2>1, <2>2
  <2>. QED  BY <2>3 DEF g
<1>9. Stands(q, Sigma(x, Odd(Digits)) + Sigma(x, Even(j + 2)))
  BY <1>7, <1>8 DEF v
<1>. QED  BY <1>1, <1>2, <1>9, Zenon DEF MulInv

\* All the digits have been added.
LEMMA MulReturn ==
  ASSUME NEW j, NEW s, NEW x, NEW r, NEW p, MulInv("even", j, s, x, r, p), j >= Digits
  PROVE  MulInv("done", j, s, x, r, p)
<1>1. /\ s \in Nat /\ x \in DigitStrings /\ r \in {0, 1}
      /\ Sigma(x, 0 .. Digits - 1) = s
      /\ \A k \in 0 .. Digits - 1 : x[k] \in -8 .. 8
      /\ j \in 0 .. Digits
      /\ Stands(p, Sigma(x, Odd(Digits)) + Sigma(x, Even(j)))
  BY DEF MulInv
<1>2. j = Digits
  BY <1>1, Sizes
<1>3. Stands(p, s)
  BY <1>1, <1>2, SigmaSplit
<1>. QED  BY <1>1, <1>3, Zenon DEF MulInv

\* Where the multiplication is over, only the types are left.
LEMMA MulOver ==
  ASSUME NEW s \in Nat, NEW x \in DigitStrings, NEW r \in {0, 1},
         NEW c \in {"enter", "gather", "extract", "check", "left", "verify"}, NEW j, NEW p
  PROVE  MulInv(c, j, s, x, r, p)
BY DEF MulInv

\* ge_scalarmult_base keeps its invariant, from any input on.
LEMMA MultiplyKeeps ==
  /\ ScalarMultInit => ScalarMultInv
  /\ ScalarMultInv /\ ScalarMultStep => ScalarMultInv'
<1>1. ASSUME ScalarMultInit PROVE ScalarMultInv
  <2>1. /\ pc = "recode" /\ carry = 0 /\ i = 0 /\ A = ge_p3_0 /\ my_scalar \in Inputs
        /\ e = [k \in 0 .. Digits - 1 |-> Nibble(my_scalar, k)]
    BY <1>1 DEF ScalarMultInit
  <2>2. MulInv(pc, i, my_scalar, e, carry, A)
    BY <2>1, MulInit
  <2>. QED  BY <2>2, MulInvForm
<1>2. ASSUME ScalarMultInv, ScalarMultStep PROVE ScalarMultInv'
  <2>. SUFFICES MulInv(pc', i', my_scalar', e', carry', A')
    BY MulInvForm
  <2>1. MulInv(pc, i, my_scalar, e, carry, A)
    BY <1>2, MulInvForm
  <2>2. CASE Recode
    <3>. DEFINE n == Carry(e[i] + carry)  y == [e EXCEPT ![i] = (e[i] + carry) - 16 * n]
    <3>1. /\ pc = "recode" /\ i < Digits - 1 /\ carry' = n /\ e' = y /\ i' = i + 1
          /\ pc' = pc /\ my_scalar' = my_scalar /\ A' = A
      BY <2>2 DEF Recode
    <3>2. i \in 0 .. Digits - 1 /\ e \in DigitStrings /\ (e[i] + carry) - 16 * n \in Int
      <4>. DEFINE d == e[i] + carry
      <4>1. i \in 0 .. Digits - 1 /\ e \in DigitStrings /\ carry \in {0, 1}
        BY <2>1, <3>1, Zenon DEF MulInv
      <4>2. d \in Int
        BY <4>1 DEF DigitStrings
      <4>3. n = (d + 8) \div 16
        BY Zenon DEF Carry
      <4>. HIDE DEF d, n
      <4>4. d - 16 * n \in Int
        BY <4>2, <4>3
      <4>. QED  BY <4>1, <4>4 DEF d
    <3>3. /\ y \in DigitStrings /\ y[i] = (e[i] + carry) - 16 * n
          /\ \A k \in 0 .. Digits - 1 : k # i => y[k] = e[k]
      BY <3>2, DigitUpdate
    <3>. HIDE DEF y
    <3>4. MulInv("recode", i + 1, my_scalar, y, n, A)
      BY <2>1, <3>1, <3>3, MulRecode
    <3>. QED  BY <3>1, <3>4
  <2>3. CASE RecodeLast
    <3>. DEFINE y == [e EXCEPT ![i] = e[i] + carry]
    <3>1. /\ pc = "recode" /\ i = Digits - 1 /\ carry' = carry /\ e' = y /\ i' = 1
          /\ pc' = "odd" /\ my_scalar' = my_scalar /\ A' = A
      BY <2>3 DEF RecodeLast
    <3>2. i \in 0 .. Digits - 1 /\ e \in DigitStrings /\ e[i] + carry \in Int
      BY <2>1, <3>1 DEF MulInv, DigitStrings
    <3>3. /\ y \in DigitStrings /\ y[i] = e[i] + carry
          /\ \A k \in 0 .. Digits - 1 : k # i => y[k] = e[k]
      BY <3>2, DigitUpdate
    <3>. HIDE DEF y
    <3>4. MulInv("odd", 1, my_scalar, y, carry, A)
      BY <2>1, <3>1, <3>3, MulRecodeLast
    <3>. QED  BY <3>1, <3>4
  <2>4. CASE AddOdd
    BY <2>1, <2>4, MulAddOdd DEF AddOdd, AddDigit
  <2>5. CASE AddEven
    BY <2>1, <2>5, MulAddEven DEF AddEven, AddDigit
  <2>6. CASE TimesSixteen
    BY <2>1, <2>6, MulSixteen DEF TimesSixteen
  <2>7. CASE Return
    BY <2>1, <2>7, MulReturn DEF Return
  <2>. QED  BY <1>2, <2>2, <2>3, <2>4, <2>5, <2>6, <2>7 DEF ScalarMultStep
<1>. QED  BY <1>1, <1>2

-----------------------------------------------------------------------------
(***************************************************************************)
(* 5. The loops of the kernels.                                            *)
(***************************************************************************)
\* The sizes of the loops.
LEMMA LoopSizes ==
  /\ VANITY_BATCH \in Nat \ {0} /\ VANITY_BATCH - 1 \in Lanes /\ 0 \in Lanes
  /\ Iters \in Nat /\ VerifyCount \in Nat
  /\ Batches \in Nat /\ Batches * VANITY_BATCH = Iters
<1>1. VANITY_BATCH \in Nat \ {0} /\ Iters \in Nat /\ VerifyCount \in Nat /\ Iters % VANITY_BATCH = 0
  BY BatchAssumption
<1>2. VANITY_BATCH - 1 \in Lanes /\ 0 \in Lanes
  BY <1>1 DEF Lanes
<1>. DEFINE d == Iters \div VANITY_BATCH
<1>3. Iters = VANITY_BATCH * d + (Iters % VANITY_BATCH) /\ d \in Int
  <2>1. Iters \in Int /\ VANITY_BATCH \in Int /\ VANITY_BATCH > 0
    BY <1>1
  <2>. QED  BY <2>1, Quotient
<1>. HIDE DEF d
<1>4. d * VANITY_BATCH = Iters
  <2>1. VANITY_BATCH * d \in Int /\ VANITY_BATCH * d = d * VANITY_BATCH
    BY <1>1, <1>3
  <2>. QED  BY <1>1, <1>3, <2>1
<1>5. d \in Nat
  <2>1. CASE d <= -1
    <3>1. d * VANITY_BATCH <= (-1) * VANITY_BATCH /\ (-1) * VANITY_BATCH = -VANITY_BATCH
      BY <1>1, <1>3, <2>1, ProductGrows
    <3>. QED  BY <1>1, <1>4, <3>1
  <2>. QED  BY <1>3, <2>1
<1>. QED  BY <1>1, <1>2, <1>4, <1>5 DEF Batches, d

\* A lane of a batch that is to be run belongs to the iterations of the thread.
LEMMA LaneInside ==
  ASSUME NEW bb \in 0 .. Batches, bb < Batches, NEW j \in Lanes
  PROVE  /\ bb * VANITY_BATCH + j \in 0 .. Iters - 1
         /\ bb * VANITY_BATCH \in Nat /\ (bb + 1) * VANITY_BATCH = bb * VANITY_BATCH + VANITY_BATCH
<1>. DEFINE V == VANITY_BATCH  m == bb * V
<1>1. V \in Nat \ {0} /\ Batches \in Nat /\ Iters \in Nat /\ Batches * V = Iters
  BY LoopSizes
<1>2. j \in 0 .. V - 1
  BY DEF Lanes
<1>. HIDE DEF V
<1>3. bb \in Nat /\ bb + 1 <= Batches
  BY <1>1
<1>4. (bb + 1) * V <= Batches * V
  BY <1>1, <1>3, ProductGrows
<1>5. m \in Nat /\ (bb + 1) * V = m + V
  BY <1>1, <1>3
<1>. HIDE DEF m
<1>6. m + j \in 0 .. Iters - 1
  BY <1>1, <1>2, <1>4, <1>5
<1>. QED  BY <1>5, <1>6 DEF m, V

\* The last entry of the first row of the table is 8 B.
LEMMA EightBForm == EightB = PrecompOf(Times(8))
<1>1. 0 \in 0 .. Bytes - 1 /\ 7 \in 0 .. 7 /\ 2 * 0 = 0
  BY Sizes
<1>2. Place[2 * 0] = 1 /\ (7 + 1) * 1 = 8
  BY <1>1, PlaceFunction
<1>3. base[0][7] = PrecompOf(Times((7 + 1) * Place[2 * 0]))
  BY <1>1 DEF base
<1>. QED  BY <1>2, <1>3 DEF EightB

\* A step of a chain.
LEMMA NextPoint ==
  ASSUME NEW n \in Int, NEW p, Stands(p, n)
  PROVE  Stands(ge_p1p1_to_p3(ge_madd(p, EightB)), n + 8)
BY EightBForm, AddMultiple

\* The affine point of a ge_p3, with the inverse of its Z.
LEMMA StandsForm ==
  ASSUME NEW n \in Int, NEW p, Stands(p, n)
  PROVE  /\ p.X \in Fe /\ p.Y \in Fe /\ p.Z \in Fe /\ p.Z # 0
         /\ fe_mul(p.X, fe_invert(p.Z)) = Times(n)[1]
         /\ fe_mul(p.Y, fe_invert(p.Z)) = Times(n)[2]
<1>1. p \in [X : Fe, Y : Fe, Z : Fe, T : Fe] /\ p.Z # 0 /\ Affine(p) = Times(n)
  BY DEF Stands, Valid
<1>2. p.X \in Fe /\ p.Y \in Fe /\ p.Z \in Fe
  BY <1>1
<1>3. /\ Affine(p)[1] = fe_mul(p.X, fe_invert(p.Z))
      /\ Affine(p)[2] = fe_mul(p.Y, fe_invert(p.Z))
  BY DEF Affine
<1>. QED  BY <1>1, <1>2, <1>3

\* Unwinding a product of Z by one lane: from the inverse r of q z, r q is the
\* inverse of z, and r z that of q.
LEMMA Unwind ==
  ASSUME NEW r \in Fe, NEW q \in Fe, NEW z \in Fe, fe_mul(r, fe_mul(q, z)) = 1
  PROVE  fe_mul(r, q) = fe_invert(z) /\ fe_mul(fe_mul(r, z), q) = 1
<1>1. r \in Int /\ q \in Int /\ z \in Int /\ Res(r) = r /\ Res(q) = q /\ Res(z) = z
  BY ResOfElement
<1>2. fe_mul(q, z) = Res(q * z) /\ q * z \in Int
  BY <1>1, MulForm
<1>3. fe_mul(r, fe_mul(q, z)) = Res(r * (q * z))
  BY <1>1, <1>2, MulForm
<1>4. fe_mul(r, q) = Res(r * q) /\ r * q \in Int /\ fe_mul(r, z) = Res(r * z) /\ r * z \in Int
  BY <1>1, MulForm
<1>5. fe_mul(fe_mul(r, q), z) = Res((r * q) * z)
  BY <1>1, <1>4, MulForm
<1>6. fe_mul(fe_mul(r, z), q) = Res((r * z) * q)
  BY <1>1, <1>4, MulForm
<1>7. (r * q) * z = r * (q * z) /\ (r * z) * q = r * (q * z)
  BY <1>1, Regroup
<1>8. fe_mul(fe_mul(r, q), z) = 1 /\ fe_mul(fe_mul(r, z), q) = 1
  BY <1>3, <1>5, <1>6, <1>7
<1>9. fe_mul(r, q) \in Fe
  BY FieldTypes
<1>. QED  BY <1>8, <1>9, InverseUnique

\* A product of field elements other than 0.
LEMMA ProductNotZero ==
  ASSUME NEW f \in Fe, NEW g \in Fe, f # 0, g # 0
  PROVE  fe_mul(f, g) \in Fe /\ fe_mul(f, g) # 0
<1>1. f \in Int /\ g \in Int /\ Res(f) = f /\ Res(g) = g
  BY ResOfElement
<1>2. fe_mul(f, g) = Res(f * g)
  BY <1>1, MulForm
<1>. QED  BY <1>1, <1>2, NoZeroProduct, FieldTypes

-----------------------------------------------------------------------------
\* What a lane holds of its point, before and after the inversion: n is the
\* scalar of the batch's first lane.
GatheredAt(q, n, x, y, z, k) ==
  /\ z[k] # 0
  /\ fe_mul(y[k], fe_invert(z[k])) = Times(n + 8 * k)[2]
  /\ q = "search" => fe_mul(x[k], fe_invert(z[k])) = Times(n + 8 * k)[1]

ExtractedAt(q, n, x, y, z, k) ==
  /\ fe_mul(y[k], z[k]) = Times(n + 8 * k)[2]
  /\ q = "search" => fe_mul(x[k], z[k]) = Times(n + 8 * k)[1]

ProductsAt(z, g, n) ==
  \A k \in 0 .. n - 1 :
    g[k] # 0 /\ g[k] = IF k = 0 THEN z[0] ELSE fe_mul(g[k - 1], z[k])

LaneValues == [Lanes -> Fe]

\* What phase 1 writes for a lane, and phase 3.
Recorded(q, j, p, x, y, z, g, x1, y1, z1, g1) ==
  /\ x1 = (IF q = "count" THEN x ELSE [x EXCEPT ![j] = p.X])
  /\ y1 = [y EXCEPT ![j] = p.Y] /\ z1 = [z EXCEPT ![j] = p.Z]
  /\ g1 = [g EXCEPT ![j] = IF j = 0 THEN p.Z ELSE fe_mul(g[j - 1], p.Z)]

Unwound(j, z, g, r, z1, r1) ==
  z1 = [z EXCEPT ![j] = fe_mul(r, g[j - 1])] /\ r1 = fe_mul(r, z[j])

\* Phase 1 records a lane.
LEMMA GatherLane ==
  ASSUME NEW q, NEW n \in Int, NEW p, NEW j \in Lanes, Stands(p, n + 8 * j),
         NEW x \in LaneValues, NEW y \in LaneValues, NEW z \in LaneValues,
         NEW g \in LaneValues,
         \A k \in 0 .. j - 1 : GatheredAt(q, n, x, y, z, k),
         ProductsAt(z, g, j),
         NEW x1, NEW y1, NEW z1, NEW g1, Recorded(q, j, p, x, y, z, g, x1, y1, z1, g1)
  PROVE  /\ x1 \in LaneValues /\ y1 \in LaneValues /\ z1 \in LaneValues /\ g1 \in LaneValues
         /\ Stands(ge_p1p1_to_p3(ge_madd(p, EightB)), n + 8 * (j + 1))
         /\ \A k \in 0 .. j : GatheredAt(q, n, x1, y1, z1, k)
         /\ ProductsAt(z1, g1, j + 1)
<1>1. j \in Int /\ j >= 0 /\ n + 8 * j \in Int /\ (n + 8 * j) + 8 = n + 8 * (j + 1)
      /\ j \in 0 .. VANITY_BATCH - 1 /\ VANITY_BATCH \in Nat
  BY LoopSizes DEF Lanes
<1>2. /\ p.X \in Fe /\ p.Y \in Fe /\ p.Z \in Fe /\ p.Z # 0
      /\ fe_mul(p.X, fe_invert(p.Z)) = Times(n + 8 * j)[1]
      /\ fe_mul(p.Y, fe_invert(p.Z)) = Times(n + 8 * j)[2]
  BY <1>1, StandsForm
<1>3. Stands(ge_p1p1_to_p3(ge_madd(p, EightB)), n + 8 * (j + 1))
  BY <1>1, NextPoint
<1>. DEFINE v == IF j = 0 THEN p.Z ELSE fe_mul(g[j - 1], p.Z)
<1>4. v \in Fe /\ v # 0
  <2>1. CASE j = 0
    BY <1>2, <2>1
  <2>2. CASE j # 0
    <3>1. j - 1 \in Lanes /\ j - 1 \in 0 .. j - 1
      BY <1>1, <2>2 DEF Lanes
    <3>2. g[j - 1] \in Fe /\ g[j - 1] # 0
      BY <3>1 DEF LaneValues, ProductsAt
    <3>3. fe_mul(g[j - 1], p.Z) \in Fe /\ fe_mul(g[j - 1], p.Z) # 0
      BY <1>2, <3>2, ProductNotZero
    <3>. QED  BY <2>2, <3>3
  <2>. QED  BY <2>1, <2>2
<1>5. x1 \in LaneValues /\ y1 \in LaneValues /\ z1 \in LaneValues /\ g1 \in LaneValues
  BY <1>2, <1>4 DEF LaneValues, Recorded
<1>6. /\ y1[j] = p.Y /\ z1[j] = p.Z /\ g1[j] = v /\ (q = "search" => x1[j] = p.X)
      /\ \A k \in Lanes : k # j => y1[k] = y[k] /\ z1[k] = z[k] /\ g1[k] = g[k] /\ x1[k] = x[k]
  BY DEF LaneValues, Recorded
<1>7. \A k \in 0 .. j - 1 : k \in Lanes /\ k # j
  BY <1>1 DEF Lanes
<1>8. ASSUME NEW k \in 0 .. j PROVE GatheredAt(q, n, x1, y1, z1, k)
  <2>1. CASE k = j
    BY <1>2, <1>6, <2>1 DEF GatheredAt
  <2>2. CASE k # j
    <3>1. k \in 0 .. j - 1
      BY <1>1, <2>2
    <3>2. GatheredAt(q, n, x, y, z, k)
      BY <3>1
    <3>3. y1[k] = y[k] /\ z1[k] = z[k] /\ x1[k] = x[k]
      BY <1>6, <1>7, <3>1
    <3>. QED  BY <3>2, <3>3, Zenon DEF GatheredAt
  <2>. QED  BY <2>1, <2>2
<1>9. ProductsAt(z1, g1, j + 1)
  <2>. SUFFICES ASSUME NEW k \in 0 .. j
                PROVE  g1[k] # 0 /\ g1[k] = IF k = 0 THEN z1[0] ELSE fe_mul(g1[k - 1], z1[k])
    BY <1>1 DEF ProductsAt
  <2>1. CASE k = j
    <3>1. CASE j = 0
      BY <1>4, <1>6, <2>1, <3>1
    <3>2. CASE j # 0
      <4>1. j - 1 \in 0 .. j - 1
        BY <1>1, <3>2
      <4>2. g1[j - 1] = g[j - 1]
        BY <1>6, <1>7, <4>1
      <4>. QED  BY <1>4, <1>6, <2>1, <3>2, <4>2
    <3>. QED  BY <3>1, <3>2
  <2>2. CASE k # j
    <3>1. k \in 0 .. j - 1 /\ (k # 0 => k - 1 \in 0 .. j - 1) /\ 0 \in 0 .. j - 1
      BY <1>1, <2>2
    <3>2. g[k] # 0 /\ g[k] = IF k = 0 THEN z[0] ELSE fe_mul(g[k - 1], z[k])
      BY <3>1 DEF ProductsAt
    <3>3. g1[k] = g[k] /\ z1[k] = z[k] /\ z1[0] = z[0] /\ (k # 0 => g1[k - 1] = g[k - 1])
      BY <1>6, <1>7, <3>1
    <3>. QED  BY <3>2, <3>3
  <2>. QED  BY <2>1, <2>2
<1>. QED  BY <1>3, <1>5, <1>8, <1>9

\* Phase 3 turns the Z of a lane into its inverse.
LEMMA ExtractLaneForm ==
  ASSUME NEW q, NEW n \in Int, NEW j \in Lanes, j > 0,
         NEW x \in LaneValues, NEW y \in LaneValues, NEW z \in LaneValues,
         NEW g \in LaneValues, NEW r \in Fe,
         ProductsAt(z, g, j + 1), fe_mul(r, g[j]) = 1,
         \A k \in Lanes : IF k <= j THEN GatheredAt(q, n, x, y, z, k)
                                    ELSE ExtractedAt(q, n, x, y, z, k),
         NEW z1, NEW r1, Unwound(j, z, g, r, z1, r1)
  PROVE  /\ z1 \in LaneValues /\ r1 \in Fe /\ j - 1 \in Lanes
         /\ ProductsAt(z1, g, j) /\ fe_mul(r1, g[j - 1]) = 1
         /\ \A k \in Lanes : IF k <= j - 1 THEN GatheredAt(q, n, x, y, z1, k)
                                           ELSE ExtractedAt(q, n, x, y, z1, k)
<1>1. /\ j \in Int /\ j - 1 \in Lanes /\ j \in 0 .. (j + 1) - 1
      /\ VANITY_BATCH \in Nat /\ j \in 0 .. VANITY_BATCH - 1
  BY LoopSizes DEF Lanes
<1>2. z[j] \in Fe /\ g[j] \in Fe /\ g[j - 1] \in Fe
  BY <1>1 DEF LaneValues
<1>3. g[j] = fe_mul(g[j - 1], z[j])
  BY <1>1 DEF ProductsAt
<1>4. fe_mul(r, g[j - 1]) = fe_invert(z[j]) /\ fe_mul(r1, g[j - 1]) = 1
  BY <1>2, <1>3, Unwind DEF Unwound
<1>5. z1 \in LaneValues /\ r1 \in Fe
  <2>1. fe_mul(r, g[j - 1]) \in Fe /\ fe_mul(r, z[j]) \in Fe
    BY <1>2, FieldTypes
  <2>. QED  BY <2>1 DEF LaneValues, Unwound
<1>6. z1[j] = fe_invert(z[j]) /\ \A k \in Lanes : k # j => z1[k] = z[k]
  BY <1>4 DEF LaneValues, Unwound
<1>7. ProductsAt(z1, g, j)
  <2>. SUFFICES ASSUME NEW k \in 0 .. j - 1
                PROVE  g[k] # 0 /\ g[k] = IF k = 0 THEN z1[0] ELSE fe_mul(g[k - 1], z1[k])
    BY DEF ProductsAt
  <2>1. k \in 0 .. (j + 1) - 1 /\ k \in Lanes /\ k # j /\ 0 \in Lanes /\ 0 # j
    BY <1>1 DEF Lanes
  <2>2. z1[k] = z[k] /\ z1[0] = z[0]
    BY <1>6, <2>1
  <2>3. g[k] # 0 /\ g[k] = IF k = 0 THEN z[0] ELSE fe_mul(g[k - 1], z[k])
    BY <2>1 DEF ProductsAt
  <2>. QED  BY <2>2, <2>3
<1>8. ASSUME NEW k \in Lanes
      PROVE  IF k <= j - 1 THEN GatheredAt(q, n, x, y, z1, k) ELSE ExtractedAt(q, n, x, y, z1, k)
  <2>0. k \in Int
    BY DEF Lanes
  <2>1. CASE k = j
    <3>1. GatheredAt(q, n, x, y, z, j)
      BY <1>1
    <3>2. ExtractedAt(q, n, x, y, z1, j)
      BY <1>6, <3>1, Zenon DEF GatheredAt, ExtractedAt
    <3>. QED  BY <1>1, <2>1, <3>2
  <2>2. CASE k < j
    <3>1. GatheredAt(q, n, x, y, z, k) /\ z1[k] = z[k]
      BY <1>1, <1>6, <2>0, <2>2
    <3>2. GatheredAt(q, n, x, y, z1, k)
      BY <3>1, Zenon DEF GatheredAt
    <3>. QED  BY <1>1, <2>0, <2>2, <3>2
  <2>3. CASE k > j
    <3>1. ExtractedAt(q, n, x, y, z, k) /\ z1[k] = z[k]
      BY <1>1, <1>6, <2>0, <2>3
    <3>2. ExtractedAt(q, n, x, y, z1, k)
      BY <3>1, Zenon DEF ExtractedAt
    <3>. QED  BY <1>1, <2>0, <2>3, <3>2
  <2>. QED  BY <1>1, <2>0, <2>1, <2>2, <2>3
<1>. QED  BY <1>1, <1>4, <1>5, <1>7, <1>8

\* ... and the first lane's is what is left.
LEMMA ExtractFirstForm ==
  ASSUME NEW q, NEW n \in Int, NEW x \in LaneValues, NEW y \in LaneValues,
         NEW z \in LaneValues, NEW g \in LaneValues, NEW r \in Fe,
         ProductsAt(z, g, 1), fe_mul(r, g[0]) = 1,
         \A k \in Lanes : IF k <= 0 THEN GatheredAt(q, n, x, y, z, k)
                                    ELSE ExtractedAt(q, n, x, y, z, k),
         NEW z1, z1 = [z EXCEPT ![0] = r]
  PROVE  z1 \in LaneValues /\ \A k \in Lanes : ExtractedAt(q, n, x, y, z1, k)
<1>1. 0 \in Lanes /\ 0 \in 0 .. 1 - 1
  BY LoopSizes
<1>2. z[0] \in Fe /\ g[0] = z[0]
  BY <1>1 DEF LaneValues, ProductsAt
<1>3. fe_invert(z[0]) = r
  BY <1>2, InverseUnique
<1>4. z1 \in LaneValues /\ z1[0] = r /\ \A k \in Lanes : k # 0 => z1[k] = z[k]
  BY <1>1 DEF LaneValues
<1>5. ASSUME NEW k \in Lanes PROVE ExtractedAt(q, n, x, y, z1, k)
  <2>1. CASE k = 0
    <3>1. GatheredAt(q, n, x, y, z, 0)
      BY <1>1
    <3>. QED  BY <1>3, <1>4, <2>1, <3>1, Zenon DEF GatheredAt, ExtractedAt
  <2>2. CASE k # 0
    <3>1. ~(k <= 0)
      BY <2>2 DEF Lanes
    <3>2. ExtractedAt(q, n, x, y, z, k) /\ z1[k] = z[k]
      BY <1>4, <2>2, <3>1
    <3>. QED  BY <3>2, Zenon DEF ExtractedAt
  <2>. QED  BY <2>1, <2>2
<1>. QED  BY <1>4, <1>5

-----------------------------------------------------------------------------
\* BatchOK as a predicate of the control point c, the kernel q, the scalar s,
\* the batch number bb, the lane j, the point p and the arrays.
BatchInv(c, q, s, bb, j, p, x, y, z, g, r) ==
  LET n == s + 8 * (bb * VANITY_BATCH)
  IN  /\ c = "enter" => Stands(p, n)
      /\ c = "gather" => /\ j \in 0 .. VANITY_BATCH /\ bb < Batches
                         /\ Stands(p, n + 8 * j)
                         /\ \A k \in 0 .. j - 1 : GatheredAt(q, n, x, y, z, k)
                         /\ ProductsAt(z, g, j)
      /\ c \in {"extract", "check"} =>
           bb < Batches /\ Stands(p, s + 8 * ((bb + 1) * VANITY_BATCH))
      /\ c = "extract" => /\ j \in Lanes /\ ProductsAt(z, g, j + 1)
                          /\ fe_mul(r, g[j]) = 1
                          /\ \A k \in Lanes : IF k <= j THEN GatheredAt(q, n, x, y, z, k)
                                                        ELSE ExtractedAt(q, n, x, y, z, k)
      /\ c = "check" => /\ j \in 0 .. VANITY_BATCH
                        /\ \A k \in Lanes : ExtractedAt(q, n, x, y, z, k)

\* The scalar of a lane, counted from the start or from the first lane.
LEMMA LaneScalar ==
  ASSUME NEW s \in Int, NEW m \in Int, NEW k \in Int
  PROVE  s + 8 * (m + k) = (s + 8 * m) + 8 * k
OBVIOUS

\* It is BatchOK.
LEMMA BatchInvForm ==
  my_scalar \in Int /\ b \in Int =>
    (BatchOK <=> BatchInv(pc, kernel, my_scalar, b, i, A, batch_X, batch_Y, batch_Z,
                          products, running))
<1>. SUFFICES ASSUME my_scalar \in Int, b \in Int
              PROVE  BatchOK <=> BatchInv(pc, kernel, my_scalar, b, i, A, batch_X, batch_Y,
                                          batch_Z, products, running)
  OBVIOUS
<1>. DEFINE m == b * VANITY_BATCH  n == my_scalar + 8 * m
<1>1. m \in Int
  BY LoopSizes
<1>2. ASSUME NEW k \in Int
      PROVE  my_scalar + 8 * (m + k) = n + 8 * k
  <2>. HIDE DEF m
  <2>. QED  BY <1>1, LaneScalar
<1>. HIDE DEF m, n
<1>3. ASSUME NEW k \in Int
      PROVE  /\ Gathered(k) <=> GatheredAt(kernel, n, batch_X, batch_Y, batch_Z, k)
             /\ Extracted(k) <=> ExtractedAt(kernel, n, batch_X, batch_Y, batch_Z, k)
  <2>1. LanePoint(k) = Times(n + 8 * k)
    BY <1>2 DEF LanePoint, StepPoint, StepScalar, m
  <2>. QED  BY <2>1, Zenon DEF Gathered, GatheredAt, Extracted, ExtractedAt
<1>4. \A k : ProductsOK(k) <=> ProductsAt(batch_Z, products, k)
  BY DEF ProductsOK, ProductsAt
<1>5. Lanes \subseteq Int /\ \A k : 0 .. k - 1 \subseteq Int
  BY DEF Lanes
<1>6. /\ StepScalar(b * VANITY_BATCH) = n
      /\ StepScalar((b + 1) * VANITY_BATCH) = my_scalar + 8 * ((b + 1) * VANITY_BATCH)
  BY DEF StepScalar, n, m
<1>7. i \in 0 .. VANITY_BATCH => StepScalar(b * VANITY_BATCH + i) = n + 8 * i
  <2>1. i \in 0 .. VANITY_BATCH => i \in Int
    OBVIOUS
  <2>. QED  BY <1>2, <2>1 DEF StepScalar, m
<1>8. BatchInv(pc, kernel, my_scalar, b, i, A, batch_X, batch_Y, batch_Z, products, running)
      <=> /\ pc = "enter" => Stands(A, n)
          /\ pc = "gather" => /\ i \in 0 .. VANITY_BATCH /\ b < Batches
                              /\ Stands(A, n + 8 * i)
                              /\ \A k \in 0 .. i - 1 : GatheredAt(kernel, n, batch_X, batch_Y, batch_Z, k)
                              /\ ProductsAt(batch_Z, products, i)
          /\ pc \in {"extract", "check"} =>
               b < Batches /\ Stands(A, my_scalar + 8 * ((b + 1) * VANITY_BATCH))
          /\ pc = "extract" =>
               /\ i \in Lanes /\ ProductsAt(batch_Z, products, i + 1)
               /\ fe_mul(running, products[i]) = 1
               /\ \A k \in Lanes :
                    IF k <= i THEN GatheredAt(kernel, n, batch_X, batch_Y, batch_Z, k)
                              ELSE ExtractedAt(kernel, n, batch_X, batch_Y, batch_Z, k)
          /\ pc = "check" =>
               /\ i \in 0 .. VANITY_BATCH
               /\ \A k \in Lanes : ExtractedAt(kernel, n, batch_X, batch_Y, batch_Z, k)
  BY Zenon DEF BatchInv, n, m
<1>9. (\A k \in 0 .. i - 1 : Gathered(k))
        <=> (\A k \in 0 .. i - 1 : GatheredAt(kernel, n, batch_X, batch_Y, batch_Z, k))
  BY <1>3, <1>5
<1>10. (\A k \in Lanes : IF k <= i THEN Gathered(k) ELSE Extracted(k))
        <=> (\A k \in Lanes :
               IF k <= i THEN GatheredAt(kernel, n, batch_X, batch_Y, batch_Z, k)
                         ELSE ExtractedAt(kernel, n, batch_X, batch_Y, batch_Z, k))
  BY <1>3, <1>5
<1>11. (\A k \in Lanes : Extracted(k))
        <=> (\A k \in Lanes : ExtractedAt(kernel, n, batch_X, batch_Y, batch_Z, k))
  BY <1>3, <1>5
<1>. QED  BY <1>4, <1>6, <1>7, <1>8, <1>9, <1>10, <1>11, Zenon DEF BatchOK

\* The same of a successor state.
LEMMA BatchInvNext ==
  my_scalar' \in Int /\ b' \in Int =>
    (BatchOK' <=> BatchInv(pc', kernel', my_scalar', b', i', A', batch_X', batch_Y', batch_Z',
                           products', running'))
<1>. DEFINE F == my_scalar \in Int /\ b \in Int
            G == BatchInv(pc, kernel, my_scalar, b, i, A, batch_X, batch_Y, batch_Z,
                          products, running)
<1>1. F => (BatchOK <=> G)
  BY BatchInvForm
<1>. HIDE DEF F, G
<1>2. F' => (BatchOK' <=> G')
  BY <1>1, PTL
<1>. QED  BY <1>2 DEF F, G

-----------------------------------------------------------------------------
\* The hits among the first n candidates of the chain of s, where w is wanted.
Seeks(w, y) == y \notin Reserved /\ y \in w
HitsOf(s, w, n) == {k \in 0 .. n - 1 : Seeks(w, Times(s + 8 * k)[2])}

\* One candidate more.
LEMMA OneMoreHit ==
  ASSUME NEW s, NEW w, NEW n \in Nat
  PROVE  /\ IsFiniteSet(HitsOf(s, w, n)) /\ Cardinality(HitsOf(s, w, n)) \in Nat
         /\ HitsOf(s, w, 0) = {}
         /\ Seeks(w, Times(s + 8 * n)[2]) =>
              Cardinality(HitsOf(s, w, n + 1)) = Cardinality(HitsOf(s, w, n)) + 1
         /\ ~Seeks(w, Times(s + 8 * n)[2]) => HitsOf(s, w, n + 1) = HitsOf(s, w, n)
<1>. DEFINE H == HitsOf(s, w, n)
<1>1. IsFiniteSet(0 .. n - 1)
  BY FS_Interval
<1>2. H \subseteq 0 .. n - 1
  BY DEF HitsOf
<1>3. IsFiniteSet(H) /\ Cardinality(H) \in Nat
  <2>. HIDE DEF H
  <2>1. IsFiniteSet(H)
    BY <1>1, <1>2, FS_Subset
  <2>. QED  BY <2>1, FS_CardinalityType
<1>4. HitsOf(s, w, 0) = {}
  BY DEF HitsOf
<1>5. ASSUME NEW k PROVE k \in 0 .. (n + 1) - 1 <=> k \in 0 .. n - 1 \/ k = n
  OBVIOUS
<1>6. n \notin H
  BY DEF HitsOf
<1>7. ASSUME Seeks(w, Times(s + 8 * n)[2])
      PROVE  Cardinality(HitsOf(s, w, n + 1)) = Cardinality(HitsOf(s, w, n)) + 1
  <2>1. HitsOf(s, w, n + 1) = H \cup {n}
    BY <1>5, <1>7, Zenon DEF HitsOf
  <2>. HIDE DEF H
  <2>2. Cardinality(H \cup {n}) = Cardinality(H) + 1
    BY <1>3, <1>6, FS_AddElement
  <2>. QED  BY <2>1, <2>2 DEF H
<1>8. ASSUME ~Seeks(w, Times(s + 8 * n)[2])
      PROVE  HitsOf(s, w, n + 1) = HitsOf(s, w, n)
  BY <1>5, <1>8, Zenon DEF HitsOf
<1>. QED  BY <1>3, <1>4, <1>7, <1>8

\* The candidates tested so far.
TestedAt(c, bb, j) == bb * VANITY_BATCH + (IF c = "check" THEN j ELSE 0)

Emitted(s, w, f) ==
  \E k \in 0 .. Iters - 1 :
    /\ f.scalar = s + 8 * k
    /\ f.pubkey = EncodingOf(Times(s + 8 * k))
    /\ Seeks(w, Times(s + 8 * k)[2])
    /\ \A l \in 0 .. k - 1 : ~Seeks(w, Times(s + 8 * l)[2])

\* FoundOK as a predicate of the control point c, the kernel q, the scalar s,
\* the wanted set w, the tested candidates t, the batch number bb, the slot f,
\* its owner o, the matches m, and whether there is output.
FoundInv(c, q, s, w, bb, t, f, o, m, empty) ==
  /\ q # "none" /\ empty => s \in Starts
  /\ q \in {"none", "verify"} => bb = 0
  /\ q # "search" => f.flag = 0
  /\ f.flag = 0 => ~o
  /\ q # "count" => m = 0
  /\ c \notin {"left", "verify"} =>
       /\ ~o
       /\ q = "search" => HitsOf(s, w, t) = {}
       /\ q = "count" => m = Cardinality(HitsOf(s, w, t))
  /\ c = "left" =>
       /\ q = "count" => m = Cardinality(HitsOf(s, w, Iters))
       /\ q = "search" /\ f.flag = 0 => HitsOf(s, w, Iters) = {}
  /\ o => Emitted(s, w, f)

\* It is FoundOK.
LEMMA FoundInvForm ==
  FoundOK <=> FoundInv(pc, kernel, my_scalar, wanted, b, TestedAt(pc, b, i), slot, mine,
                       matches, out = <<>>)
<1>1. \A y : Wanted(y) <=> Seeks(wanted, y)
  BY DEF Wanted, Seeks
<1>2. \A k : StepPoint(k) = Times(my_scalar + 8 * k) /\ StepScalar(k) = my_scalar + 8 * k
  BY DEF StepPoint, StepScalar
<1>3. \A n : Hits(n) = HitsOf(my_scalar, wanted, n)
  BY <1>1, <1>2, Zenon DEF Hits, HitsOf
<1>4. {k \in 0 .. Iters - 1 : Wanted(StepPoint(k)[2])} = HitsOf(my_scalar, wanted, Iters)
  BY <1>1, <1>2, Zenon DEF HitsOf
<1>5. FirstMatchIsEmitted <=> (mine => Emitted(my_scalar, wanted, slot))
  BY <1>1, <1>2, Zenon DEF FirstMatchIsEmitted, Emitted
<1>6. Tested = TestedAt(pc, b, i)
  BY DEF Tested, TestedAt
<1>7. NothingSkipped <=>
        (pc = "left" =>
           /\ kernel = "count" => matches = Cardinality(HitsOf(my_scalar, wanted, Iters))
           /\ kernel = "search" /\ slot.flag = 0 => HitsOf(my_scalar, wanted, Iters) = {})
  BY <1>4, Zenon DEF NothingSkipped
<1>8. Hits(Tested) = HitsOf(my_scalar, wanted, TestedAt(pc, b, i))
  BY <1>3, <1>6
<1>. QED  BY <1>5, <1>7, <1>8, Zenon DEF FoundOK, FoundInv

\* The same of a successor state.
LEMMA FoundInvNext ==
  FoundOK' <=> FoundInv(pc', kernel', my_scalar', wanted', b', TestedAt(pc', b', i'), slot',
                        mine', matches', out' = <<>>)
<1>. DEFINE G == FoundInv(pc, kernel, my_scalar, wanted, b, TestedAt(pc, b, i), slot, mine,
                          matches, out = <<>>)
<1>1. FoundOK <=> G
  BY FoundInvForm
<1>. HIDE DEF G
<1>2. FoundOK' <=> G'
  BY <1>1, PTL
<1>. QED  BY <1>2 DEF G

-----------------------------------------------------------------------------
\* What verify_keygen has written: o is the output.
ChainInv(c, q, s, j, p, o) ==
  /\ q # "verify" => o = <<>>
  /\ c = "verify" => /\ j \in 0 .. VerifyCount /\ Stands(p, s)
                     /\ o # <<>> => s = o[Len(o)].scalar + 8
  /\ \A n \in DOMAIN o :
       /\ o[n].pubkey = EncodingOf(Times(o[n].scalar))
       /\ IF n = 1 THEN o[n].scalar \in Starts ELSE o[n].scalar = o[n - 1].scalar + 8

\* It is ChainOK, of a state and of its successor.
LEMMA ChainInvForm ==
  /\ ChainOK <=> ChainInv(pc, kernel, my_scalar, i, A, out)
  /\ ChainOK' <=> ChainInv(pc', kernel', my_scalar', i', A', out')
BY Zenon DEF ChainOK, VerifierSeesTheChain, ChainInv

\* One output more: ge_p3_tobytes encodes the point that is due.
LEMMA VerifyOne ==
  ASSUME NEW s \in Int, NEW j \in Int, NEW p, NEW o \in Seq(Records), NEW q,
         q = "verify", ChainInv("verify", q, s, j, p, o), j < VerifyCount,
         o = <<>> => s \in Starts,
         NEW o1, o1 = Append(o, [pubkey |-> ge_p3_tobytes(p), scalar |-> s])
  PROVE  /\ o1 \in Seq(Records) /\ o1 # <<>>
         /\ ChainInv("verify", q, s + 8, j + 1,
                     ge_p1p1_to_p3(ge_madd(p, EightB)), o1)
<1>1. /\ j \in 0 .. VerifyCount /\ Stands(p, s) /\ (o # <<>> => s = o[Len(o)].scalar + 8)
      /\ \A n \in DOMAIN o :
           /\ o[n].pubkey = EncodingOf(Times(o[n].scalar))
           /\ IF n = 1 THEN o[n].scalar \in Starts ELSE o[n].scalar = o[n - 1].scalar + 8
  BY DEF ChainInv
<1>2. VerifyCount \in Nat
  BY LoopSizes
<1>3. ge_p3_tobytes(p) = EncodingOf(Times(s)) /\ ge_p3_tobytes(p) \in Int
  <2>1. /\ fe_mul(p.X, fe_invert(p.Z)) = Times(s)[1]
        /\ fe_mul(p.Y, fe_invert(p.Z)) = Times(s)[2]
    BY <1>1, StandsForm
  <2>2. ge_p3_tobytes(p) = EncodingOf(Times(s))
    BY <2>1 DEF ge_p3_tobytes, fe_tobytes, fe_isnegative, EncodingOf
  <2>3. Times(s)[1] \in Int /\ Times(s)[2] \in Int /\ TopBit \in Int
    <3>1. Times(s) \in Curve
      BY PointType
    <3>2. Times(s)[1] \in Int /\ Times(s)[2] \in Int
      BY <3>1, CurvePoint
    <3>3. TopBit \in Int
      BY FieldAssumption
    <3>. QED  BY <3>2, <3>3
  <2>4. EncodingOf(Times(s)) \in Int
    BY <2>3 DEF EncodingOf
  <2>. QED  BY <2>2, <2>4
<1>. DEFINE rec == [pubkey |-> ge_p3_tobytes(p), scalar |-> s]
<1>4. rec \in Records /\ rec.pubkey = EncodingOf(Times(s)) /\ rec.scalar = s
  BY <1>3 DEF Records
<1>. HIDE DEF rec
<1>5. /\ o1 \in Seq(Records) /\ o1 # <<>> /\ Len(o1) = Len(o) + 1 /\ o1[Len(o) + 1] = rec
      /\ \A n \in 1 .. Len(o) : o1[n] = o[n]
      /\ Len(o) \in Nat /\ DOMAIN o = 1 .. Len(o) /\ DOMAIN o1 = 1 .. Len(o) + 1
  BY <1>4 DEF rec
<1>6. Stands(ge_p1p1_to_p3(ge_madd(p, EightB)), s + 8)
  BY <1>1, NextPoint
<1>. DEFINE m == Len(o)
<1>7. ASSUME NEW n \in DOMAIN o1
      PROVE  /\ o1[n].pubkey = EncodingOf(Times(o1[n].scalar))
             /\ IF n = 1 THEN o1[n].scalar \in Starts ELSE o1[n].scalar = o1[n - 1].scalar + 8
  <2>1. n \in 1 .. m + 1 /\ m \in Nat
    BY <1>5
  <2>. HIDE DEF m
  <2>2. CASE n = m + 1
    <3>1. o1[n] = rec
      BY <1>5, <2>2 DEF m
    <3>2. CASE n = 1
      <4>1. o = <<>>
        BY <2>1, <2>2, <3>2 DEF m
      <4>. QED  BY <1>4, <3>1, <3>2, <4>1
    <3>3. CASE n # 1
      <4>1. n - 1 = m /\ m \in 1 .. m /\ o # <<>>
        BY <2>1, <2>2, <3>3 DEF m
      <4>2. o1[n - 1] = o[m]
        BY <1>5, <4>1 DEF m
      <4>3. s = o[m].scalar + 8
        BY <1>1, <4>1 DEF m
      <4>. QED  BY <1>4, <3>1, <3>3, <4>2, <4>3
    <3>. QED  BY <3>2, <3>3
  <2>3. CASE n # m + 1
    <3>1. n \in 1 .. m /\ (n # 1 => n - 1 \in 1 .. m)
      BY <2>1, <2>3
    <3>2. o1[n] = o[n] /\ (n # 1 => o1[n - 1] = o[n - 1]) /\ n \in DOMAIN o
      BY <1>5, <3>1 DEF m
    <3>. QED  BY <1>1, <3>2
  <2>. QED  BY <2>2, <2>3
<1>8. s + 8 = o1[Len(o1)].scalar + 8
  BY <1>4, <1>5
<1>9. j + 1 \in 0 .. VerifyCount
  BY <1>1, <1>2
<1>. QED  BY <1>5, <1>6, <1>7, <1>8, <1>9 DEF ChainInv

-----------------------------------------------------------------------------
\* The batch loop: how each step moves BatchInv on.
LEMMA BatchEnter ==
  ASSUME NEW q, NEW s \in Int, NEW bb \in 0 .. Batches, NEW j, NEW p, NEW x, NEW y,
         NEW z, NEW g, NEW r, BatchInv("enter", q, s, bb, j, p, x, y, z, g, r),
         bb < Batches
  PROVE  BatchInv("gather", q, s, bb, 0, p, x, y, z, g, r)
<1>. DEFINE n == s + 8 * (bb * VANITY_BATCH)
<1>1. Stands(p, n)
  BY DEF BatchInv
<1>2. n \in Int
  <2>1. bb * VANITY_BATCH \in Int
    BY LaneInside, LoopSizes
  <2>. QED  BY <2>1
<1>. HIDE DEF n
<1>3. n + 8 * 0 = n /\ 0 \in 0 .. VANITY_BATCH /\ 0 .. 0 - 1 = {}
  BY <1>2, LoopSizes
<1>4. Stands(p, n + 8 * 0) /\ ProductsAt(z, g, 0)
  BY <1>1, <1>3 DEF ProductsAt
<1>. QED  BY <1>3, <1>4, Zenon DEF BatchInv, n

\* Gather: one lane more.
LEMMA BatchGather ==
  ASSUME NEW q, NEW s \in Int, NEW bb \in 0 .. Batches, NEW j, NEW p,
         NEW x \in LaneValues, NEW y \in LaneValues, NEW z \in LaneValues,
         NEW g \in LaneValues, NEW r,
         BatchInv("gather", q, s, bb, j, p, x, y, z, g, r), j < VANITY_BATCH,
         NEW x1, NEW y1, NEW z1, NEW g1, Recorded(q, j, p, x, y, z, g, x1, y1, z1, g1)
  PROVE  /\ x1 \in LaneValues /\ y1 \in LaneValues /\ z1 \in LaneValues /\ g1 \in LaneValues
         /\ BatchInv("gather", q, s, bb, j + 1, ge_p1p1_to_p3(ge_madd(p, EightB)),
                     x1, y1, z1, g1, r)
<1>. DEFINE n == s + 8 * (bb * VANITY_BATCH)
<1>1. /\ j \in 0 .. VANITY_BATCH /\ bb < Batches /\ Stands(p, n + 8 * j)
      /\ \A k \in 0 .. j - 1 : GatheredAt(q, n, x, y, z, k)
      /\ ProductsAt(z, g, j)
  BY Zenon DEF BatchInv
<1>2. VANITY_BATCH \in Nat /\ j \in Lanes /\ j + 1 \in 0 .. VANITY_BATCH /\ (j + 1) - 1 = j
  BY <1>1, LoopSizes DEF Lanes
<1>3. n \in Int
  <2>1. bb * VANITY_BATCH \in Int
    BY <1>1, <1>2, LaneInside
  <2>. QED  BY <2>1
<1>. HIDE DEF n
<1>4. /\ x1 \in LaneValues /\ y1 \in LaneValues /\ z1 \in LaneValues /\ g1 \in LaneValues
      /\ Stands(ge_p1p1_to_p3(ge_madd(p, EightB)), n + 8 * (j + 1))
      /\ \A k \in 0 .. j : GatheredAt(q, n, x1, y1, z1, k)
      /\ ProductsAt(z1, g1, j + 1)
  BY <1>1, <1>2, <1>3, GatherLane
<1>5. \A k \in 0 .. (j + 1) - 1 : GatheredAt(q, n, x1, y1, z1, k)
  BY <1>2, <1>4
<1>6. BatchInv("gather", q, s, bb, j + 1, ge_p1p1_to_p3(ge_madd(p, EightB)),
               x1, y1, z1, g1, r)
  BY <1>1, <1>2, <1>4, <1>5, Zenon DEF BatchInv, n
<1>. QED  BY <1>4, <1>6

\* Invert: the product of all the Z is not 0, so running is its inverse.
LEMMA BatchInvert ==
  ASSUME NEW q, NEW s \in Int, NEW bb \in 0 .. Batches, NEW j, NEW p,
         NEW x \in LaneValues, NEW y \in LaneValues, NEW z \in LaneValues,
         NEW g \in LaneValues, NEW r, j = VANITY_BATCH,
         BatchInv("gather", q, s, bb, j, p, x, y, z, g, r),
         NEW r1, r1 = fe_invert(g[VANITY_BATCH - 1])
  PROVE  /\ r1 \in Fe
         /\ BatchInv("extract", q, s, bb, VANITY_BATCH - 1, p, x, y, z, g, r1)
<1>. DEFINE V == VANITY_BATCH  m == bb * V  n == s + 8 * m  l == V - 1
<1>1. /\ bb < Batches /\ Stands(p, n + 8 * V)
      /\ \A k \in 0 .. V - 1 : GatheredAt(q, n, x, y, z, k)
      /\ ProductsAt(z, g, V)
  BY Zenon DEF BatchInv
<1>2. V \in Nat \ {0} /\ l \in Lanes /\ l \in 0 .. V - 1 /\ l + 1 = V /\ Lanes = 0 .. V - 1
  BY LoopSizes DEF Lanes
<1>3. m \in Int /\ (bb + 1) * V = m + V
  BY <1>1, <1>2, LaneInside
<1>. HIDE DEF V, m
<1>4. s + 8 * (m + V) = n + 8 * V
  BY <1>2, <1>3, LaneScalar
<1>5. Stands(p, s + 8 * ((bb + 1) * V))
  BY <1>1, <1>3, <1>4
<1>. HIDE DEF n
<1>6. g[l] \in Fe /\ g[l] # 0
  BY <1>1, <1>2 DEF LaneValues, ProductsAt
<1>7. r1 \in Fe /\ fe_mul(r1, g[l]) = 1
  BY <1>6, FieldInverse DEF V
<1>8. ASSUME NEW k \in Lanes
      PROVE  IF k <= l THEN GatheredAt(q, n, x, y, z, k) ELSE ExtractedAt(q, n, x, y, z, k)
  BY <1>1, <1>2
<1>9. ProductsAt(z, g, l + 1)
  BY <1>1, <1>2
<1>. HIDE DEF l
<1>10. BatchInv("extract", q, s, bb, l, p, x, y, z, g, r1)
  BY <1>1, <1>2, <1>5, <1>7, <1>8, <1>9, Zenon DEF BatchInv, n, m, V
<1>. QED  BY <1>7, <1>10 DEF l, V

\* Extract: one lane less.
LEMMA BatchExtract ==
  ASSUME NEW q, NEW s \in Int, NEW bb \in 0 .. Batches, NEW j, NEW p,
         NEW x \in LaneValues, NEW y \in LaneValues, NEW z \in LaneValues,
         NEW g \in LaneValues, NEW r \in Fe, j > 0,
         BatchInv("extract", q, s, bb, j, p, x, y, z, g, r),
         NEW z1, NEW r1, Unwound(j, z, g, r, z1, r1)
  PROVE  /\ z1 \in LaneValues /\ r1 \in Fe
         /\ BatchInv("extract", q, s, bb, j - 1, p, x, y, z1, g, r1)
<1>. DEFINE n == s + 8 * (bb * VANITY_BATCH)
<1>1. /\ bb < Batches /\ Stands(p, s + 8 * ((bb + 1) * VANITY_BATCH))
      /\ j \in Lanes /\ ProductsAt(z, g, j + 1) /\ fe_mul(r, g[j]) = 1
      /\ \A k \in Lanes : IF k <= j THEN GatheredAt(q, n, x, y, z, k)
                                    ELSE ExtractedAt(q, n, x, y, z, k)
  BY Zenon DEF BatchInv
<1>2. n \in Int
  <2>1. bb * VANITY_BATCH \in Int
    BY <1>1, LaneInside
  <2>. QED  BY <2>1
<1>. HIDE DEF n
<1>3. /\ z1 \in LaneValues /\ r1 \in Fe /\ j - 1 \in Lanes
      /\ ProductsAt(z1, g, j) /\ fe_mul(r1, g[j - 1]) = 1
      /\ \A k \in Lanes : IF k <= j - 1 THEN GatheredAt(q, n, x, y, z1, k)
                                        ELSE ExtractedAt(q, n, x, y, z1, k)
  BY <1>1, <1>2, ExtractLaneForm
<1>4. (j - 1) + 1 = j
  BY <1>1 DEF Lanes
<1>5. ProductsAt(z1, g, (j - 1) + 1)
  BY <1>3, <1>4
<1>6. BatchInv("extract", q, s, bb, j - 1, p, x, y, z1, g, r1)
  BY <1>1, <1>3, <1>5, Zenon DEF BatchInv, n
<1>. QED  BY <1>3, <1>6

\* ExtractFirst: every lane holds the inverse of its Z.
LEMMA BatchFirst ==
  ASSUME NEW q, NEW s \in Int, NEW bb \in 0 .. Batches, NEW j, NEW p,
         NEW x \in LaneValues, NEW y \in LaneValues, NEW z \in LaneValues,
         NEW g \in LaneValues, NEW r \in Fe, j = 0,
         BatchInv("extract", q, s, bb, j, p, x, y, z, g, r),
         NEW z1, z1 = [z EXCEPT ![0] = r]
  PROVE  z1 \in LaneValues /\ BatchInv("check", q, s, bb, j, p, x, y, z1, g, r)
<1>. DEFINE n == s + 8 * (bb * VANITY_BATCH)
<1>1. /\ bb < Batches /\ Stands(p, s + 8 * ((bb + 1) * VANITY_BATCH))
      /\ j \in Lanes /\ ProductsAt(z, g, j + 1) /\ fe_mul(r, g[j]) = 1
      /\ \A k \in Lanes : IF k <= j THEN GatheredAt(q, n, x, y, z, k)
                                    ELSE ExtractedAt(q, n, x, y, z, k)
  BY Zenon DEF BatchInv
<1>2. n \in Int
  <2>1. bb * VANITY_BATCH \in Int
    BY <1>1, LaneInside
  <2>. QED  BY <2>1
<1>. HIDE DEF n
<1>3. 0 + 1 = 1 /\ j \in 0 .. VANITY_BATCH
  BY LoopSizes
<1>4. z1 \in LaneValues /\ \A k \in Lanes : ExtractedAt(q, n, x, y, z1, k)
  <2>1. /\ ProductsAt(z, g, 1) /\ fe_mul(r, g[0]) = 1
        /\ \A k \in Lanes : IF k <= 0 THEN GatheredAt(q, n, x, y, z, k)
                                      ELSE ExtractedAt(q, n, x, y, z, k)
    BY <1>1, <1>3, Zenon
  <2>. QED  BY <1>2, <2>1, ExtractFirstForm
<1>5. BatchInv("check", q, s, bb, j, p, x, y, z1, g, r)
  BY <1>1, <1>3, <1>4, Zenon DEF BatchInv, n
<1>. QED  BY <1>4, <1>5

\* A lane that is checked is the candidate whose turn it is.
LEMMA CheckedLane ==
  ASSUME NEW q, NEW s \in Int, NEW bb \in 0 .. Batches, NEW j, NEW p,
         NEW x, NEW y, NEW z, NEW g, NEW r, j < VANITY_BATCH,
         BatchInv("check", q, s, bb, j, p, x, y, z, g, r),
         NEW t, t = TestedAt("check", bb, j)
  PROVE  /\ BatchInv("check", q, s, bb, j + 1, p, x, y, z, g, r)
         /\ t \in 0 .. Iters - 1 /\ t = bb * VANITY_BATCH + j
         /\ TestedAt("check", bb, j + 1) = t + 1
         /\ fe_mul(y[j], z[j]) = Times(s + 8 * t)[2]
         /\ q = "search" => fe_mul(x[j], z[j]) = Times(s + 8 * t)[1]
<1>. DEFINE m == bb * VANITY_BATCH  n == s + 8 * m
<1>1. /\ bb < Batches /\ Stands(p, s + 8 * ((bb + 1) * VANITY_BATCH))
      /\ j \in 0 .. VANITY_BATCH /\ \A k \in Lanes : ExtractedAt(q, n, x, y, z, k)
  BY Zenon DEF BatchInv
<1>2. VANITY_BATCH \in Nat /\ j \in Lanes /\ j \in Nat /\ j + 1 \in 0 .. VANITY_BATCH
  BY <1>1, LoopSizes DEF Lanes
<1>3. m + j \in 0 .. Iters - 1 /\ m \in Nat
  BY <1>1, <1>2, LaneInside
<1>4. BatchInv("check", q, s, bb, j + 1, p, x, y, z, g, r)
  BY <1>1, <1>2, Zenon DEF BatchInv
<1>5. t = m + j /\ TestedAt("check", bb, j + 1) = m + (j + 1)
  BY DEF TestedAt
<1>6. ExtractedAt(q, n, x, y, z, j)
  BY <1>1, <1>2
<1>. HIDE DEF m
<1>7. s + 8 * (m + j) = n + 8 * j /\ m + (j + 1) = (m + j) + 1
  BY <1>2, <1>3, LaneScalar
<1>. HIDE DEF n
<1>8. /\ fe_mul(y[j], z[j]) = Times(s + 8 * t)[2]
      /\ q = "search" => fe_mul(x[j], z[j]) = Times(s + 8 * t)[1]
  BY <1>5, <1>6, <1>7, Zenon DEF ExtractedAt
<1>. QED  BY <1>3, <1>4, <1>5, <1>7, <1>8 DEF m

\* The end of a batch.
LEMMA BatchNext ==
  ASSUME NEW q, NEW s \in Int, NEW bb \in 0 .. Batches, NEW j, NEW p,
         NEW x, NEW y, NEW z, NEW g, NEW r, j = VANITY_BATCH,
         BatchInv("check", q, s, bb, j, p, x, y, z, g, r)
  PROVE  /\ bb + 1 \in 0 .. Batches
         /\ BatchInv("enter", q, s, bb + 1, j, p, x, y, z, g, r)
         /\ TestedAt("enter", bb + 1, j) = TestedAt("check", bb, j)
<1>1. bb < Batches /\ Stands(p, s + 8 * ((bb + 1) * VANITY_BATCH))
  BY Zenon DEF BatchInv
<1>2. bb + 1 \in 0 .. Batches
  BY <1>1, LoopSizes
<1>3. BatchInv("enter", q, s, bb + 1, j, p, x, y, z, g, r)
  BY <1>1, Zenon DEF BatchInv
<1>4. /\ (bb + 1) * VANITY_BATCH = bb * VANITY_BATCH + VANITY_BATCH
      /\ bb * VANITY_BATCH \in Nat
  BY <1>1, LoopSizes, LaneInside
<1>. DEFINE m == bb * VANITY_BATCH  m1 == (bb + 1) * VANITY_BATCH
<1>5. TestedAt("enter", bb + 1, j) = m1 + 0 /\ TestedAt("check", bb, j) = m + j
  BY DEF TestedAt
<1>6. m1 = m + VANITY_BATCH /\ m \in Nat /\ VANITY_BATCH \in Nat
  BY <1>4, LoopSizes
<1>. HIDE DEF m, m1
<1>7. m1 + 0 = m + j
  BY <1>6
<1>. QED  BY <1>2, <1>3, <1>5, <1>7

-----------------------------------------------------------------------------
\* The control points of the batch loop.
SearchLabels == {"enter", "gather", "extract", "check"}

\* How each step moves FoundInv on: steps that test nothing,
LEMMA FoundSame ==
  ASSUME NEW c, NEW c1, NEW q, NEW s, NEW w, NEW bb, NEW b1, NEW t, NEW t1, NEW f, NEW o,
         NEW m, NEW h, FoundInv(c, q, s, w, bb, t, f, o, m, h), q \in {"search", "count"},
         c \in SearchLabels, c1 \in SearchLabels, t1 = t
  PROVE  FoundInv(c1, q, s, w, b1, t1, f, o, m, h)
BY DEF FoundInv, SearchLabels

\* a candidate that is not sought,
LEMMA FoundPass ==
  ASSUME NEW c, NEW q, NEW s, NEW w, NEW bb, NEW t \in Nat, NEW f, NEW o, NEW m, NEW h,
         FoundInv(c, q, s, w, bb, t, f, o, m, h),
         c \notin {"left", "verify"}, ~Seeks(w, Times(s + 8 * t)[2])
  PROVE  FoundInv(c, q, s, w, bb, t + 1, f, o, m, h)
<1>1. HitsOf(s, w, t + 1) = HitsOf(s, w, t)
  BY OneMoreHit
<1>. QED  BY <1>1, Zenon DEF FoundInv

\* one that is counted,
LEMMA FoundCount ==
  ASSUME NEW c, NEW q, NEW s, NEW w, NEW bb, NEW t \in Nat, NEW f, NEW o, NEW m, NEW h,
         FoundInv(c, q, s, w, bb, t, f, o, m, h),
         c \notin {"left", "verify"}, q = "count", Seeks(w, Times(s + 8 * t)[2])
  PROVE  FoundInv(c, q, s, w, bb, t + 1, f, o, m + 1, h)
<1>1. Cardinality(HitsOf(s, w, t + 1)) = Cardinality(HitsOf(s, w, t)) + 1
  BY OneMoreHit
<1>2. m = Cardinality(HitsOf(s, w, t))
  BY DEF FoundInv
<1>. QED  BY <1>1, <1>2 DEF FoundInv

\* one that is emitted where the slot is free,
LEMMA FoundHit ==
  ASSUME NEW q, NEW s \in Int, NEW w, NEW bb, NEW t \in 0 .. Iters - 1, NEW f, NEW o, NEW m,
         NEW h, FoundInv("check", q, s, w, bb, t, f, o, m, h), q = "search",
         Seeks(w, Times(s + 8 * t)[2]), NEW f1, NEW o1,
         \/ /\ f1.flag = 1 /\ f1.scalar = s + 8 * t
            /\ f1.pubkey = EncodingOf(Times(s + 8 * t))
         \/ f1 = f /\ o1 = o /\ f.flag # 0
  PROVE  FoundInv("left", q, s, w, bb, t, f1, o1, m, h)
<1>1. ~o /\ HitsOf(s, w, t) = {}
  BY DEF FoundInv
<1>2. \A l \in 0 .. t - 1 : ~Seeks(w, Times(s + 8 * l)[2])
  BY <1>1, Zenon DEF HitsOf
<1>3. CASE f1.flag = 1 /\ f1.scalar = s + 8 * t /\ f1.pubkey = EncodingOf(Times(s + 8 * t))
  <2>1. Emitted(s, w, f1)
    BY <1>2, <1>3, Zenon DEF Emitted
  <2>2. f1.flag # 0
    BY <1>3
  <2>. QED  BY <2>1, <2>2 DEF FoundInv
<1>4. CASE f1 = f /\ o1 = o /\ f.flag # 0
  BY <1>1, <1>4 DEF FoundInv
<1>. QED  BY <1>3, <1>4

\* another thread's match,
LEMMA FoundOther ==
  ASSUME NEW c, NEW q, NEW s, NEW w, NEW bb, NEW t, NEW f, NEW o, NEW m, NEW h,
         FoundInv(c, q, s, w, bb, t, f, o, m, h), q = "search",
         c \notin {"left", "verify"}, NEW f1, f1.flag # 0
  PROVE  FoundInv(c, q, s, w, bb, t, f1, o, m, h)
BY DEF FoundInv

\* and the end of the batch loop.
LEMMA FoundLeave ==
  ASSUME NEW q, NEW s, NEW w, NEW bb \in 0 .. Batches, NEW j, NEW f, NEW o, NEW m, NEW h,
         FoundInv("enter", q, s, w, bb, TestedAt("enter", bb, j), f, o, m, h),
         bb < Batches => q # "count" /\ f.flag # 0,
         NEW t
  PROVE  FoundInv("left", q, s, w, bb, t, f, o, m, h)
<1>1. CASE bb < Batches
  BY <1>1 DEF FoundInv
<1>2. CASE bb = Batches
  <2>1. TestedAt("enter", bb, j) = bb * VANITY_BATCH + 0
    BY DEF TestedAt
  <2>2. bb * VANITY_BATCH = Iters /\ Iters + 0 = Iters
    BY <1>2, LoopSizes
  <2>3. TestedAt("enter", bb, j) = Iters
    BY <2>1, <2>2
  <2>. QED  BY <2>3, Zenon DEF FoundInv
<1>. QED  BY <1>1, <1>2, LoopSizes

-----------------------------------------------------------------------------
SlotType == [flag : 0 .. 1, pubkey : Int, scalar : Int]

\* KTypeOK, spelled out.
LEMMA Types ==
  KTypeOK <=>
    /\ pc \in {"recode", "odd", "even", "done", "enter", "gather", "extract", "check",
               "left", "verify"}
    /\ pc \in {"recode", "odd", "even", "done"} => kernel = "none"
    /\ pc = "verify" => kernel = "verify"
    /\ pc \in SearchLabels \cup {"left"} => kernel \in {"search", "count"}
    /\ b \in 0 .. Batches /\ mine \in BOOLEAN /\ matches \in Nat
    /\ batch_X \in LaneValues /\ batch_Y \in LaneValues /\ batch_Z \in LaneValues
    /\ products \in LaneValues /\ running \in Fe
    /\ slot \in SlotType /\ out \in Seq(Records)
BY DEF KTypeOK, Multiplying, LaneValues, SlotType, SearchLabels

\* The same of a successor state.
LEMMA TypesNext ==
  KTypeOK' <=>
    /\ pc' \in {"recode", "odd", "even", "done", "enter", "gather", "extract", "check",
                "left", "verify"}
    /\ pc' \in {"recode", "odd", "even", "done"} => kernel' = "none"
    /\ pc' = "verify" => kernel' = "verify"
    /\ pc' \in SearchLabels \cup {"left"} => kernel' \in {"search", "count"}
    /\ b' \in 0 .. Batches /\ mine' \in BOOLEAN /\ matches' \in Nat
    /\ batch_X' \in LaneValues /\ batch_Y' \in LaneValues /\ batch_Z' \in LaneValues
    /\ products' \in LaneValues /\ running' \in Fe
    /\ slot' \in SlotType /\ out' \in Seq(Records)
BY DEF KTypeOK, Multiplying, LaneValues, SlotType, SearchLabels

\* What the invariant says in the batch loop.
LEMMA InLoop ==
  ASSUME KInv, pc \in SearchLabels
  PROVE  /\ my_scalar \in Nat /\ my_scalar \in Int /\ e \in DigitStrings /\ carry \in {0, 1}
         /\ kernel \in {"search", "count"} /\ out = <<>>
         /\ b \in 0 .. Batches /\ mine \in BOOLEAN /\ matches \in Nat
         /\ batch_X \in LaneValues /\ batch_Y \in LaneValues /\ batch_Z \in LaneValues
         /\ products \in LaneValues /\ running \in Fe /\ slot \in SlotType
         /\ BatchInv(pc, kernel, my_scalar, b, i, A, batch_X, batch_Y, batch_Z, products,
                     running)
         /\ FoundInv(pc, kernel, my_scalar, wanted, b, TestedAt(pc, b, i), slot, mine,
                     matches, TRUE)
<1>1. ScalarMultInv /\ KTypeOK /\ BatchOK /\ FoundOK /\ ChainOK
  BY DEF KInv
<1>2. my_scalar \in Nat /\ e \in DigitStrings /\ carry \in {0, 1}
  BY <1>1 DEF ScalarMultInv, DigitStrings
<1>3. /\ kernel \in {"search", "count"}
      /\ b \in 0 .. Batches /\ mine \in BOOLEAN /\ matches \in Nat
      /\ batch_X \in LaneValues /\ batch_Y \in LaneValues /\ batch_Z \in LaneValues
      /\ products \in LaneValues /\ running \in Fe /\ slot \in SlotType
  BY <1>1, Types
<1>4. out = <<>>
  BY <1>1, <1>3 DEF ChainOK
<1>5. my_scalar \in Int /\ b \in Int
  BY <1>2, <1>3
<1>6. BatchInv(pc, kernel, my_scalar, b, i, A, batch_X, batch_Y, batch_Z, products, running)
  BY <1>1, <1>5, BatchInvForm
<1>7. FoundInv(pc, kernel, my_scalar, wanted, b, TestedAt(pc, b, i), slot, mine, matches,
               out = <<>>)
  BY <1>1, FoundInvForm
<1>8. FoundInv(pc, kernel, my_scalar, wanted, b, TestedAt(pc, b, i), slot, mine, matches,
               TRUE)
  BY <1>4, <1>7, Zenon DEF FoundInv
<1>. QED  BY <1>2, <1>3, <1>4, <1>5, <1>6, <1>8

\* What a step of the batch loop has to keep.
LEMMA LoopKeeps ==
  ASSUME KInv, pc \in SearchLabels, searchUnchanged, pc' \in SearchLabels \cup {"left"},
         b' \in 0 .. Batches, mine' \in BOOLEAN, matches' \in Nat,
         batch_X' \in LaneValues, batch_Y' \in LaneValues, batch_Z' \in LaneValues,
         products' \in LaneValues, running' \in Fe, slot' \in SlotType,
         BatchInv(pc', kernel, my_scalar, b', i', A', batch_X', batch_Y', batch_Z',
                  products', running'),
         FoundInv(pc', kernel, my_scalar, wanted, b', TestedAt(pc', b', i'), slot', mine',
                  matches', TRUE)
  PROVE  KInv'
<1>1. /\ my_scalar' = my_scalar /\ e' = e /\ carry' = carry /\ kernel' = kernel
      /\ wanted' = wanted /\ out' = out
  BY DEF searchUnchanged, digitVars, callVars
<1>2. /\ my_scalar \in Nat /\ my_scalar \in Int /\ e \in DigitStrings /\ carry \in {0, 1}
      /\ kernel \in {"search", "count"} /\ out = <<>>
  BY InLoop
<1>3. pc' \in {"enter", "gather", "extract", "check", "left"}
  BY DEF SearchLabels
<1>4. ScalarMultInv'
  BY <1>1, <1>2, <1>3, MulOver, MulInvForm
<1>5. KTypeOK'
  <2>1. out' \in Seq(Records)
    BY <1>1, <1>2
  <2>. QED  BY <1>1, <1>2, <1>3, <2>1, TypesNext
<1>6. BatchOK'
  <2>1. my_scalar' \in Int /\ b' \in Int
    BY <1>1, <1>2
  <2>. QED  BY <1>1, <2>1, BatchInvNext
<1>7. FoundOK'
  <2>1. FoundInv(pc', kernel', my_scalar', wanted', b', TestedAt(pc', b', i'), slot', mine',
                 matches', out' = <<>>)
    BY <1>1, <1>2, Zenon DEF FoundInv
  <2>. QED  BY <2>1, FoundInvNext
<1>8. ChainOK'
  <2>1. ChainInv(pc', kernel', my_scalar', i', A', out')
    BY <1>1, <1>2, <1>3 DEF ChainInv
  <2>. QED  BY <2>1, ChainInvForm
<1>. QED  BY <1>4, <1>5, <1>6, <1>7, <1>8 DEF KInv

-----------------------------------------------------------------------------
\* Enter begins a batch or leaves.
LEMMA EnterKeeps == ASSUME KInv, Enter PROVE KInv'
<1>1. /\ pc = "enter" /\ searchUnchanged /\ b' = b /\ A' = A
      /\ batch_X' = batch_X /\ batch_Y' = batch_Y /\ batch_Z' = batch_Z
      /\ products' = products /\ running' = running
      /\ slot' = slot /\ mine' = mine /\ matches' = matches
      /\ IF b < Batches /\ (kernel = "count" \/ slot.flag = 0)
         THEN pc' = "gather" /\ i' = 0 ELSE pc' = "left" /\ i' = i
  BY DEF Enter, batchVars
<1>2. pc \in SearchLabels
  BY <1>1 DEF SearchLabels
<1>3. KInv
  OBVIOUS
<1>4. CASE b < Batches /\ (kernel = "count" \/ slot.flag = 0)
  <2>1. pc' = "gather" /\ i' = 0
    BY <1>1, <1>4
  <2>2. BatchInv("gather", kernel, my_scalar, b, 0, A, batch_X, batch_Y, batch_Z, products,
                 running)
    BY <1>1, <1>2, <1>4, InLoop, BatchEnter
  <2>3. TestedAt("gather", b, 0) = TestedAt("enter", b, i)
    BY DEF TestedAt
  <2>4. FoundInv("gather", kernel, my_scalar, wanted, b, TestedAt("gather", b, 0), slot,
                 mine, matches, TRUE)
    <3>1. /\ FoundInv("enter", kernel, my_scalar, wanted, b, TestedAt("enter", b, i), slot, mine,
                      matches, TRUE)
          /\ kernel \in {"search", "count"}
      BY <1>1, <1>2, InLoop
    <3>2. SearchLabels = {"enter", "gather", "extract", "check"}
      BY DEF SearchLabels
    <3>. QED  BY <3>1, <3>2, <2>3, FoundSame
  <2>5. pc' \in SearchLabels \cup {"left"}
    BY <2>1 DEF SearchLabels
  <2>. QED  BY <1>1, <1>2, <2>1, <2>2, <2>4, <2>5, InLoop, LoopKeeps
<1>5. CASE ~(b < Batches /\ (kernel = "count" \/ slot.flag = 0))
  <2>1. pc' = "left" /\ i' = i
    BY <1>1, <1>5
  <2>2. BatchInv("left", kernel, my_scalar, b, i, A, batch_X, batch_Y, batch_Z, products,
                 running)
    BY DEF BatchInv
  <2>3. FoundInv("left", kernel, my_scalar, wanted, b, TestedAt("left", b, i), slot, mine,
                 matches, TRUE)
    <3>1. b < Batches => kernel # "count" /\ slot.flag # 0
      BY <1>5
    <3>2. FoundInv("enter", kernel, my_scalar, wanted, b, TestedAt("enter", b, i), slot,
                   mine, matches, TRUE) /\ b \in 0 .. Batches
      BY <1>1, <1>2, InLoop
    <3>. QED  BY <3>1, <3>2, FoundLeave
  <2>. QED  BY <1>1, <1>2, <2>1, <2>2, <2>3, InLoop, LoopKeeps
<1>. QED  BY <1>4, <1>5

\* Gather records a lane.
LEMMA GatherKeeps == ASSUME KInv, Gather PROVE KInv'
<1>1. /\ pc = "gather" /\ i < VANITY_BATCH /\ searchUnchanged /\ pc' = pc /\ b' = b
      /\ i' = i + 1 /\ running' = running /\ slot' = slot /\ mine' = mine
      /\ matches' = matches /\ A' = ge_p1p1_to_p3(ge_madd(A, EightB))
      /\ Recorded(kernel, i, A, batch_X, batch_Y, batch_Z, products, batch_X', batch_Y',
                  batch_Z', products')
  BY DEF Gather, Recorded
<1>2. pc \in SearchLabels /\ pc' \in SearchLabels \cup {"left"}
  BY <1>1 DEF SearchLabels
<1>3. /\ batch_X' \in LaneValues /\ batch_Y' \in LaneValues /\ batch_Z' \in LaneValues
      /\ products' \in LaneValues
      /\ BatchInv("gather", kernel, my_scalar, b, i + 1, A', batch_X', batch_Y', batch_Z',
                  products', running)
  BY <1>1, <1>2, InLoop, BatchGather
<1>4. TestedAt("gather", b, i + 1) = TestedAt("gather", b, i)
  BY DEF TestedAt
<1>5. FoundInv(pc', kernel, my_scalar, wanted, b', TestedAt(pc', b', i'), slot', mine',
               matches', TRUE)
  BY <1>1, <1>2, <1>4, InLoop
<1>. QED  BY <1>1, <1>2, <1>3, <1>5, InLoop, LoopKeeps

\* Invert computes the inverse of the product.
LEMMA InvertKeeps == ASSUME KInv, Invert PROVE KInv'
<1>1. /\ pc = "gather" /\ i = VANITY_BATCH /\ searchUnchanged /\ pc' = "extract" /\ b' = b
      /\ A' = A /\ i' = VANITY_BATCH - 1 /\ running' = fe_invert(products[VANITY_BATCH - 1])
      /\ batch_X' = batch_X /\ batch_Y' = batch_Y /\ batch_Z' = batch_Z
      /\ products' = products
      /\ slot' = slot /\ mine' = mine /\ matches' = matches
  BY DEF Invert
<1>2. pc \in SearchLabels /\ pc' \in SearchLabels \cup {"left"}
  BY <1>1 DEF SearchLabels
<1>3. /\ running' \in Fe
      /\ BatchInv("extract", kernel, my_scalar, b, VANITY_BATCH - 1, A, batch_X, batch_Y,
                  batch_Z, products, running')
  BY <1>1, <1>2, InLoop, BatchInvert
<1>4. TestedAt("extract", b, i') = TestedAt("gather", b, i)
  BY DEF TestedAt
<1>5. FoundInv("extract", kernel, my_scalar, wanted, b, TestedAt("extract", b, i'), slot,
               mine, matches, TRUE)
  <2>1. /\ FoundInv("gather", kernel, my_scalar, wanted, b, TestedAt("gather", b, i), slot, mine,
                    matches, TRUE)
        /\ kernel \in {"search", "count"}
    BY <1>1, <1>2, InLoop
  <2>2. SearchLabels = {"enter", "gather", "extract", "check"}
    BY DEF SearchLabels
  <2>. QED  BY <2>1, <2>2, <1>4, FoundSame
<1>. QED  BY <1>1, <1>2, <1>3, <1>5, InLoop, LoopKeeps

\* Extract turns the Z of a lane into its inverse.
LEMMA ExtractKeeps == ASSUME KInv, Extract PROVE KInv'
<1>1. /\ pc = "extract" /\ i > 0 /\ searchUnchanged /\ pc' = pc /\ b' = b
      /\ A' = A /\ i' = i - 1
      /\ Unwound(i, batch_Z, products, running, batch_Z', running')
      /\ batch_X' = batch_X /\ batch_Y' = batch_Y /\ products' = products
      /\ slot' = slot /\ mine' = mine /\ matches' = matches
  BY DEF Extract, ExtractLane, Unwound
<1>2. pc \in SearchLabels /\ pc' \in SearchLabels \cup {"left"}
  BY <1>1 DEF SearchLabels
<1>3. /\ batch_Z' \in LaneValues /\ running' \in Fe
      /\ BatchInv("extract", kernel, my_scalar, b, i - 1, A, batch_X, batch_Y, batch_Z',
                  products, running')
  BY <1>1, <1>2, InLoop, BatchExtract
<1>4. TestedAt("extract", b, i - 1) = TestedAt("extract", b, i)
  BY DEF TestedAt
<1>5. FoundInv(pc', kernel, my_scalar, wanted, b', TestedAt(pc', b', i'), slot', mine',
               matches', TRUE)
  BY <1>1, <1>2, <1>4, InLoop
<1>. QED  BY <1>1, <1>2, <1>3, <1>5, InLoop, LoopKeeps

\* ExtractFirst the Z of the first lane.
LEMMA ExtractFirstKeeps == ASSUME KInv, ExtractFirst PROVE KInv'
<1>1. /\ pc = "extract" /\ i = 0 /\ searchUnchanged /\ pc' = "check" /\ b' = b
      /\ A' = A /\ i' = i /\ batch_Z' = [batch_Z EXCEPT ![0] = running]
      /\ batch_X' = batch_X /\ batch_Y' = batch_Y /\ products' = products
      /\ running' = running /\ slot' = slot /\ mine' = mine /\ matches' = matches
  BY DEF ExtractFirst
<1>2. pc \in SearchLabels /\ pc' \in SearchLabels \cup {"left"}
  BY <1>1 DEF SearchLabels
<1>3. /\ batch_Z' \in LaneValues
      /\ BatchInv("check", kernel, my_scalar, b, i, A, batch_X, batch_Y, batch_Z',
                  products, running)
  BY <1>1, <1>2, InLoop, BatchFirst
<1>4. TestedAt("check", b, i) = TestedAt("extract", b, i)
  BY <1>1 DEF TestedAt
<1>5. FoundInv("check", kernel, my_scalar, wanted, b, TestedAt("check", b, i), slot,
               mine, matches, TRUE)
  <2>1. /\ FoundInv("extract", kernel, my_scalar, wanted, b, TestedAt("extract", b, i), slot, mine,
                    matches, TRUE)
        /\ kernel \in {"search", "count"}
    BY <1>1, <1>2, InLoop
  <2>2. SearchLabels = {"enter", "gather", "extract", "check"}
    BY DEF SearchLabels
  <2>. QED  BY <2>1, <2>2, <1>4, FoundSame
<1>. QED  BY <1>1, <1>2, <1>3, <1>5, InLoop, LoopKeeps

\* The key that a lane is checked by is that of the candidate.
LEMMA CheckedKey ==
  ASSUME KInv, Checking, NEW t, t = TestedAt("check", b, i)
  PROVE  /\ pc = "check" /\ pc \in SearchLabels
         /\ BatchInv("check", kernel, my_scalar, b, i + 1, A, batch_X, batch_Y, batch_Z,
                     products, running)
         /\ t \in 0 .. Iters - 1 /\ t \in Nat /\ t = b * VANITY_BATCH + i
         /\ TestedAt("check", b, i + 1) = t + 1
         /\ Key = Times(my_scalar + 8 * t)[2]
         /\ Wanted(Key) <=> Seeks(wanted, Times(my_scalar + 8 * t)[2])
         /\ kernel = "search" =>
              fe_mul(batch_X[i], batch_Z[i]) = Times(my_scalar + 8 * t)[1]
<1>1. pc = "check" /\ i < VANITY_BATCH /\ pc \in SearchLabels
  BY DEF Checking, SearchLabels
<1>2. /\ BatchInv("check", kernel, my_scalar, b, i + 1, A, batch_X, batch_Y, batch_Z,
                  products, running)
      /\ t \in 0 .. Iters - 1 /\ t = b * VANITY_BATCH + i
      /\ TestedAt("check", b, i + 1) = t + 1
      /\ fe_mul(batch_Y[i], batch_Z[i]) = Times(my_scalar + 8 * t)[2]
      /\ kernel = "search" =>
           fe_mul(batch_X[i], batch_Z[i]) = Times(my_scalar + 8 * t)[1]
  BY <1>1, InLoop, CheckedLane
<1>3. Key = Times(my_scalar + 8 * t)[2]
  BY <1>2 DEF Key, fe_tobytes
<1>4. Wanted(Key) <=> Seeks(wanted, Times(my_scalar + 8 * t)[2])
  BY <1>3 DEF Wanted, Seeks
<1>5. t \in Nat
  BY <1>2
<1>. QED  BY <1>1, <1>2, <1>3, <1>4, <1>5

\* Pass goes on to the next lane.
LEMMA PassKeeps == ASSUME KInv, Pass PROVE KInv'
<1>1. /\ Checking /\ ~Wanted(Key) /\ searchUnchanged /\ pc' = pc /\ b' = b
      /\ A' = A /\ i' = i + 1
      /\ batch_X' = batch_X /\ batch_Y' = batch_Y /\ batch_Z' = batch_Z
      /\ products' = products /\ running' = running
      /\ slot' = slot /\ mine' = mine /\ matches' = matches
  BY DEF Pass, batchVars
<1>. DEFINE t == TestedAt("check", b, i)
<1>2. /\ pc = "check" /\ pc \in SearchLabels
      /\ BatchInv("check", kernel, my_scalar, b, i + 1, A, batch_X, batch_Y, batch_Z,
                  products, running)
      /\ t \in Nat /\ TestedAt("check", b, i + 1) = t + 1
      /\ ~Seeks(wanted, Times(my_scalar + 8 * t)[2])
  BY <1>1, CheckedKey
<1>3. FoundInv("check", kernel, my_scalar, wanted, b, t, slot, mine, matches, TRUE)
  BY <1>2, InLoop
<1>. HIDE DEF t
<1>4. FoundInv("check", kernel, my_scalar, wanted, b, t + 1, slot, mine, matches, TRUE)
  BY <1>2, <1>3, FoundPass
<1>5. FoundInv("check", kernel, my_scalar, wanted, b, TestedAt("check", b, i + 1), slot,
               mine, matches, TRUE)
  BY <1>2, <1>4
<1>. QED  BY <1>1, <1>2, <1>5, InLoop, LoopKeeps

\* Count counts the lane.
LEMMA CountKeeps == ASSUME KInv, Count PROVE KInv'
<1>1. /\ Checking /\ Wanted(Key) /\ kernel = "count" /\ searchUnchanged /\ pc' = pc
      /\ b' = b /\ A' = A /\ i' = i + 1
      /\ batch_X' = batch_X /\ batch_Y' = batch_Y /\ batch_Z' = batch_Z
      /\ products' = products /\ running' = running
      /\ slot' = slot /\ mine' = mine /\ matches' = matches + 1
  BY DEF Count, batchVars
<1>. DEFINE t == TestedAt("check", b, i)
<1>2. /\ pc = "check" /\ pc \in SearchLabels
      /\ BatchInv("check", kernel, my_scalar, b, i + 1, A, batch_X, batch_Y, batch_Z,
                  products, running)
      /\ t \in Nat /\ TestedAt("check", b, i + 1) = t + 1
      /\ Seeks(wanted, Times(my_scalar + 8 * t)[2])
  BY <1>1, CheckedKey
<1>3. FoundInv("check", kernel, my_scalar, wanted, b, t, slot, mine, matches, TRUE)
  BY <1>2, InLoop
<1>. HIDE DEF t
<1>4. FoundInv("check", kernel, my_scalar, wanted, b, t + 1, slot, mine, matches + 1, TRUE)
  BY <1>1, <1>2, <1>3, FoundCount
<1>5. FoundInv("check", kernel, my_scalar, wanted, b, TestedAt("check", b, i + 1), slot,
               mine, matches + 1, TRUE)
  BY <1>2, <1>4
<1>6. matches + 1 \in Nat
  BY <1>2, InLoop
<1>. QED  BY <1>1, <1>2, <1>5, <1>6, InLoop, LoopKeeps

\* Hit emits the lane where the slot is free.
LEMMA HitKeeps == ASSUME KInv, Hit PROVE KInv'
<1>. DEFINE written == [flag |-> 1,
                        pubkey |-> Key + TopBit *
                                     fe_isnegative(fe_mul(batch_X[i], batch_Z[i])),
                        scalar |-> MatchScalar]
<1>1. /\ Checking /\ Wanted(Key) /\ kernel = "search" /\ searchUnchanged /\ pc' = "left"
      /\ b' = b /\ A' = A /\ i' = i
      /\ batch_X' = batch_X /\ batch_Y' = batch_Y /\ batch_Z' = batch_Z
      /\ products' = products /\ running' = running /\ matches' = matches
      /\ IF slot.flag = 0 THEN slot' = written /\ mine' = TRUE
                          ELSE slot' = slot /\ mine' = mine
  BY DEF Hit, batchVars
<1>. DEFINE t == TestedAt("check", b, i)  pt == Times(my_scalar + 8 * t)
<1>2. /\ pc = "check" /\ pc \in SearchLabels /\ t \in 0 .. Iters - 1
      /\ t = b * VANITY_BATCH + i
      /\ Key = pt[2] /\ Seeks(wanted, pt[2])
      /\ fe_mul(batch_X[i], batch_Z[i]) = pt[1]
  BY <1>1, CheckedKey
<1>3. FoundInv("check", kernel, my_scalar, wanted, b, t, slot, mine, matches, TRUE)
  BY <1>2, InLoop
<1>4. MatchScalar = my_scalar + 8 * t
  BY <1>2 DEF MatchScalar
<1>. HIDE DEF t, pt
<1>5. /\ written.flag = 1 /\ written.scalar = my_scalar + 8 * t
      /\ written.pubkey = EncodingOf(pt)
  BY <1>2, <1>4 DEF EncodingOf, fe_isnegative, fe_tobytes
<1>6. written \in SlotType
  <2>1. my_scalar \in Int /\ t \in Int /\ TopBit \in Int
    BY <1>2, InLoop, FieldAssumption
  <2>2. my_scalar + 8 * t \in Int
    BY <2>1
  <2>3. pt \in Curve
    BY <2>2, PointType DEF pt
  <2>4. pt[1] \in Int /\ pt[2] \in Int
    BY <2>3, CurvePoint
  <2>5. EncodingOf(pt) \in Int
    BY <2>1, <2>4 DEF EncodingOf
  <2>6. written.scalar \in Int /\ written.pubkey \in Int
    BY <1>5, <2>2, <2>5
  <2>. QED  BY <2>6 DEF SlotType
<1>. HIDE DEF written
<1>7. /\ slot' \in SlotType /\ mine' \in BOOLEAN
      /\ \/ /\ slot'.flag = 1 /\ slot'.scalar = my_scalar + 8 * t
            /\ slot'.pubkey = EncodingOf(Times(my_scalar + 8 * t))
         \/ slot' = slot /\ mine' = mine /\ slot.flag # 0
  <2>1. CASE slot.flag = 0
    BY <1>1, <1>5, <1>6, <2>1 DEF pt
  <2>2. CASE slot.flag # 0
    BY <1>1, <1>2, <2>2, InLoop
  <2>. QED  BY <2>1, <2>2
<1>8. FoundInv("left", kernel, my_scalar, wanted, b, t, slot', mine', matches, TRUE)
  <2>1. my_scalar \in Int
    BY <1>2, InLoop
  <2>2. Seeks(wanted, Times(my_scalar + 8 * t)[2])
    BY <1>2 DEF pt
  <2>. QED  BY <1>1, <1>2, <1>3, <1>7, <2>1, <2>2, FoundHit
<1>9. FoundInv("left", kernel, my_scalar, wanted, b, TestedAt("left", b, i), slot', mine',
               matches, TRUE)
  BY <1>8, Zenon DEF FoundInv
<1>10. BatchInv("left", kernel, my_scalar, b, i, A, batch_X, batch_Y, batch_Z, products,
                running)
  BY DEF BatchInv
<1>. QED  BY <1>1, <1>2, <1>7, <1>9, <1>10, InLoop, LoopKeeps

\* NextBatch ends a batch.
LEMMA NextBatchKeeps == ASSUME KInv, NextBatch PROVE KInv'
<1>1. /\ pc = "check" /\ i = VANITY_BATCH /\ searchUnchanged /\ pc' = "enter" /\ b' = b + 1
      /\ A' = A /\ i' = i
      /\ batch_X' = batch_X /\ batch_Y' = batch_Y /\ batch_Z' = batch_Z
      /\ products' = products /\ running' = running
      /\ slot' = slot /\ mine' = mine /\ matches' = matches
  BY DEF NextBatch, EndBatch, batchVars
<1>2. pc \in SearchLabels /\ pc' \in SearchLabels \cup {"left"}
  BY <1>1 DEF SearchLabels
<1>3. /\ b + 1 \in 0 .. Batches
      /\ BatchInv("enter", kernel, my_scalar, b + 1, i, A, batch_X, batch_Y, batch_Z,
                  products, running)
      /\ TestedAt("enter", b + 1, i) = TestedAt("check", b, i)
  BY <1>1, <1>2, InLoop, BatchNext
<1>4. FoundInv("enter", kernel, my_scalar, wanted, b + 1, TestedAt("enter", b + 1, i), slot,
               mine, matches, TRUE)
  <2>1. /\ FoundInv("check", kernel, my_scalar, wanted, b, TestedAt("check", b, i), slot, mine,
                    matches, TRUE)
        /\ kernel \in {"search", "count"}
    BY <1>1, <1>2, InLoop
  <2>2. SearchLabels = {"enter", "gather", "extract", "check"}
    BY DEF SearchLabels
  <2>. QED  BY <2>1, <2>2, <1>3, FoundSame
<1>. QED  BY <1>1, <1>2, <1>3, <1>4, InLoop, LoopKeeps

\* OtherHit takes the slot away.
LEMMA OtherHitKeeps == ASSUME KInv, OtherHit PROVE KInv'
<1>1. /\ kernel = "search" /\ slot.flag = 0 /\ pc # "left"
      /\ slot' = [slot EXCEPT !.flag = 1]
      /\ searchUnchanged /\ pc' = pc /\ b' = b /\ A' = A /\ i' = i
      /\ batch_X' = batch_X /\ batch_Y' = batch_Y /\ batch_Z' = batch_Z
      /\ products' = products /\ running' = running /\ mine' = mine /\ matches' = matches
  BY DEF OtherHit, batchVars
<1>2. pc \in SearchLabels /\ pc' \in SearchLabels \cup {"left"} /\ pc \notin {"left", "verify"}
  <2>1. KTypeOK
    BY DEF KInv
  <2>. QED  BY <1>1, <2>1, Types DEF SearchLabels
<1>3. slot' \in SlotType /\ slot'.flag # 0
  <2>1. slot \in SlotType
    BY <1>2, InLoop
  <2>. QED  BY <1>1, <2>1 DEF SlotType
<1>4. FoundInv(pc, kernel, my_scalar, wanted, b, TestedAt(pc, b, i), slot', mine, matches,
               TRUE)
  BY <1>1, <1>2, <1>3, InLoop, FoundOther
<1>. QED  BY <1>1, <1>2, <1>3, <1>4, InLoop, LoopKeeps

\* The multiplication touches nothing of the loops.
LEMMA MultiplyStepKeeps == ASSUME KInv, Multiply PROVE KInv'
<1>1. /\ ScalarMultStep
      /\ kernel' = kernel /\ wanted' = wanted /\ b' = b
      /\ batch_X' = batch_X /\ batch_Y' = batch_Y /\ batch_Z' = batch_Z
      /\ products' = products /\ running' = running
      /\ slot' = slot /\ mine' = mine /\ matches' = matches /\ out' = out
  BY DEF Multiply, callVars, batchVars
<1>2. ScalarMultInv /\ KTypeOK /\ BatchOK /\ FoundOK /\ ChainOK
  BY DEF KInv
<1>3. ScalarMultInv'
  BY <1>1, <1>2, MultiplyKeeps
<1>4. /\ pc \in {"recode", "odd", "even", "done"} /\ pc' \in {"recode", "odd", "even", "done"}
      /\ my_scalar' = my_scalar
  BY <1>1 DEF ScalarMultStep, Recode, RecodeLast, AddOdd, AddEven, AddDigit, TimesSixteen,
              Return
<1>5. kernel = "none"
  BY <1>2, <1>4, Types
<1>6. KTypeOK'
  BY <1>1, <1>2, <1>4, <1>5, Types, TypesNext DEF SearchLabels
<1>7. BatchOK'
  <2>1. my_scalar' \in Int /\ b' \in Int
    BY <1>2, <1>3, <1>6, TypesNext DEF ScalarMultInv
  <2>2. BatchInv(pc', kernel', my_scalar', b', i', A', batch_X', batch_Y', batch_Z',
                 products', running')
    BY <1>4 DEF BatchInv
  <2>. QED  BY <2>1, <2>2, BatchInvNext
<1>8. FoundOK'
  <2>1. FoundInv(pc, kernel, my_scalar, wanted, b, TestedAt(pc, b, i), slot, mine, matches,
                 out = <<>>)
    BY <1>2, FoundInvForm
  <2>2. FoundInv(pc', kernel', my_scalar', wanted', b', TestedAt(pc', b', i'), slot', mine',
                 matches', out' = <<>>)
    BY <1>1, <1>4, <1>5, <2>1 DEF FoundInv
  <2>. QED  BY <2>2, FoundInvNext
<1>9. ChainOK'
  <2>1. ChainInv(pc, kernel, my_scalar, i, A, out)
    BY <1>2, ChainInvForm
  <2>2. ChainInv(pc', kernel', my_scalar', i', A', out')
    BY <1>1, <1>4, <2>1 DEF ChainInv
  <2>. QED  BY <2>2, ChainInvForm
<1>. QED  BY <1>3, <1>6, <1>7, <1>8, <1>9 DEF KInv

\* The kernel begins with the point of its start.
LEMMA BeginKeeps == ASSUME KInv, Begin PROVE KInv'
<1>1. /\ pc = "done" /\ my_scalar \in Starts /\ i' = 0
      /\ kernel' \in {"search", "count", "verify"}
      /\ pc' = (IF kernel' = "verify" THEN "verify" ELSE "enter")
      /\ my_scalar' = my_scalar /\ e' = e /\ carry' = carry /\ A' = A /\ b' = b
      /\ batch_X' = batch_X /\ batch_Y' = batch_Y /\ batch_Z' = batch_Z
      /\ products' = products /\ running' = running
      /\ slot' = slot /\ mine' = mine /\ matches' = matches /\ out' = out
  BY DEF Begin, digitVars, batchVars
<1>2. ScalarMultInv /\ KTypeOK /\ BatchOK /\ FoundOK /\ ChainOK
  BY DEF KInv
<1>3. kernel = "none" /\ pc' \in {"enter", "verify"}
  BY <1>1, <1>2, Types
<1>4. /\ my_scalar \in Nat /\ my_scalar \in Int /\ e \in DigitStrings /\ carry \in {0, 1}
      /\ Stands(A, my_scalar)
  BY <1>1, <1>2 DEF ScalarMultInv, DigitStrings, SumOK
<1>5. ScalarMultInv'
  BY <1>1, <1>3, <1>4, MulOver, MulInvForm
<1>6. KTypeOK'
  BY <1>1, <1>2, <1>3, Types, TypesNext DEF SearchLabels
<1>7. b = 0 /\ slot.flag = 0 /\ ~mine /\ matches = 0
  <2>1. FoundInv(pc, kernel, my_scalar, wanted, b, TestedAt(pc, b, i), slot, mine, matches,
                 out = <<>>)
    BY <1>2, FoundInvForm
  <2>. QED  BY <1>3, <2>1 DEF FoundInv
<1>8. out = <<>>
  BY <1>2, <1>3 DEF ChainOK
<1>9. BatchOK'
  <2>1. 0 * VANITY_BATCH = 0 /\ my_scalar + 8 * 0 = my_scalar
    BY <1>4, LoopSizes
  <2>2. BatchInv(pc', kernel', my_scalar, 0, 0, A, batch_X, batch_Y, batch_Z, products,
                 running)
    BY <1>3, <1>4, <2>1 DEF BatchInv
  <2>3. my_scalar' \in Int /\ b' \in Int
    BY <1>1, <1>4, <1>7
  <2>. QED  BY <1>1, <1>7, <2>2, <2>3, BatchInvNext
<1>10. FoundOK'
  <2>1. TestedAt(pc', b', i') = 0 * VANITY_BATCH + 0
    BY <1>1, <1>3, <1>7 DEF TestedAt
  <2>2. 0 * VANITY_BATCH + 0 = 0 /\ 0 \in Nat
    BY LoopSizes
  <2>3. TestedAt(pc', b', i') = 0
    BY <2>1, <2>2
  <2>4. HitsOf(my_scalar, wanted', 0) = {}
    BY <2>2, OneMoreHit
  <2>5. Cardinality(HitsOf(my_scalar, wanted', 0)) = 0
    BY <2>4, FS_EmptySet
  <2>6. FoundInv(pc', kernel', my_scalar, wanted', 0, 0, slot, mine, matches, TRUE)
    BY <1>1, <1>3, <1>7, <2>4, <2>5 DEF FoundInv
  <2>7. FoundInv(pc', kernel', my_scalar, wanted', 0, 0, slot, mine, matches, out' = <<>>)
    BY <1>1, <1>8, <2>6, Zenon DEF FoundInv
  <2>. QED  BY <1>1, <1>7, <2>3, <2>7, FoundInvNext
<1>11. ChainOK'
  <2>1. ChainInv(pc', kernel', my_scalar, 0, A, <<>>)
    BY <1>4, LoopSizes DEF ChainInv
  <2>. QED  BY <1>1, <1>8, <2>1, ChainInvForm
<1>. QED  BY <1>5, <1>6, <1>9, <1>10, <1>11 DEF KInv

\* The verification kernel writes one key more.
LEMMA VerifyKeeps == ASSUME KInv, Verify PROVE KInv'
<1>1. /\ pc = "verify" /\ i < VerifyCount /\ pc' = pc
      /\ out' = Append(out, [pubkey |-> ge_p3_tobytes(A), scalar |-> my_scalar])
      /\ A' = ge_p1p1_to_p3(ge_madd(A, EightB))
      /\ my_scalar' = my_scalar + 8 /\ i' = i + 1
      /\ e' = e /\ carry' = carry /\ kernel' = kernel /\ wanted' = wanted /\ b' = b
      /\ batch_X' = batch_X /\ batch_Y' = batch_Y /\ batch_Z' = batch_Z
      /\ products' = products /\ running' = running
      /\ slot' = slot /\ mine' = mine /\ matches' = matches
  BY DEF Verify, digitVars, callVars, batchVars
<1>2. ScalarMultInv /\ KTypeOK /\ BatchOK /\ FoundOK /\ ChainOK
  BY DEF KInv
<1>3. kernel = "verify" /\ out \in Seq(Records)
  BY <1>1, <1>2, Types
<1>4. my_scalar \in Nat /\ my_scalar \in Int /\ e \in DigitStrings /\ carry \in {0, 1}
  BY <1>2 DEF ScalarMultInv, DigitStrings
<1>5. my_scalar + 8 \in Nat
  BY <1>4
<1>6. ScalarMultInv'
  BY <1>1, <1>4, <1>5, MulOver, MulInvForm
<1>7. /\ FoundInv("verify", "verify", my_scalar, wanted, b, TestedAt(pc, b, i), slot, mine,
                  matches, out = <<>>)
      /\ ChainInv("verify", kernel, my_scalar, i, A, out)
  BY <1>1, <1>2, <1>3, FoundInvForm, ChainInvForm
<1>8. out = <<>> => my_scalar \in Starts
  BY <1>7 DEF FoundInv
<1>9. i \in Int
  BY <1>7, LoopSizes DEF ChainInv
<1>10. /\ out' \in Seq(Records) /\ out' # <<>>
       /\ ChainInv("verify", kernel, my_scalar + 8, i + 1, A', out')
  BY <1>1, <1>3, <1>4, <1>7, <1>8, <1>9, VerifyOne
<1>11. KTypeOK'
  BY <1>1, <1>2, <1>3, <1>10, Types, TypesNext
<1>12. BatchOK'
  <2>1. my_scalar' \in Int /\ b' \in Int
    BY <1>1, <1>5, <1>11, TypesNext
  <2>2. BatchInv(pc', kernel', my_scalar', b', i', A', batch_X', batch_Y', batch_Z',
                 products', running')
    BY <1>1 DEF BatchInv
  <2>. QED  BY <2>1, <2>2, BatchInvNext
<1>13. FoundOK'
  <2>1. FoundInv("verify", "verify", my_scalar', wanted, b, TestedAt(pc', b', i'), slot,
                 mine, matches, out' = <<>>)
    BY <1>7, <1>10 DEF FoundInv
  <2>. QED  BY <1>1, <1>3, <2>1, FoundInvNext
<1>14. ChainOK'
  BY <1>1, <1>10, ChainInvForm
<1>. QED  BY <1>6, <1>11, <1>12, <1>13, <1>14 DEF KInv

\* A step that changes nothing.
LEMMA StutterKeeps == ASSUME KInv, UNCHANGED vars PROVE KInv'
<1>1. /\ pc' = pc /\ my_scalar' = my_scalar /\ e' = e /\ carry' = carry /\ i' = i /\ A' = A
      /\ kernel' = kernel /\ wanted' = wanted /\ b' = b
      /\ batch_X' = batch_X /\ batch_Y' = batch_Y /\ batch_Z' = batch_Z
      /\ products' = products /\ running' = running
      /\ slot' = slot /\ mine' = mine /\ matches' = matches /\ out' = out
  BY DEF vars, digitVars, callVars, batchVars
<1>2. ScalarMultInv /\ KTypeOK /\ BatchOK /\ FoundOK /\ ChainOK
  BY DEF KInv
<1>3. ScalarMultInv'
  BY <1>1, <1>2, MulInvForm
<1>4. KTypeOK'
  BY <1>1, <1>2, Types, TypesNext
<1>5. my_scalar \in Int /\ b \in Int
  BY <1>2, Types DEF ScalarMultInv
<1>6. BatchOK'
  BY <1>1, <1>2, <1>5, BatchInvForm, BatchInvNext
<1>7. FoundOK' /\ ChainOK'
  BY <1>1, <1>2, FoundInvForm, FoundInvNext, ChainInvForm
<1>. QED  BY <1>3, <1>4, <1>6, <1>7 DEF KInv

\* The initial states.
LEMMA InitKeeps == ASSUME Init PROVE KInv
<1>1. /\ ScalarMultInit
      /\ kernel = "none" /\ wanted = {} /\ b = 0
      /\ batch_X = [k \in Lanes |-> 0] /\ batch_Y = batch_X
      /\ batch_Z = batch_X /\ products = batch_X /\ running = 0
      /\ slot = [flag |-> 0, pubkey |-> 0, scalar |-> 0]
      /\ mine = FALSE /\ matches = 0 /\ out = <<>>
  BY DEF Init
<1>2. pc = "recode"
  BY <1>1 DEF ScalarMultInit
<1>3. ScalarMultInv
  BY <1>1, MultiplyKeeps
<1>4. KTypeOK
  <2>1. batch_X \in LaneValues /\ running \in Fe
    BY <1>1, ResUnits DEF LaneValues
  <2>2. slot \in SlotType /\ out \in Seq(Records) /\ b \in 0 .. Batches
    BY <1>1, LoopSizes DEF SlotType
  <2>. QED  BY <1>1, <1>2, <2>1, <2>2, Types DEF SearchLabels
<1>5. BatchOK
  BY <1>2 DEF BatchOK
<1>6. FoundOK
  <2>1. FoundInv(pc, kernel, my_scalar, wanted, b, TestedAt(pc, b, i), slot, mine, matches,
                 out = <<>>)
    BY <1>1, <1>2 DEF FoundInv
  <2>. QED  BY <2>1, FoundInvForm
<1>7. ChainOK
  <2>1. ChainInv(pc, kernel, my_scalar, i, A, <<>>)
    BY <1>2 DEF ChainInv
  <2>. QED  BY <1>1, <2>1, ChainInvForm
<1>. QED  BY <1>3, <1>4, <1>5, <1>6, <1>7 DEF KInv

-----------------------------------------------------------------------------
(***************************************************************************)
(* 6. The theorems.                                                        *)
(***************************************************************************)
\* Every reachable state satisfies the inductive invariant: the digits and the
\* point of ge_scalarmult_base, the lanes and the product chain of a batch, the
\* matches found and the keys written are what the loops left so far.
THEOREM KernelInvariant == Spec => []KInv
<1>1. Init => KInv
  BY InitKeeps
<1>2. KInv /\ [Next]_vars => KInv'
  <2>. SUFFICES ASSUME KInv, [Next]_vars PROVE KInv'
    OBVIOUS
  <2>1. CASE Multiply
    BY <2>1, MultiplyStepKeeps
  <2>2. CASE Begin
    BY <2>2, BeginKeeps
  <2>3. CASE Enter
    BY <2>3, EnterKeeps
  <2>4. CASE Gather
    BY <2>4, GatherKeeps
  <2>5. CASE Invert
    BY <2>5, InvertKeeps
  <2>6. CASE Extract
    BY <2>6, ExtractKeeps
  <2>7. CASE ExtractFirst
    BY <2>7, ExtractFirstKeeps
  <2>8. CASE Pass
    BY <2>8, PassKeeps
  <2>9. CASE Count
    BY <2>9, CountKeeps
  <2>10. CASE Hit
    BY <2>10, HitKeeps
  <2>11. CASE NextBatch
    BY <2>11, NextBatchKeeps
  <2>12. CASE OtherHit
    BY <2>12, OtherHitKeeps
  <2>13. CASE Verify
    BY <2>13, VerifyKeeps
  <2>14. CASE UNCHANGED vars
    BY <2>14, StutterKeeps
  <2>. QED  BY <2>1, <2>2, <2>3, <2>4, <2>5, <2>6, <2>7, <2>8, <2>9, <2>10, <2>11,
               <2>12, <2>13, <2>14 DEF Next, Terminated
<1>. QED  BY <1>1, <1>2, PTL DEF Spec

\* The signed digits make up the scalar, and each is one the table holds.
THEOREM DigitsAlwaysMakeTheScalar == Spec => []DigitsMakeTheScalar
<1>1. KInv => DigitsMakeTheScalar
  BY DEF KInv, ScalarMultInv
<1>. QED  BY <1>1, KernelInvariant, PTL

\* ge_scalarmult_base computes the multiple of the base point: at each step the
\* point is the one the digits added so far stand for.
THEOREM ScalarMultiplicationIsCorrect == Spec => []PartialProduct
<1>1. KInv => PartialProduct
  <2>. SUFFICES ASSUME KInv, Multiplying PROVE PartialProduct
    BY DEF PartialProduct
  <2>1. RecodeOK /\ SumOK
    BY DEF KInv, ScalarMultInv
  <2>2. CASE pc = "recode"
    <3>1. Stands(A, 0)
      BY <2>1, <2>2, NeutralStands DEF RecodeOK
    <3>. QED  BY <2>2, <3>1 DEF PartialProduct, Stands
  <2>3. CASE pc = "odd"
    BY <2>1, <2>3 DEF PartialProduct, SumOK, Stands
  <2>4. CASE pc = "even"
    BY <2>1, <2>4 DEF PartialProduct, SumOK, Stands
  <2>5. CASE pc = "done"
    BY <2>1, <2>5 DEF PartialProduct, SumOK, Stands
  <2>. QED  BY <2>2, <2>3, <2>4, <2>5 DEF Multiplying
<1>. QED  BY <1>1, KernelInvariant, PTL

\* One inversion serves a whole batch: the lanes that are checked are the affine
\* points of the chain, one after the other.
THEOREM LanesAlwaysAreChainPoints == Spec => []LanesAreChainPoints
<1>1. KInv => LanesAreChainPoints
  BY DEF KInv, BatchOK, Extracted, LanePoint, LanesAreChainPoints
<1>. QED  BY <1>1, KernelInvariant, PTL

\* A thread that takes the slot writes the first match of its chain, the scalar
\* with the encoding of its own point.
THEOREM FirstMatchIsAlwaysEmitted == Spec => []FirstMatchIsEmitted
<1>1. KInv => FirstMatchIsEmitted
  BY DEF KInv, FoundOK
<1>. QED  BY <1>1, KernelInvariant, PTL

\* A thread that ran to the end has tested all its candidates once.
THEOREM NothingIsSkipped == Spec => []NothingSkipped
<1>1. KInv => NothingSkipped
  BY DEF KInv, FoundOK
<1>. QED  BY <1>1, KernelInvariant, PTL

\* The verification kernel writes the chain from the start on, in step.
THEOREM VerifierAlwaysSeesTheChain == Spec => []VerifierSeesTheChain
<1>1. KInv => VerifierSeesTheChain
  BY DEF KInv, ChainOK
<1>. QED  BY <1>1, KernelInvariant, PTL
=============================================================================
