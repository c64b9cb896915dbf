------------------------------ MODULE SumLemmas ------------------------------
(***************************************************************************)
(* Facts about least elements, products, division, powers and SumUpTo:     *)
(* what changing one entry does to a sum, and how bounds on the entries    *)
(* bound it.                                                               *)
(***************************************************************************)
EXTENDS Sums, FiniteSetsExt, TLAPS, WellFoundedInduction

\* A nonempty set of naturals has a least element, which Min returns.
LEMMA MinInSet ==
  ASSUME NEW S \in SUBSET Nat, S # {}
  PROVE  Min(S) \in S /\ \A x \in S : Min(S) <= x
<1>1. PICK m \in S : \A y \in S : <<y, m>> \notin OpToRel(<, Nat)
  BY NatLessThanWellFounded, WFMin, Zenon
<1>2. \A y \in S : ~(y < m)
  BY <1>1, Zenon DEF OpToRel
<1>3. \A y \in S : m <= y
  BY <1>2
<1>. QED  BY <1>3 DEF Min

\* The larger of a number and 1 is at least 1.
LEMMA MaxWithOne ==
  ASSUME NEW a \in Int
  PROVE  Max({a, 1}) \in Nat \ {0}
<1>1. \E x \in {a, 1} : \A y \in {a, 1} : x >= y
  BY a >= 1 \/ 1 >= a
<1>2. Max({a, 1}) \in {a, 1} /\ \A y \in {a, 1} : Max({a, 1}) >= y
  BY <1>1, Zenon DEF Max
<1>. QED  BY <1>2

\* Division with remainder.
LEMMA Quotient ==
  ASSUME NEW a \in Int, NEW c \in Int, c > 0
  PROVE  a = c * (a \div c) + (a % c) /\ a \div c \in Int
OBVIOUS

\* Products over sums.
LEMMA Distribute ==
  ASSUME NEW a \in Int, NEW b \in Int, NEW c \in Int
  PROVE  (a + b) * c = a * c + b * c /\ (a - b) * c = a * c - b * c
         /\ a * c \in Int /\ b * c \in Int
OBVIOUS

\* Three factors, in either grouping.
LEMMA Regroup ==
  ASSUME NEW a \in Int, NEW b \in Int, NEW c \in Int
  PROVE  (a * b) * c = a * (b * c) /\ a * b = b * a /\ a * b \in Int
OBVIOUS

\* A product of larger factors is larger.
LEMMA ProductGrows ==
  ASSUME NEW a \in Int, NEW b \in Int, NEW c \in Nat, a <= b
  PROVE  a * c <= b * c /\ a * c \in Int /\ b * c \in Int
OBVIOUS

\* Remainder and quotient by a positive number are the only ones.
LEMMA QuotientUnique ==
  ASSUME NEW a \in Int, NEW m \in Nat \ {0}, NEW q \in Int, NEW r \in 0..(m - 1),
         a = r + q * m
  PROVE  a % m = r /\ a \div m = q
<1>. DEFINE d == a \div m
            e == a % m
<1>1. a = m * d + e /\ d \in Int /\ e \in 0..(m - 1)
  BY Quotient
<1>. HIDE DEF d, e
<1>2. m * d = d * m /\ d * m \in Int /\ q * m \in Int
  BY <1>1, Regroup
<1>3. (q - d) * m = q * m - d * m /\ (q - d) * m = e - r
  BY <1>1, <1>2, Distribute
<1>4. q = d
  <2>1. CASE q - d >= 1
    <3>1. 1 * m <= (q - d) * m
      BY <1>1, <2>1, ProductGrows
    <3>. QED  BY <1>1, <1>3, <3>1
  <2>2. CASE q - d <= -1
    <3>1. (q - d) * m <= (-1) * m /\ (-1) * m = -m
      BY <1>1, <2>2, ProductGrows
    <3>. QED  BY <1>1, <1>3, <3>1
  <2>. QED  BY <1>1, <2>1, <2>2
<1>5. e = r
  BY <1>1, <1>2, <1>4
<1>. QED  BY <1>4, <1>5 DEF d, e

\* Induction from 0 to n, for a set instead of a predicate.
LEMMA UpTo ==
  ASSUME NEW n \in Nat, NEW S, 0 \in S,
         \A k \in 1..n : k - 1 \in S => k \in S
  PROVE  \A k \in 0..n : k \in S
<1>. DEFINE Bad == (0..n) \ S
<1>. SUFFICES ASSUME Bad # {} PROVE FALSE
  OBVIOUS
<1>. DEFINE m == Min(Bad)
<1>1. m \in Bad /\ \A x \in Bad : m <= x
  BY MinInSet
<1>. HIDE DEF m
<1>2. m \in 1..n
  BY <1>1
<1>3. m - 1 \in S
  BY <1>1, <1>2
<1>. QED  BY <1>1, <1>2, <1>3

\* One step of the recursive definition of the powers 0 to n of c.
PowersBody(p, c, n) == [j \in 0..n |-> IF j = 0 THEN 1 ELSE c * p[j - 1]]

\* Powers exist.
LEMMA PowersExist ==
  ASSUME NEW n \in Nat, NEW c \in Nat
  PROVE  \E p : p = PowersBody(p, c, n)
<1>. DEFINE S == {m \in 0..n : \E p \in [0..m -> Int] : p = PowersBody(p, c, m)}
<1>1. 0 \in S
  <2>. DEFINE p == [j \in 0..0 |-> 1]
  <2>1. p \in [0..0 -> Int] /\ p = PowersBody(p, c, 0)
    BY DEF PowersBody
  <2>. QED  BY <2>1
<1>2. ASSUME NEW m \in 1..n, m - 1 \in S PROVE m \in S
  <2>1. PICK p \in [0..(m - 1) -> Int] : p = PowersBody(p, c, m - 1)
    BY <1>2
  <2>. DEFINE q == PowersBody(p, c, m)
  <2>2. q \in [0..m -> Int]
    BY DEF PowersBody
  <2>3. \A j \in 0..(m - 1) : q[j] = p[j]
    BY <2>1 DEF PowersBody
  <2>4. \A j \in 0..m : j # 0 => j - 1 \in 0..(m - 1)
    OBVIOUS
  <2>5. q = PowersBody(q, c, m)
    BY <2>3, <2>4 DEF PowersBody
  <2>. QED  BY <2>2, <2>5
<1>. HIDE DEF S
<1>3. n \in S
  <2>1. \A m \in 0..n : m \in S
    BY <1>1, <1>2, UpTo, Zenon
  <2>. QED  BY <2>1
<1>. QED  BY <1>3 DEF S

\* The recursive definition of the powers of a number defines a function, and
\* its values are positive.
LEMMA PowersFunction ==
  ASSUME NEW n \in Nat, NEW c \in Nat \ {0}, NEW f, f = PowersBody(f, c, n)
  PROVE  /\ f[0] = 1
         /\ \A j \in 1..n : f[j] = c * f[j - 1]
         /\ \A j \in 0..n : f[j] \in Nat \ {0}
<1>1. f[0] = 1
  BY DEF PowersBody
<1>2. ASSUME NEW j \in 1..n PROVE f[j] = c * f[j - 1]
  <2>1. j \in 0..n /\ j # 0
    OBVIOUS
  <2>. QED  BY <2>1 DEF PowersBody
<1>3. \A j \in 0..n : f[j] \in Nat \ {0}
  <2>. DEFINE T == {j \in 0..n : f[j] \in Nat \ {0}}
  <2>1. 0 \in T
    BY <1>1
  <2>2. ASSUME NEW k \in 1..n, k - 1 \in T PROVE k \in T
    <3>1. f[k - 1] \in Nat \ {0} /\ f[k] = c * f[k - 1]
      BY <2>2, <1>2
    <3>2. \A x \in Nat \ {0} : c * x \in Nat \ {0}
      OBVIOUS
    <3>. QED  BY <3>1, <3>2
  <2>. HIDE DEF T
  <2>3. \A k \in 0..n : k \in T
    BY <2>1, <2>2, UpTo, Zenon
  <2>. QED  BY <2>3 DEF T
<1>. QED  BY <1>1, <1>2, <1>3

\* s holds the partial sums of f.
PartialSums(s, f, n) ==
  /\ s \in [0..n -> Int] /\ s[0] = 0
  /\ \A k \in 1..n : s[k] = s[k - 1] + f[k]

\* The partial sums of a function exist.
LEMMA PartialSumsExist ==
  ASSUME NEW n \in Nat, NEW f \in [1..n -> Int]
  PROVE  \E s : PartialSums(s, f, n)
<1>. DEFINE S == {k \in 0..n : \E s : PartialSums(s, f, k)}
<1>1. 0 \in S
  <2>1. PartialSums([k \in 0..0 |-> 0], f, 0)
    BY DEF PartialSums
  <2>. QED  BY <2>1
<1>2. ASSUME NEW k \in 1..n, k - 1 \in S PROVE k \in S
  <2>1. PICK s : PartialSums(s, f, k - 1)
    BY <1>2
  <2>. DEFINE t == [j \in 0..k |-> IF j = k THEN s[k - 1] + f[k] ELSE s[j]]
  <2>2. PartialSums(t, f, k)
    <3>1. s \in [0..(k - 1) -> Int] /\ s[0] = 0 /\ f[k] \in Int
      BY <2>1 DEF PartialSums
    <3>2. t \in [0..k -> Int] /\ t[0] = 0
      BY <3>1
    <3>3. \A j \in 1..(k - 1) : s[j] = s[j - 1] + f[j]
      BY <2>1 DEF PartialSums
    <3>4. \A j \in 1..k : t[j] = t[j - 1] + f[j]
      BY <3>1, <3>3
    <3>. HIDE DEF t
    <3>. QED  BY <3>2, <3>4 DEF PartialSums
  <2>. HIDE DEF t
  <2>. QED  BY <2>2
<1>. HIDE DEF S
<1>3. n \in S
  <2>1. \A k \in 0..n : k \in S
    BY <1>1, <1>2, UpTo, Zenon
  <2>. QED  BY <2>1
<1>. QED  BY <1>3 DEF S

\* SumUpTo is the last of the partial sums.
LEMMA SumIsLast ==
  ASSUME NEW n \in Nat, NEW f \in [1..n -> Int]
  PROVE  \E s : PartialSums(s, f, n) /\ SumUpTo(f, n) = s[n]
<1>. DEFINE Body(s) == [k \in 0..n |-> IF k = 0 THEN 0 ELSE s[k - 1] + f[k]]
            s == CHOOSE t : t = Body(t)
<1>1. PICK t : PartialSums(t, f, n)
  BY PartialSumsExist
<1>2. t = Body(t)
  BY <1>1 DEF PartialSums
<1>3. s = Body(s)
  BY <1>2
<1>4. SumUpTo(f, n) = s[n]
  BY DEF SumUpTo
<1>. HIDE DEF s
<1>5. s[0] = 0 /\ \A k \in 1..n : s[k] = s[k - 1] + f[k]
  BY <1>3
<1>6. \A k \in 0..n : s[k] \in Int
  <2>. DEFINE S == {k \in 0..n : s[k] \in Int}
  <2>1. 0 \in S
    BY <1>5
  <2>2. \A k \in 1..n : k - 1 \in S => k \in S
    BY <1>5
  <2>. HIDE DEF S
  <2>3. \A k \in 0..n : k \in S
    BY <2>1, <2>2, UpTo
  <2>. QED  BY <2>3 DEF S
<1>7. PartialSums(s, f, n)
  BY <1>3, <1>5, <1>6 DEF PartialSums
<1>. QED  BY <1>4, <1>7

\* A sum of integers is an integer.
LEMMA SumInt ==
  ASSUME NEW n \in Nat, NEW f \in [1..n -> Int]
  PROVE  SumUpTo(f, n) \in Int
BY SumIsLast DEF PartialSums

\* Changing one entry changes the sum by as much.
LEMMA SumUpdate ==
  ASSUME NEW n \in Nat, NEW f \in [1..n -> Int], NEW g \in [1..n -> Int],
         NEW w \in 1..n, \A k \in 1..n : k # w => g[k] = f[k]
  PROVE  SumUpTo(g, n) = SumUpTo(f, n) + g[w] - f[w]
<1>1. PICK s : PartialSums(s, f, n) /\ SumUpTo(f, n) = s[n]
  BY SumIsLast
<1>2. PICK t : PartialSums(t, g, n) /\ SumUpTo(g, n) = t[n]
  BY SumIsLast
<1>. DEFINE S == {k \in 0..n : t[k] = s[k] + (IF k < w THEN 0 ELSE g[w] - f[w])}
<1>3. 0 \in S
  BY <1>1, <1>2 DEF PartialSums
<1>4. ASSUME NEW k \in 1..n, k - 1 \in S PROVE k \in S
  <2>1. /\ s[k] = s[k - 1] + f[k] /\ t[k] = t[k - 1] + g[k]
        /\ s[k - 1] \in Int /\ t[k - 1] \in Int
    BY <1>1, <1>2 DEF PartialSums
  <2>2. /\ t[k - 1] = s[k - 1] + (IF k - 1 < w THEN 0 ELSE g[w] - f[w])
        /\ f[k] \in Int /\ g[k] \in Int /\ f[w] \in Int /\ g[w] \in Int
    BY <1>4
  <2>3. CASE k = w
    <3>1. t[k - 1] = s[k - 1]
      BY <2>1, <2>2, <2>3
    <3>. DEFINE a == s[k - 1]  fw == f[w]  gw == g[w]
    <3>2. s[k] = a + fw /\ t[k] = a + gw /\ a \in Int /\ fw \in Int /\ gw \in Int
      BY <2>1, <2>2, <2>3, <3>1
    <3>. HIDE DEF a, fw, gw
    <3>3. t[k] = s[k] + (gw - fw)
      BY <3>2
    <3>. QED  BY <2>3, <3>3 DEF fw, gw
  <2>4. CASE k # w
    <3>1. g[k] = f[k]
      BY <2>4
    <3>. DEFINE a == s[k - 1]  c == IF k - 1 < w THEN 0 ELSE g[w] - f[w]  x == f[k]
    <3>2. c = (IF k < w THEN 0 ELSE g[w] - f[w]) /\ c \in Int /\ k \in 0..n
      BY <2>2, <2>4
    <3>3. s[k] = a + x /\ t[k] = (a + c) + x /\ a \in Int /\ x \in Int
      BY <2>1, <2>2, <3>1
    <3>. HIDE DEF a, c, x
    <3>4. t[k] = s[k] + c
      BY <3>2, <3>3
    <3>. QED  BY <3>2, <3>4, Zenon
  <2>. QED  BY <2>3, <2>4
<1>. HIDE DEF S
<1>5. n \in S
  <2>1. \A k \in 0..n : k \in S
    BY <1>3, <1>4, UpTo, Zenon
  <2>. QED  BY <2>1
<1>. QED  BY <1>1, <1>2, <1>5 DEF S, PartialSums

\* Entries bounded by those of another function have a sum bounded by its sum.
LEMMA SumMonotone ==
  ASSUME NEW n \in Nat, NEW f \in [1..n -> Int], NEW g \in [1..n -> Int],
         \A k \in 1..n : f[k] <= g[k]
  PROVE  SumUpTo(f, n) <= SumUpTo(g, n)
<1>1. PICK s : PartialSums(s, f, n) /\ SumUpTo(f, n) = s[n]
  BY SumIsLast
<1>2. PICK t : PartialSums(t, g, n) /\ SumUpTo(g, n) = t[n]
  BY SumIsLast
<1>. DEFINE S == {k \in 0..n : s[k] <= t[k]}
<1>3. 0 \in S
  BY <1>1, <1>2 DEF PartialSums
<1>4. ASSUME NEW k \in 1..n, k - 1 \in S PROVE k \in S
  <2>1. /\ s[k] = s[k - 1] + f[k] /\ t[k] = t[k - 1] + g[k]
        /\ s[k - 1] \in Int /\ t[k - 1] \in Int
    BY <1>1, <1>2 DEF PartialSums
  <2>2. s[k - 1] <= t[k - 1] /\ f[k] <= g[k] /\ f[k] \in Int /\ g[k] \in Int
    BY <1>4
  <2>. QED  BY <2>1, <2>2
<1>. HIDE DEF S
<1>5. n \in S
  <2>1. \A k \in 0..n : k \in S
    BY <1>3, <1>4, UpTo, Zenon
  <2>. QED  BY <2>1
<1>. QED  BY <1>1, <1>2, <1>5 DEF S

\* A product grows by the second factor when the first grows by one.
LEMMA OneMore ==
  ASSUME NEW a \in Int, NEW b \in Int
  PROVE  a * b \in Int /\ (a + 1) * b = a * b + b
OBVIOUS

\* A sum whose entries vanish outside a+1..b, and do not exceed c there.
LEMMA SumOfBlock ==
  ASSUME NEW n \in Nat, NEW f \in [1..n -> Int], NEW a \in 0..n, NEW b \in a..n,
         NEW c \in Nat,
         \A k \in 1..n : f[k] <= (IF a < k /\ k <= b THEN c ELSE 0)
  PROVE  SumUpTo(f, n) <= (b - a) * c
<1>1. PICK s : PartialSums(s, f, n) /\ SumUpTo(f, n) = s[n]
  BY SumIsLast
<1>. DEFINE Width(k) == IF k <= a THEN 0 ELSE IF k <= b THEN k - a ELSE b - a
            S == {k \in 0..n : s[k] <= Width(k) * c}
<1>2. 0 \in S
  <2>1. Width(0) = 0 /\ s[0] = 0
    BY <1>1 DEF PartialSums
  <2>. QED  BY <2>1
<1>3. ASSUME NEW k \in 1..n, k - 1 \in S PROVE k \in S
  <2>1. s[k] = s[k - 1] + f[k] /\ s[k - 1] \in Int /\ f[k] \in Int
    BY <1>1 DEF PartialSums
  <2>2. s[k - 1] <= Width(k - 1) * c
    BY <1>3
  <2>3. Width(k) \in Int /\ Width(k - 1) \in Int
    OBVIOUS
  <2>4. CASE a < k /\ k <= b
    <3>1. Width(k) = Width(k - 1) + 1
      BY <2>4
    <3>. HIDE DEF Width
    <3>2. Width(k) * c = Width(k - 1) * c + c /\ Width(k - 1) * c \in Int
      <4>1. (Width(k - 1) + 1) * c = Width(k - 1) * c + c /\ Width(k - 1) * c \in Int
        BY <2>3, OneMore
      <4>. QED  BY <3>1, <4>1
    <3>3. f[k] <= c
      BY <2>4
    <3>4. s[k] <= Width(k) * c
      BY <2>1, <2>2, <3>2, <3>3
    <3>. QED  BY <3>4
  <2>5. CASE ~(a < k /\ k <= b)
    <3>1. Width(k) = Width(k - 1)
      BY <2>5
    <3>. HIDE DEF Width
    <3>2. Width(k - 1) * c \in Int
      BY <2>3, OneMore
    <3>3. f[k] <= 0
      BY <2>5
    <3>4. s[k] <= Width(k) * c
      BY <2>1, <2>2, <3>1, <3>2, <3>3
    <3>. QED  BY <3>4
  <2>. QED  BY <2>4, <2>5
<1>. HIDE DEF S
<1>4. n \in S
  <2>1. \A k \in 0..n : k \in S
    BY <1>2, <1>3, UpTo, Zenon
  <2>. QED  BY <2>1
<1>5. Width(n) = b - a
  OBVIOUS
<1>. HIDE DEF Width
<1>. QED  BY <1>1, <1>4, <1>5 DEF S

\* A sum of nothing but zeros.
LEMMA SumOfZeros ==
  ASSUME NEW n \in Nat, NEW f \in [1..n -> Int], \A k \in 1..n : f[k] = 0
  PROVE  SumUpTo(f, n) = 0
<1>1. PICK s : PartialSums(s, f, n) /\ SumUpTo(f, n) = s[n]
  BY SumIsLast
<1>. DEFINE S == {k \in 0..n : s[k] = 0}
<1>2. 0 \in S
  BY <1>1 DEF PartialSums
<1>3. ASSUME NEW k \in 1..n, k - 1 \in S PROVE k \in S
  <2>1. s[k] = s[k - 1] + f[k] /\ s[k - 1] = 0 /\ f[k] = 0
    BY <1>1, <1>3 DEF PartialSums
  <2>. QED  BY <2>1
<1>. HIDE DEF S
<1>4. n \in S
  <2>1. \A k \in 0..n : k \in S
    BY <1>2, <1>3, UpTo, Zenon
  <2>. QED  BY <2>1
<1>. QED  BY <1>1, <1>4 DEF S

\* The sum of two functions, entry by entry.
LEMMA SumAdd ==
  ASSUME NEW n \in Nat, NEW f \in [1..n -> Int], NEW g \in [1..n -> Int],
         NEW h \in [1..n -> Int], \A k \in 1..n : h[k] = f[k] + g[k]
  PROVE  SumUpTo(h, n) = SumUpTo(f, n) + SumUpTo(g, n)
<1>1. PICK s : PartialSums(s, f, n) /\ SumUpTo(f, n) = s[n]
  BY SumIsLast
<1>2. PICK t : PartialSums(t, g, n) /\ SumUpTo(g, n) = t[n]
  BY SumIsLast
<1>3. PICK u : PartialSums(u, h, n) /\ SumUpTo(h, n) = u[n]
  BY SumIsLast
<1>. DEFINE S == {k \in 0..n : u[k] = s[k] + t[k]}
<1>4. 0 \in S
  BY <1>1, <1>2, <1>3 DEF PartialSums
<1>5. ASSUME NEW k \in 1..n, k - 1 \in S PROVE k \in S
  <2>1. /\ s[k] = s[k - 1] + f[k] /\ t[k] = t[k - 1] + g[k] /\ u[k] = u[k - 1] + h[k]
        /\ s[k - 1] \in Int /\ t[k - 1] \in Int /\ u[k - 1] = s[k - 1] + t[k - 1]
    BY <1>1, <1>2, <1>3, <1>5 DEF PartialSums
  <2>2. f[k] \in Int /\ g[k] \in Int /\ h[k] = f[k] + g[k]
    OBVIOUS
  <2>. DEFINE a == s[k - 1]  b == t[k - 1]  x == f[k]  y == g[k]
  <2>3. /\ s[k] = a + x /\ t[k] = b + y /\ u[k] = (a + b) + (x + y)
        /\ a \in Int /\ b \in Int /\ x \in Int /\ y \in Int
    BY <1>2, <2>1, <2>2
  <2>. HIDE DEF a, b, x, y
  <2>4. u[k] = s[k] + t[k]
    BY <2>3
  <2>. QED  BY <2>4
<1>. HIDE DEF S
<1>6. n \in S
  <2>1. \A k \in 0..n : k \in S
    BY <1>4, <1>5, UpTo, Zenon
  <2>. QED  BY <2>1
<1>. QED  BY <1>1, <1>2, <1>3, <1>6 DEF S
=============================================================================
