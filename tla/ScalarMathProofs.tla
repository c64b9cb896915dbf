-------------------------- MODULE ScalarMathProofs --------------------------
(***************************************************************************)
(* The byte loops of ScalarMath compute sums and clamps, for every number  *)
(* of bytes and every byte width that is a multiple of 8.                  *)
(*                                                                         *)
(* Section 1 has the arithmetic of places and values, section 2 one lemma  *)
(* per loop, section 3 the theorems.                                       *)
(***************************************************************************)
EXTENDS ScalarMath, SumLemmas

-----------------------------------------------------------------------------
(***************************************************************************)
(* 1. Places and values.                                                   *)
(***************************************************************************)

\* The constants, as the lemmas use them.
LEMMA Widths ==
  /\ ByteMod \in Nat /\ ByteMod >= 8 /\ ByteMod % 8 = 0
  /\ Bytes \in Nat /\ Bytes > 1
  /\ WordBytes \in 1..Bytes
BY WidthAssumption

\* The recursive definition of Place is one, and its values are positive.
LEMMA PlaceFunction ==
  /\ Place[0] = 1
  /\ \A j \in 1..Bytes : Place[j] = ByteMod * Place[j - 1]
  /\ \A j \in 0..Bytes : Place[j] \in Nat \ {0}
<1>1. Bytes \in Nat /\ ByteMod \in Nat \ {0}
  BY Widths
<1>2. Place = CHOOSE t : t = PowersBody(t, ByteMod, Bytes)
  BY DEF Place, PowersBody
<1>3. Place = PowersBody(Place, ByteMod, Bytes)
  BY <1>1, <1>2, PowersExist
<1>. QED  BY <1>1, <1>3, PowersFunction

\* The next place counts ByteMod times as much.
LEMMA NextPlace ==
  ASSUME NEW j \in Index
  PROVE  /\ Place[j] \in Nat \ {0} /\ Place[j + 1] \in Nat \ {0}
         /\ Place[j + 1] = ByteMod * Place[j]
<1>1. Bytes \in Nat /\ j + 1 \in 1..Bytes /\ j \in 0..Bytes /\ j + 1 \in 0..Bytes
      /\ (j + 1) - 1 = j
  BY Widths DEF Index
<1>. QED  BY <1>1, PlaceFunction

\* Places grow.
LEMMA PlacesGrow ==
  ASSUME NEW a \in 0..Bytes, NEW b \in 0..Bytes, a <= b
  PROVE  Place[a] <= Place[b]
<1>. DEFINE S == {k \in 0..Bytes : k < a \/ Place[a] <= Place[k]}
<1>0. Bytes \in Nat /\ ByteMod \in Nat /\ ByteMod >= 8
  BY Widths
<1>1. 0 \in S
  <2>1. 0 \in 0..Bytes /\ (0 < a \/ a = 0)
    BY <1>0
  <2>. QED  BY <2>1, PlaceFunction
<1>2. ASSUME NEW k \in 1..Bytes, k - 1 \in S PROVE k \in S
  <2>1. Place[k - 1] \in Nat /\ Place[k] = ByteMod * Place[k - 1] /\ Place[a] \in Nat
    BY <1>0, PlaceFunction
  <2>2. \A x \in Nat : ByteMod * x >= x /\ ByteMod * x \in Nat
    BY <1>0
  <2>3. Place[k] >= Place[k - 1] /\ Place[k] \in Nat
    BY <2>1, <2>2
  <2>4. CASE k < a
    BY <2>4
  <2>5. CASE k = a
    BY <2>1, <2>5
  <2>6. CASE k > a
    <3>1. Place[a] <= Place[k - 1]
      BY <1>2, <2>6
    <3>2. Place[a] <= Place[k]
      BY <3>1, <2>3, <2>1
    <3>. QED  BY <3>2
  <2>. QED  BY <2>4, <2>5, <2>6
<1>. HIDE DEF S
<1>3. b \in S
  <2>1. \A k \in 0..Bytes : k \in S
    BY <1>0, <1>1, <1>2, UpTo, Zenon
  <2>. QED  BY <2>1
<1>. QED  BY <1>3 DEF S

\* What the bytes of a scalar count for.
Worths(x) == [k \in 1..Bytes |-> x[k - 1] * Place[k - 1]]

\* A byte is a small natural.
LEMMA ByteType ==
  ASSUME NEW x \in Scalars, NEW j \in Index
  PROVE  x[j] \in Nat /\ x[j] < ByteMod /\ x[j] \in 0..(ByteMod - 1)
BY Widths DEF Scalars

\* The summands of a value are integers, and so is the value.
LEMMA WorthsType ==
  ASSUME NEW x \in Scalars
  PROVE  /\ Worths(x) \in [1..Bytes -> Int]
         /\ Value(x) = SumUpTo(Worths(x), Bytes) /\ Value(x) \in Int
<1>1. Bytes \in Nat
  BY Widths
<1>2. ASSUME NEW k \in 1..Bytes PROVE x[k - 1] * Place[k - 1] \in Int
  <2>1. k - 1 \in Index /\ k - 1 \in 0..Bytes
    BY <1>1 DEF Index
  <2>2. x[k - 1] \in Int /\ Place[k - 1] \in Int
    BY <2>1, ByteType, PlaceFunction
  <2>. QED  BY <2>2
<1>3. Worths(x) \in [1..Bytes -> Int]
  BY <1>2 DEF Worths
<1>4. Value(x) = SumUpTo(Worths(x), Bytes)
  BY DEF Value, Worths
<1>. QED  BY <1>1, <1>3, <1>4, SumInt

\* Changing a byte changes the value by as much as the byte counts for.
LEMMA ValueUpdate ==
  ASSUME NEW x \in Scalars, NEW j \in Index, NEW v \in 0..(ByteMod - 1)
  PROVE  /\ [x EXCEPT ![j] = v] \in Scalars
         /\ Value([x EXCEPT ![j] = v]) = Value(x) + (v - x[j]) * Place[j]
<1>. DEFINE y == [x EXCEPT ![j] = v]
<1>1. y \in Scalars /\ y[j] = v /\ \A k \in Index : k # j => y[k] = x[k]
  BY DEF Scalars
<1>. HIDE DEF y
<1>2. Bytes \in Nat /\ j + 1 \in 1..Bytes /\ (j + 1) - 1 = j
  BY Widths DEF Index
<1>3. \A k \in 1..Bytes : k # j + 1 => Worths(y)[k] = Worths(x)[k]
  <2>. SUFFICES ASSUME NEW k \in 1..Bytes, k # j + 1
                PROVE  Worths(y)[k] = Worths(x)[k]
    OBVIOUS
  <2>1. k - 1 \in Index /\ k - 1 # j
    BY <1>2 DEF Index
  <2>2. y[k - 1] = x[k - 1]
    BY <1>1, <2>1
  <2>. QED  BY <2>2 DEF Worths
<1>4. Worths(y)[j + 1] = v * Place[j] /\ Worths(x)[j + 1] = x[j] * Place[j]
  BY <1>1, <1>2 DEF Worths
<1>5. SumUpTo(Worths(y), Bytes)
        = SumUpTo(Worths(x), Bytes) + Worths(y)[j + 1] - Worths(x)[j + 1]
  <2>1. Worths(x) \in [1..Bytes -> Int] /\ Worths(y) \in [1..Bytes -> Int]
    BY <1>1, WorthsType
  <2>. QED  BY <1>2, <1>3, <2>1, SumUpdate
<1>6. Value(y) = Value(x) + v * Place[j] - x[j] * Place[j] /\ Value(x) \in Int
  BY <1>1, <1>4, <1>5, WorthsType
<1>7. v \in Int /\ x[j] \in Int /\ Place[j] \in Int
  BY ByteType, NextPlace, Widths
<1>8. (v - x[j]) * Place[j] = v * Place[j] - x[j] * Place[j]
      /\ v * Place[j] \in Int /\ x[j] * Place[j] \in Int
  BY <1>7, Distribute
<1>9. Value(y) = Value(x) + (v - x[j]) * Place[j]
  BY <1>6, <1>8
<1>. QED  BY <1>1, <1>9 DEF y

\* The bytes below a place make less than it, the first byte alone decides what
\* the value is modulo 8, and the last byte counts for what the others leave.
LEMMA ValueShape ==
  ASSUME NEW x \in Scalars
  PROVE  /\ Value(x) \in 0..(ScalarMod - 1)
         /\ \E low \in 0..(Place[Bytes - 1] - 1) :
              Value(x) = low + x[Bytes - 1] * Place[Bytes - 1]
         /\ \E q \in Int : Value(x) = x[0] + 8 * q
<1>0. Bytes \in Nat /\ Bytes > 1 /\ ByteMod \in Nat /\ ByteMod >= 8 /\ ByteMod % 8 = 0
  BY Widths
<1>1. PICK t : PartialSums(t, Worths(x), Bytes) /\ SumUpTo(Worths(x), Bytes) = t[Bytes]
  BY <1>0, WorthsType, SumIsLast
<1>2. /\ t \in [0..Bytes -> Int] /\ t[0] = 0
      /\ \A k \in 1..Bytes : t[k] = t[k - 1] + Worths(x)[k]
  BY <1>1 DEF PartialSums
<1>3. \A k \in 1..Bytes :
        /\ t[k] = t[k - 1] + x[k - 1] * Place[k - 1]
        /\ t[k - 1] \in Int /\ x[k - 1] \in 0..(ByteMod - 1)
        /\ Place[k - 1] \in Nat \ {0} /\ Place[k] = ByteMod * Place[k - 1]
  <2>. SUFFICES ASSUME NEW k \in 1..Bytes
                PROVE  /\ t[k] = t[k - 1] + x[k - 1] * Place[k - 1]
                       /\ t[k - 1] \in Int /\ x[k - 1] \in 0..(ByteMod - 1)
                       /\ Place[k - 1] \in Nat \ {0} /\ Place[k] = ByteMod * Place[k - 1]
    OBVIOUS
  <2>1. k - 1 \in Index /\ k - 1 \in 0..Bytes
    BY <1>0 DEF Index
  <2>2. Worths(x)[k] = x[k - 1] * Place[k - 1]
    BY DEF Worths
  <2>3. t[k] = t[k - 1] + x[k - 1] * Place[k - 1] /\ t[k - 1] \in Int
    BY <1>2, <2>1, <2>2
  <2>. QED  BY <2>1, <2>3, ByteType, PlaceFunction
<1>4. \A k \in 0..Bytes : t[k] \in 0..(Place[k] - 1)
  <2>. DEFINE S == {k \in 0..Bytes : t[k] \in 0..(Place[k] - 1)}
  <2>1. 0 \in S
    BY <1>0, <1>2, PlaceFunction
  <2>2. ASSUME NEW k \in 1..Bytes, k - 1 \in S PROVE k \in S
    <3>. DEFINE p == Place[k - 1]
                b == x[k - 1]
    <3>1. t[k - 1] \in 0..(p - 1)
      BY <2>2
    <3>2. /\ t[k] = t[k - 1] + b * p /\ b \in 0..(ByteMod - 1)
          /\ p \in Nat \ {0} /\ Place[k] = ByteMod * p
      BY <1>3
    <3>. HIDE DEF p, b
    <3>3. b + 1 <= ByteMod /\ b + 1 \in Int /\ ByteMod \in Int /\ p \in Nat /\ b \in Nat
      BY <1>0, <3>2
    <3>4. (b + 1) * p <= ByteMod * p /\ (b + 1) * p \in Int /\ ByteMod * p \in Int
      BY <3>3, ProductGrows
    <3>5. (b + 1) * p = b * p + p /\ b * p \in Int
      BY <3>3, OneMore
    <3>6. 0 * p <= b * p /\ 0 * p = 0
      BY <3>3, ProductGrows
    <3>7. t[k] >= 0 /\ t[k] <= Place[k] - 1 /\ t[k] \in Int
      BY <3>1, <3>2, <3>3, <3>4, <3>5, <3>6
    <3>. QED  BY <3>2, <3>4, <3>7
  <2>. HIDE DEF S
  <2>3. \A k \in 0..Bytes : k \in S
    BY <1>0, <2>1, <2>2, UpTo, Zenon
  <2>. QED  BY <2>3 DEF S
<1>5. \A k \in 1..Bytes : \E q \in Int : t[k] = x[0] + 8 * q
  <2>. DEFINE S == {k \in 0..Bytes : k = 0 \/ \E q \in Int : t[k] = x[0] + 8 * q}
  <2>1. 0 \in S
    BY <1>0
  <2>2. ASSUME NEW k \in 1..Bytes, k - 1 \in S PROVE k \in S
    <3>1. CASE k = 1
      <4>1. t[1] = 0 + x[0] * 1 /\ x[0] \in Nat
        BY <1>0, <1>2, <1>3, <3>1, PlaceFunction
      <4>2. t[k] = x[0] + 8 * 0
        BY <3>1, <4>1
      <4>. QED  BY <4>2
    <3>2. CASE k > 1
      <4>. DEFINE b == x[k - 1]
                  r == Place[k - 2]
                  e == ByteMod \div 8
      <4>1. PICK q \in Int : t[k - 1] = x[0] + 8 * q
        BY <2>2, <3>2
      <4>2. r \in Nat \ {0} /\ Place[k - 1] = ByteMod * r
        <5>1. k - 1 \in 1..Bytes /\ (k - 1) - 1 = k - 2
          BY <1>0, <3>2
        <5>. QED  BY <1>3, <5>1
      <4>3. t[k] = t[k - 1] + b * (ByteMod * r) /\ b \in Nat
        BY <1>3, <4>2
      <4>4. ByteMod = 8 * e /\ e \in Int
        BY <1>0
      <4>. HIDE DEF b, r, e
      <4>5. b * ((8 * e) * r) = 8 * (b * (e * r)) /\ b * (e * r) \in Int
        <5>1. e * r \in Int /\ (8 * e) * r = 8 * (e * r)
          BY <4>2, <4>4, Regroup
        <5>2. \A y \in Int : b * (8 * y) = 8 * (b * y) /\ b * y \in Int
          BY <4>3
        <5>. QED  BY <5>1, <5>2
      <4>6. t[k] = x[0] + 8 * (q + b * (e * r)) /\ q + b * (e * r) \in Int
        <5>1. t[k] = x[0] + 8 * q + 8 * (b * (e * r))
          BY <4>1, <4>3, <4>4, <4>5
        <5>2. x[0] \in Int
          BY <1>0, ByteType DEF Index
        <5>. QED  BY <4>5, <5>1, <5>2
      <4>. QED  BY <4>6
    <3>. QED  BY <3>1, <3>2
  <2>. HIDE DEF S
  <2>3. \A k \in 0..Bytes : k \in S
    BY <1>0, <2>1, <2>2, UpTo, Zenon
  <2>. QED  BY <2>3 DEF S
<1>6. Value(x) = t[Bytes] /\ Bytes \in 1..Bytes /\ Bytes \in 0..Bytes /\ Bytes - 1 \in 0..Bytes
  BY <1>0, <1>1, WorthsType
<1>7. Value(x) \in 0..(ScalarMod - 1)
  BY <1>4, <1>6 DEF ScalarMod
<1>8. t[Bytes - 1] \in 0..(Place[Bytes - 1] - 1)
      /\ Value(x) = t[Bytes - 1] + x[Bytes - 1] * Place[Bytes - 1]
  BY <1>3, <1>4, <1>6
<1>9. \E q \in Int : Value(x) = x[0] + 8 * q
  BY <1>5, <1>6
<1>. QED  BY <1>7, <1>8, <1>9

\* A number is its low byte and the rest.
LEMMA LowByte ==
  ASSUME NEW n \in Nat
  PROVE  /\ n = ByteMod * (n \div ByteMod) + (n % ByteMod)
         /\ n \div ByteMod \in Nat /\ n % ByteMod \in 0..(ByteMod - 1)
BY Widths

\* Dividing by a place and then by a byte is dividing by the next place.
LEMMA NextQuotient ==
  ASSUME NEW n \in Nat, NEW j \in Index
  PROVE  /\ (n \div Place[j]) \in Nat
         /\ n \div Place[j + 1] = (n \div Place[j]) \div ByteMod
<1>. DEFINE p == Place[j]
            q == n \div p
            r == n % p
            q2 == q \div ByteMod
            r2 == q % ByteMod
<1>1. /\ p \in Nat \ {0} /\ Place[j + 1] = ByteMod * p /\ Place[j + 1] \in Nat \ {0}
      /\ ByteMod \in Nat \ {0}
  BY NextPlace, Widths
<1>. HIDE DEF p
<1>2. n = p * q + r /\ q \in Int /\ r \in 0..(p - 1)
  BY <1>1, Quotient
<1>. HIDE DEF q, r
<1>3. q \in Nat
  <2>1. CASE q <= -1
    <3>1. q * p <= (-1) * p /\ (-1) * p = -p /\ q * p = p * q
      BY <1>1, <1>2, <2>1, ProductGrows, Regroup
    <3>. QED  BY <1>1, <1>2, <3>1
  <2>. QED  BY <1>2, <2>1
<1>4. q = ByteMod * q2 + r2 /\ q2 \in Int /\ r2 \in 0..(ByteMod - 1)
  BY <1>1, <1>3, Quotient
<1>. HIDE DEF q2, r2
<1>5. p * q = q2 * (ByteMod * p) + r2 * p /\ r2 * p \in Int /\ q2 * (ByteMod * p) \in Int
  <2>1. q2 * ByteMod = ByteMod * q2 /\ q2 * ByteMod \in Int
        /\ (q2 * ByteMod) * p = q2 * (ByteMod * p) /\ p * q = q * p
        /\ ByteMod * p \in Int
    BY <1>1, <1>3, <1>4, Regroup
  <2>2. (q2 * ByteMod + r2) * p = (q2 * ByteMod) * p + r2 * p
        /\ r2 * p \in Int /\ (q2 * ByteMod) * p \in Int
    BY <1>1, <1>4, <2>1, Distribute
  <2>. QED  BY <1>4, <2>1, <2>2
<1>6. r2 * p + r \in 0..(ByteMod * p - 1)
  <2>1. (r2 + 1) * p <= ByteMod * p /\ (r2 + 1) * p = r2 * p + p
        /\ 0 * p <= r2 * p /\ 0 * p = 0 /\ ByteMod * p \in Int
    BY <1>1, <1>4, ProductGrows, OneMore
  <2>. QED  BY <1>1, <1>2, <1>5, <2>1
<1>7. n = (r2 * p + r) + q2 * (ByteMod * p)
  BY <1>2, <1>5
<1>8. n \div (ByteMod * p) = q2
  BY <1>1, <1>4, <1>6, <1>7, QuotientUnique
<1>. QED  BY <1>1, <1>3, <1>8 DEF p, q, q2

-----------------------------------------------------------------------------
(***************************************************************************)
(* 2. The loops.                                                           *)
(***************************************************************************)

\* The loops begin with everything pending.
LEMMA InitMInv == Init => MInv
<1>. SUFFICES ASSUME Init PROVE MInv
  OBVIOUS
<1>0. Bytes \in Nat /\ Bytes > 1 /\ Place[0] = 1 /\ Place[WordBytes] \in Nat
  BY Widths, PlaceFunction
<1>1. /\ loop \in {"advance", "offset", "eight", "clamp"}
      /\ input \in Scalars /\ s = input /\ i = 0 /\ done = FALSE
  BY DEF Init
<1>2. /\ delta \in Nat /\ carry \in Nat
      /\ loop = "offset" => delta < Place[WordBytes]
      /\ loop = "advance" => carry = delta
      /\ loop = "offset" => carry = 0
  BY <1>0 DEF Init
<1>3. MTypeOK
  <2>1. i \in 0..Bytes
    BY <1>0, <1>1
  <2>2. done \in BOOLEAN
    BY <1>1, Zenon
  <2>. QED  BY <1>1, <1>2, <2>1, <2>2, Zenon DEF MTypeOK
<1>4. LoopOK
  BY <1>0, <1>1, <1>2 DEF LoopOK
<1>5. Balance
  <2>. SUFFICES ASSUME loop # "clamp"
                PROVE  Value(s) + Pending * Place[i] = Value(input) + delta
    BY DEF Balance
  <2>1. Pending = delta
    <3>1. CASE loop = "advance"
      BY <1>2, <3>1 DEF Pending
    <3>2. CASE loop = "offset"
      BY <1>0, <1>1, <1>2, <3>2 DEF Pending
    <3>3. CASE loop = "eight"
      BY <1>1, <3>3 DEF Pending
    <3>. QED  BY <1>1, <3>1, <3>2, <3>3
  <2>2. Value(input) \in Int
    BY <1>1, WorthsType
  <2>. QED  BY <1>0, <1>1, <1>2, <2>1, <2>2
<1>6. ClampedOnce
  BY <1>1 DEF ClampedOnce
<1>. QED  BY <1>3, <1>4, <1>5, <1>6 DEF MInv

\* One byte of any adder: it keeps the low part of what it and the pending
\* amount make and passes the rest on, in units of the next place.
LEMMA OneByte ==
  ASSUME NEW x \in Scalars, NEW j \in Index, NEW b \in 0..(ByteMod - 1),
         NEW n \in Int, NEW m \in Int, x[j] + n = b + m * ByteMod
  PROVE  /\ [x EXCEPT ![j] = b] \in Scalars
         /\ Value([x EXCEPT ![j] = b]) + m * Place[j + 1] = Value(x) + n * Place[j]
<1>. DEFINE p == Place[j]
<1>1. /\ p \in Int /\ Place[j + 1] = ByteMod * p /\ ByteMod \in Int
      /\ x[j] \in Int /\ b \in Int /\ Value(x) \in Int
  BY NextPlace, Widths, ByteType, WorthsType
<1>2. /\ [x EXCEPT ![j] = b] \in Scalars
      /\ Value([x EXCEPT ![j] = b]) = Value(x) + (b - x[j]) * p
  BY ValueUpdate
<1>. HIDE DEF p
<1>3. m * (ByteMod * p) = (m * ByteMod) * p /\ m * ByteMod \in Int
  BY <1>1, Regroup
<1>4. m * ByteMod = n - (b - x[j]) /\ b - x[j] \in Int
  <2>1. \A y, k \in Int : y + n = b + k => k = n - (b - y) /\ b - y \in Int
    BY <1>1
  <2>. QED  BY <1>1, <1>3, <2>1, Zenon
<1>5. (n - (b - x[j])) * p = n * p - (b - x[j]) * p
      /\ n * p \in Int /\ (b - x[j]) * p \in Int
  BY <1>1, <1>4, Distribute
<1>6. m * Place[j + 1] = n * p - (b - x[j]) * p
  BY <1>1, <1>3, <1>4, <1>5
<1>7. Value([x EXCEPT ![j] = b]) + m * Place[j + 1] = Value(x) + n * p
  BY <1>1, <1>2, <1>5, <1>6
<1>. QED  BY <1>2, <1>7 DEF p

\* While a loop runs there is a byte left.
LEMMA ByteLeft ==
  MInv /\ ~done => i \in Index /\ i + 1 \in 0..Bytes
BY Widths DEF MInv, MTypeOK, LoopOK, Index

\* An adder's step, by what it does to the pending amount.
LEMMA AdderStep ==
  ASSUME MInv, ~done, NEW b \in 0..(ByteMod - 1),
         loop \in {"advance", "offset", "eight"},
         s[i] + Pending = b + Pending' * ByteMod, Pending \in Int, Pending' \in Int,
         s' = [s EXCEPT ![i] = b], i' = i + 1, carry' \in Nat, done' \in BOOLEAN,
         i' = Bytes => done', done' => i' = Bytes \/ Pending' = 0,
         UNCHANGED <<loop, input, delta>>
  PROVE  MInv'
<1>1. i \in Index /\ i + 1 \in 0..Bytes /\ s \in Scalars
  BY ByteLeft DEF MInv, MTypeOK
<1>2. s' \in Scalars /\ Value(s') + Pending' * Place[i'] = Value(s) + Pending * Place[i]
  <2>1. /\ [s EXCEPT ![i] = b] \in Scalars
        /\ Value([s EXCEPT ![i] = b]) + Pending' * Place[i + 1]
             = Value(s) + Pending * Place[i]
    BY <1>1, OneByte, Zenon
  <2>. QED  BY <2>1, Zenon
<1>3. MTypeOK'
  BY <1>1, <1>2 DEF MInv, MTypeOK
<1>4. LoopOK'
  BY DEF MInv, LoopOK
<1>5. Balance'
  <2>1. Value(s) + Pending * Place[i] = Value(input) + delta
    BY DEF MInv, Balance
  <2>2. Value(s)' = Value(s') /\ Value(input)' = Value(input) /\ Place[i]' = Place[i']
    BY DEF Value, Place
  <2>. QED  BY <1>2, <2>1, <2>2 DEF Balance
<1>6. ClampedOnce'
  BY DEF ClampedOnce
<1>. QED  BY <1>3, <1>4, <1>5, <1>6 DEF MInv

\* advance_scalar: the carry loses its low byte and gains the sum's.
LEMMA AdvanceStep == MInv /\ AdvanceByte => MInv'
<1>. SUFFICES ASSUME MInv, AdvanceByte PROVE MInv'
  OBVIOUS
<1>. DEFINE sum == s[i] + (carry % ByteMod)
<1>1. /\ loop = "advance" /\ ~done /\ i' = i + 1 /\ UNCHANGED <<loop, input, delta>>
      /\ s' = [s EXCEPT ![i] = sum % ByteMod]
      /\ carry' = (carry \div ByteMod) + (sum \div ByteMod)
      /\ done' = (carry' = 0 \/ i' = Bytes)
  BY DEF AdvanceByte, CarryOn
<1>2. carry \in Nat /\ s[i] \in Nat /\ ByteMod \in Nat /\ ByteMod > 0
  BY <1>1, ByteLeft, ByteType, Widths DEF MInv, MTypeOK
<1>3. carry = ByteMod * (carry \div ByteMod) + (carry % ByteMod)
      /\ carry \div ByteMod \in Nat /\ carry % ByteMod \in 0..(ByteMod - 1)
  BY <1>2, LowByte
<1>4. sum \in Nat
  BY <1>2, <1>3
<1>5. sum = ByteMod * (sum \div ByteMod) + (sum % ByteMod)
      /\ sum \div ByteMod \in Nat /\ sum % ByteMod \in 0..(ByteMod - 1)
  BY <1>4, LowByte
<1>6. Pending = carry /\ Pending' = carry' /\ carry' \in Nat
  BY <1>1, <1>3, <1>5 DEF Pending
<1>7. s[i] + carry = (sum % ByteMod) + carry' * ByteMod
  <2>. DEFINE c == carry \div ByteMod
              d == sum \div ByteMod
              e == carry % ByteMod
              b == sum % ByteMod
  <2>1. /\ carry = ByteMod * c + e /\ s[i] + e = ByteMod * d + b /\ carry' = c + d
        /\ c \in Int /\ d \in Int /\ e \in Int /\ b \in Int
    BY <1>1, <1>3, <1>5
  <2>. HIDE DEF b, c, d, e
  <2>2. (c + d) * ByteMod = c * ByteMod + d * ByteMod
        /\ c * ByteMod = ByteMod * c /\ d * ByteMod = ByteMod * d
        /\ c * ByteMod \in Int /\ d * ByteMod \in Int
    BY <1>2, <2>1, Distribute, Regroup
  <2>3. s[i] + carry = b + (c + d) * ByteMod
    BY <1>2, <2>1, <2>2
  <2>. QED  BY <2>1, <2>3 DEF b
<1>8. /\ done' \in BOOLEAN /\ (i' = Bytes => done')
      /\ (done' => i' = Bytes \/ Pending' = 0)
  BY <1>1, <1>6
<1>. HIDE DEF sum
<1>9. Pending \in Int /\ Pending' \in Int /\ s[i] + Pending = (sum % ByteMod) + Pending' * ByteMod
  BY <1>2, <1>6, <1>7
<1>. QED  BY <1>1, <1>5, <1>6, <1>8, <1>9, AdderStep, Zenon

\* The kernels' offset: its next byte moves from what is left of it to the sum.
LEMMA OffsetStep == MInv /\ OffsetByte => MInv'
<1>. SUFFICES ASSUME MInv, OffsetByte PROVE MInv'
  OBVIOUS
<1>. DEFINE add == IF i < WordBytes THEN ByteOf(delta, i) ELSE 0
            sum == s[i] + add + carry
            left == delta \div Place[i]
<1>1. /\ loop = "offset" /\ ~done /\ i' = i + 1 /\ UNCHANGED <<loop, input, delta>>
      /\ s' = [s EXCEPT ![i] = sum % ByteMod]
      /\ carry' = sum \div ByteMod
      /\ done' = (i' = Bytes)
  BY DEF OffsetByte
<1>2. /\ i \in Index /\ i \in 0..Bytes /\ delta \in Nat /\ delta < Place[WordBytes]
      /\ carry \in Nat /\ s[i] \in Nat /\ ByteMod \in Nat /\ ByteMod > 0
      /\ WordBytes \in 0..Bytes /\ WordBytes \in Nat /\ i \in Int
  BY <1>1, ByteLeft, ByteType, Widths DEF MInv, MTypeOK, LoopOK
<1>3. left \in Nat /\ delta \div Place[i + 1] = left \div ByteMod
  BY <1>2, NextQuotient
<1>4. left = ByteMod * (left \div ByteMod) + (left % ByteMod)
      /\ left \div ByteMod \in Nat /\ left % ByteMod \in 0..(ByteMod - 1)
  BY <1>3, LowByte
<1>5. add = left % ByteMod
  <2>1. CASE i < WordBytes
    BY <2>1 DEF ByteOf
  <2>2. CASE ~(i < WordBytes)
    <3>1. Place[WordBytes] <= Place[i] /\ Place[WordBytes] \in Nat /\ Place[i] \in Nat \ {0}
      BY <1>2, <2>2, PlacesGrow, PlaceFunction
    <3>2. delta = delta + 0 * Place[i] /\ delta \in 0..(Place[i] - 1)
      BY <1>2, <3>1
    <3>3. left = 0
      BY <1>2, <3>1, <3>2, QuotientUnique
    <3>. HIDE DEF left
    <3>4. left % ByteMod = 0
      BY <1>2, <3>3
    <3>. QED  BY <2>2, <3>4
  <2>. QED  BY <2>1, <2>2
<1>. HIDE DEF add, left
<1>6. sum \in Nat
  BY <1>2, <1>4, <1>5
<1>7. sum = ByteMod * (sum \div ByteMod) + (sum % ByteMod)
      /\ sum \div ByteMod \in Nat /\ sum % ByteMod \in 0..(ByteMod - 1)
  BY <1>6, LowByte
<1>8. /\ Pending = carry + left /\ Pending' = carry' + (left \div ByteMod)
      /\ carry' \in Nat
  <2>1. Pending = carry + left
    BY <1>1 DEF Pending, left
  <2>2. Pending' = carry' + (delta \div Place[i + 1])
    BY <1>1 DEF Pending
  <2>. QED  BY <1>1, <1>3, <1>7, <2>1, <2>2
<1>9. s[i] + Pending = (sum % ByteMod) + Pending' * ByteMod
  <2>. DEFINE c == left \div ByteMod
              d == sum \div ByteMod
              e == left % ByteMod
              b == sum % ByteMod
  <2>1. /\ left = ByteMod * c + e /\ s[i] + e + carry = ByteMod * d + b /\ carry' = d
        /\ c \in Int /\ d \in Int /\ e \in Int /\ b \in Int
    BY <1>1, <1>4, <1>5, <1>7
  <2>. HIDE DEF b, c, d, e
  <2>2. (d + c) * ByteMod = d * ByteMod + c * ByteMod
        /\ c * ByteMod = ByteMod * c /\ d * ByteMod = ByteMod * d
        /\ c * ByteMod \in Int /\ d * ByteMod \in Int
    BY <1>2, <2>1, Distribute, Regroup
  <2>3. s[i] \in Int /\ carry \in Int /\ left \in Int
    BY <1>2, <1>3
  <2>4. s[i] + (carry + left) = b + (d + c) * ByteMod
    BY <2>1, <2>2, <2>3
  <2>. QED  BY <1>8, <2>1, <2>4 DEF b, c
<1>10. /\ done' \in BOOLEAN /\ (i' = Bytes => done')
       /\ (done' => i' = Bytes \/ Pending' = 0)
  BY <1>1
<1>11. Pending \in Int /\ Pending' \in Int
  BY <1>2, <1>3, <1>4, <1>8
<1>. HIDE DEF sum
<1>. QED  BY <1>1, <1>7, <1>8, <1>9, <1>10, <1>11, AdderStep, Zenon

\* verify_keygen's eight.
LEMMA EightStep == MInv /\ EightByte => MInv'
<1>. SUFFICES ASSUME MInv, EightByte PROVE MInv'
  OBVIOUS
<1>. DEFINE sum == s[i] + IF i = 0 THEN delta ELSE carry
<1>1. /\ loop = "eight" /\ ~done /\ i' = i + 1 /\ UNCHANGED <<loop, input, delta>>
      /\ s' = [s EXCEPT ![i] = sum % ByteMod]
      /\ carry' = sum \div ByteMod
      /\ done' = (carry' = 0 \/ i' = Bytes)
  BY DEF EightByte, LoopEnds
<1>2. /\ delta \in Nat /\ carry \in Nat /\ s[i] \in Nat /\ i \in Nat
      /\ ByteMod \in Nat /\ ByteMod > 0
  BY <1>1, ByteLeft, ByteType, Widths DEF MInv, MTypeOK
<1>3. sum \in Nat /\ sum = s[i] + Pending /\ Pending \in Nat
  BY <1>1, <1>2 DEF Pending
<1>. HIDE DEF sum
<1>4. sum = ByteMod * (sum \div ByteMod) + (sum % ByteMod)
      /\ sum \div ByteMod \in Nat /\ sum % ByteMod \in 0..(ByteMod - 1)
  BY <1>3, LowByte
<1>5. Pending' = carry' /\ carry' \in Nat
  BY <1>1, <1>2, <1>4 DEF Pending
<1>6. s[i] + Pending = (sum % ByteMod) + Pending' * ByteMod
  <2>1. (sum \div ByteMod) * ByteMod = ByteMod * (sum \div ByteMod)
        /\ (sum \div ByteMod) * ByteMod \in Int
    BY <1>2, <1>4, Regroup
  <2>. QED  BY <1>1, <1>3, <1>4, <1>5, <2>1
<1>7. /\ done' \in BOOLEAN /\ (i' = Bytes => done')
      /\ (done' => i' = Bytes \/ Pending' = 0)
  BY <1>1, <1>5
<1>8. Pending \in Int /\ Pending' \in Int
  BY <1>3, <1>5
<1>. QED  BY <1>1, <1>4, <1>5, <1>6, <1>7, <1>8, AdderStep, Zenon

\* Clamping keeps a scalar a scalar.
LEMMA ClampType ==
  ASSUME NEW x \in Scalars
  PROVE  /\ clamp(x) \in Scalars
         /\ clamp(x) = [[x EXCEPT ![0] = x[0] - (x[0] % 8)]
                          EXCEPT ![Bytes - 1] = TopBits(x[Bytes - 1])]
         /\ [x EXCEPT ![0] = x[0] - (x[0] % 8)] \in Scalars
         /\ x[0] - (x[0] % 8) \in 0..(ByteMod - 1)
         /\ TopBits(x[Bytes - 1]) \in 0..(ByteMod - 1)
         /\ 0 \in Index /\ Bytes - 1 \in Index /\ Bytes - 1 # 0
<1>1. 0 \in Index /\ Bytes - 1 \in Index /\ Bytes - 1 # 0
  BY Widths DEF Index
<1>2. x[0] \in 0..(ByteMod - 1) /\ x[Bytes - 1] \in 0..(ByteMod - 1)
  BY <1>1, ByteType
<1>3. x[0] - (x[0] % 8) \in 0..(ByteMod - 1)
  BY <1>2, Widths
<1>4. TopBits(x[Bytes - 1]) \in 0..(ByteMod - 1)
  <2>. DEFINE f == ByteMod \div 4
              r == x[Bytes - 1] % f
  <2>1. f \in Nat \ {0} /\ 2 * f <= ByteMod
    BY Widths
  <2>2. x[Bytes - 1] \in Nat
    BY <1>2, Widths
  <2>. HIDE DEF f
  <2>3. r \in 0..(f - 1)
    BY <2>1, <2>2
  <2>. HIDE DEF r
  <2>4. r + f \in 0..(ByteMod - 1)
    BY <2>1, <2>3, Widths
  <2>. QED  BY <2>4 DEF TopBits, r, f
<1>5. [x EXCEPT ![0] = x[0] - (x[0] % 8)] \in Scalars
  BY <1>3 DEF Scalars
<1>6. clamp(x) = [[x EXCEPT ![0] = x[0] - (x[0] % 8)]
                   EXCEPT ![Bytes - 1] = TopBits(x[Bytes - 1])]
  BY <1>1 DEF clamp, Scalars
<1>7. clamp(x) \in Scalars
  BY <1>4, <1>5, <1>6 DEF Scalars
<1>. QED  BY <1>1, <1>3, <1>4, <1>5, <1>6, <1>7

\* Clamping is done once, from the scalar that was given.
LEMMA ClampStep == MInv /\ Clamp => MInv'
<1>. SUFFICES ASSUME MInv, Clamp PROVE MInv'
  OBVIOUS
<1>1. /\ loop = "clamp" /\ ~done /\ s' = clamp(s) /\ done' = TRUE
      /\ UNCHANGED <<loop, input, delta, i, carry>>
  BY DEF Clamp
<1>2. s = input
  BY <1>1 DEF MInv, ClampedOnce
<1>3. MTypeOK'
  <2>1. clamp(s) \in Scalars
    BY ClampType DEF MInv, MTypeOK
  <2>. QED  BY <1>1, <2>1, Zenon DEF MInv, MTypeOK
<1>4. LoopOK'
  BY <1>1 DEF MInv, LoopOK, Pending
<1>5. Balance'
  BY <1>1 DEF Balance
<1>6. ClampedOnce'
  <2>1. s' = clamp(input) /\ input' = input /\ clamp(input)' = clamp(input)
    BY <1>1, <1>2 DEF clamp, TopBits
  <2>. QED  BY <1>1, <2>1 DEF ClampedOnce
<1>. QED  BY <1>3, <1>4, <1>5, <1>6 DEF MInv

\* Every step keeps the balance.
LEMMA MInvStep == MInv /\ [Next]_vars => MInv'
<1>1. ASSUME MInv, UNCHANGED vars PROVE MInv'
  BY <1>1 DEF MInv, MTypeOK, LoopOK, Balance, ClampedOnce, Pending, vars
<1>2. MInv /\ Terminated => MInv'
  BY <1>1 DEF Terminated
<1>. QED  BY <1>1, <1>2, AdvanceStep, OffsetStep, EightStep, ClampStep DEF Next

-----------------------------------------------------------------------------
(***************************************************************************)
(* 3. What the loops compute.                                              *)
(***************************************************************************)

\* The invariant of the loops: what has been added and what is pending make up
\* the sum at every byte, however the carry is propagated.
THEOREM ScalarInvariance == Spec => []MInv
BY InitMInv, MInvStep, PTL DEF Spec

\* advance_scalar, the offset of the search kernels and the +8 of verify_keygen
\* are addition modulo the width of a scalar.
THEOREM LoopsAdd == Spec => []AddersAdd
<1>1. MInv => AddersAdd
  <2>. SUFFICES ASSUME MInv, done, loop # "clamp"
                PROVE  Value(s) = (Value(input) + delta) % ScalarMod
    BY DEF AddersAdd
  <2>1. /\ Bytes \in 0..Bytes /\ ScalarMod = Place[Bytes] /\ ScalarMod \in Nat \ {0}
        /\ s \in Scalars /\ i \in 0..Bytes /\ Value(input) + delta \in Int
    BY Widths, PlaceFunction, WorthsType DEF ScalarMod, MInv, MTypeOK
  <2>2. Value(s) \in 0..(ScalarMod - 1)
    BY <2>1, ValueShape
  <2>3. Value(s) + Pending * Place[i] = Value(input) + delta
    BY DEF MInv, Balance
  <2>4. Pending \in Int /\ Place[i] \in Int
    <3>1. /\ loop \in {"advance", "offset", "eight"} /\ delta \in Nat /\ carry \in Nat
          /\ Place[i] \in Nat \ {0}
      BY <2>1, PlaceFunction DEF MInv, MTypeOK
    <3>2. delta \div Place[i] \in Int
      BY <3>1
    <3>. QED  BY <3>1, <3>2 DEF Pending
  <2>5. PICK m \in Int : Value(input) + delta = Value(s) + m * ScalarMod
    <3>1. CASE Pending = 0
      <4>1. 0 * Place[i] = 0 /\ 0 * ScalarMod = 0
        BY <2>1, <2>4
      <4>. QED  BY <2>2, <2>3, <3>1, <4>1
    <3>2. CASE i = Bytes
      BY <2>1, <2>3, <2>4, <3>2
    <3>. QED  BY <3>1, <3>2 DEF MInv, LoopOK
  <2>. QED  BY <2>1, <2>2, <2>5, QuotientUnique
<1>. QED  BY <1>1, ScalarInvariance, PTL

\* Bit operations on the first and the last byte are the arithmetic on the whole.
LEMMA ClampValue ==
  ASSUME NEW x \in Scalars
  PROVE  LET base == ScalarMod \div 4
             v    == Value(x)
         IN  Value(clamp(x)) = ((v - (v % 8)) % base) + base
<1>. DEFINE n == Bytes - 1
            p == Place[n]
            f == ByteMod \div 4
            low == [x EXCEPT ![0] = x[0] - (x[0] % 8)]
            v == Value(x)
            r == x[0] % 8
            t == x[n]
<1>1. /\ low \in Scalars /\ x[0] - r \in 0..(ByteMod - 1)
      /\ TopBits(t) \in 0..(ByteMod - 1) /\ 0 \in Index /\ n \in Index /\ n # 0
      /\ clamp(x) = [low EXCEPT ![n] = TopBits(t)]
  BY ClampType
<1>2. /\ x[0] \in Nat /\ r \in 0..7 /\ t \in Nat /\ Value(x) \in Int
      /\ p \in Nat \ {0} /\ ScalarMod = ByteMod * p
      /\ f \in Nat \ {0} /\ ByteMod = 4 * f /\ Place[0] = 1
  <2>1. n + 1 = Bytes
    BY Widths
  <2>2. x[0] \in Nat /\ t \in Nat /\ Value(x) \in Int
    BY <1>1, ByteType, WorthsType
  <2>3. p \in Nat \ {0} /\ ScalarMod = ByteMod * p /\ Place[0] = 1
    BY <1>1, <2>1, NextPlace, PlaceFunction DEF ScalarMod
  <2>4. f \in Nat \ {0} /\ ByteMod = 4 * f
    BY Widths
  <2>5. r \in 0..7
    BY <2>2
  <2>. QED  BY <2>2, <2>3, <2>4, <2>5
<1>3. low[n] = t
  BY <1>1 DEF Scalars
<1>4. Value(low) = v - r
  <2>1. Value(low) = Value(x) + ((x[0] - r) - x[0]) * Place[0]
    BY <1>1, ValueUpdate
  <2>2. ((x[0] - r) - x[0]) * 1 = -r
    BY <1>2
  <2>. QED  BY <1>2, <2>1, <2>2
<1>5. v % 8 = r
  <2>1. PICK q \in Int : v = x[0] + 8 * q
    BY ValueShape
  <2>2. x[0] = 8 * (x[0] \div 8) + r /\ x[0] \div 8 \in Int
    BY <1>2
  <2>. DEFINE k == (x[0] \div 8) + q
  <2>. HIDE DEF v, r
  <2>3. v = r + k * 8 /\ k \in Int /\ v \in Int /\ 8 \in Nat \ {0} /\ r \in 0..(8 - 1)
    BY <1>2, <2>1, <2>2
  <2>. HIDE DEF k
  <2>. QED  BY <2>3, QuotientUnique
<1>6. PICK l \in 0..(p - 1) : Value(low) = l + t * p
  BY <1>1, <1>3, ValueShape
<1>7. TopBits(t) = (t % f) + f /\ t = f * (t \div f) + (t % f)
      /\ t \div f \in Int /\ t % f \in 0..(f - 1)
  BY <1>2 DEF TopBits
<1>8. Value(clamp(x)) = Value(low) + (TopBits(t) - t) * p
  <2>1. Value([low EXCEPT ![n] = TopBits(t)]) = Value(low) + (TopBits(t) - low[n]) * p
    BY <1>1, ValueUpdate
  <2>. HIDE DEF low, t, n, p
  <2>. QED  BY <1>1, <1>3, <2>1
<1>9. ScalarMod \div 4 = f * p /\ f * p \in Nat \ {0}
  <2>1. f * p \in Nat \ {0} /\ (4 * f) * p = 4 * (f * p)
    BY <1>2
  <2>. DEFINE k == f * p
  <2>2. ScalarMod = 4 * k /\ k \in Nat
    BY <1>2, <2>1
  <2>. HIDE DEF k
  <2>3. ScalarMod \div 4 = k
    BY <2>2
  <2>. QED  BY <2>1, <2>3 DEF k
<1>. HIDE DEF n, p, f, low, v, r, t
<1>. DEFINE e == t % f
            d == t \div f
<1>10. /\ e \in Nat /\ e < f /\ d \in Int /\ t = f * d + e /\ TopBits(t) = e + f
       /\ f \in Nat /\ p \in Nat /\ t \in Nat /\ l \in Nat /\ l < p
  BY <1>2, <1>6, <1>7
<1>. HIDE DEF e, d
<1>11. /\ t * p = d * (f * p) + e * p /\ t * p \in Int
       /\ e * p \in Int /\ f * p \in Int /\ d * (f * p) \in Int
  <2>1. f * d = d * f /\ f * d \in Int /\ (d * f) * p = d * (f * p) /\ f * p \in Int
    BY <1>10, Regroup
  <2>2. (f * d + e) * p = (f * d) * p + e * p /\ (f * d) * p \in Int /\ e * p \in Int
    BY <1>10, <2>1, Distribute
  <2>. QED  BY <1>10, <2>1, <2>2
<1>12. (TopBits(t) - t) * p = (e * p + f * p) - t * p
  <2>1. (e + f) * p = e * p + f * p /\ e + f \in Int
    BY <1>10, Distribute
  <2>2. ((e + f) - t) * p = (e + f) * p - t * p
    BY <1>10, <2>1, Distribute
  <2>. QED  BY <1>10, <2>1, <2>2
<1>13. Value(clamp(x)) = (l + e * p) + f * p
  BY <1>6, <1>8, <1>10, <1>11, <1>12
<1>14. l + e * p \in 0..(f * p - 1)
  <2>1. (e + 1) * p <= f * p /\ (e + 1) * p = e * p + p
    BY <1>10, ProductGrows, OneMore
  <2>2. 0 * p <= e * p /\ 0 * p = 0
    BY <1>10, ProductGrows
  <2>. QED  BY <1>10, <1>11, <2>1, <2>2
<1>15. (l + t * p) % (f * p) = l + e * p
  <2>1. l + t * p = (l + e * p) + d * (f * p) /\ l + t * p \in Int
    BY <1>10, <1>11
  <2>. QED  BY <1>9, <1>10, <1>14, <2>1, QuotientUnique
<1>16. (v - (v % 8)) % (f * p) = l + e * p
  BY <1>4, <1>5, <1>6, <1>15
<1>17. Value(clamp(x)) = ((v - (v % 8)) % (ScalarMod \div 4)) + (ScalarMod \div 4)
  BY <1>9, <1>13, <1>16
<1>. QED  BY <1>17 DEF v

\* A clamped scalar is not changed by clamping.
LEMMA ClampTwice ==
  ASSUME NEW x \in Scalars
  PROVE  clamp(clamp(x)) = clamp(x)
<1>. DEFINE c == clamp(x)
            n == Bytes - 1
<1>1. /\ c \in Scalars /\ 0 \in Index /\ n \in Index /\ n # 0
      /\ c = [[x EXCEPT ![0] = x[0] - (x[0] % 8)] EXCEPT ![n] = TopBits(x[n])]
      /\ x[0] \in Nat /\ x[n] \in Nat
  BY ClampType, ByteType
<1>2. c[0] = x[0] - (x[0] % 8) /\ c[n] = TopBits(x[n])
  <2>. HIDE DEF c, n
  <2>. QED  BY <1>1 DEF Scalars
<1>3. clamp(c) = [[c EXCEPT ![0] = c[0] - (c[0] % 8)] EXCEPT ![n] = TopBits(c[n])]
  BY <1>1, ClampType
<1>4. c[0] - (c[0] % 8) = c[0]
  <2>1. \A y \in Nat : (y - (y % 8)) - ((y - (y % 8)) % 8) = y - (y % 8)
    OBVIOUS
  <2>. QED  BY <1>1, <1>2, <2>1
<1>5. TopBits(c[n]) = c[n]
  <2>. DEFINE f == ByteMod \div 4
              r == x[n] % f
  <2>1. f \in Nat \ {0}
    BY Widths
  <2>2. r \in 0..(f - 1)
    BY <1>1, <2>1
  <2>3. c[n] = r + f /\ TopBits(c[n]) = (c[n] % f) + f
    BY <1>2 DEF TopBits
  <2>. HIDE DEF f, r
  <2>4. r + f = r + 1 * f
    BY <2>1, <2>2
  <2>5. (r + f) % f = r
    BY <2>1, <2>2, <2>4, QuotientUnique
  <2>. QED  BY <2>3, <2>5
<1>. HIDE DEF c, n
<1>6. clamp(c) = c
  BY <1>1, <1>3, <1>4, <1>5 DEF Scalars
<1>. QED  BY <1>6 DEF c

\* clamp_scalar is the arithmetic the other modules use, and the second clamp of
\* mul_base_clamped changes nothing.
THEOREM ClampComputes == Spec => []ClampIsArithmetic
<1>1. MInv => ClampIsArithmetic
  <2>. SUFFICES ASSUME MInv, done, loop = "clamp" PROVE ClampIsArithmetic
    BY DEF ClampIsArithmetic
  <2>1. input \in Scalars /\ s = clamp(input)
    BY DEF MInv, MTypeOK, ClampedOnce
  <2>. QED  BY <2>1, ClampValue, ClampTwice, Zenon DEF ClampIsArithmetic, generate_keypair
<1>. QED  BY <1>1, ScalarInvariance, PTL
=============================================================================
