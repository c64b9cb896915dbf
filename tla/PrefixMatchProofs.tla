------------------------- MODULE PrefixMatchProofs -------------------------
(***************************************************************************)
(* The CPU matcher and the kernel test a key against the same prefixes:    *)
(* for every radix, every length of a key, every width of a word and every *)
(* command line.                                                           *)
(*                                                                         *)
(* Section 1 is about nibbles and bytes, section 2 shows that the CPU      *)
(* matcher tests the hex digits of a key, section 3 that a word is read as *)
(* it was written, section 4 follows the packing of the prefixes and       *)
(* section 5 the kernel's walk over the packed buffer.  Section 6 counts   *)
(* the keys a search accepts, for the estimate, and section 7 has the      *)
(* inductive invariant and the theorems.                                   *)
(***************************************************************************)
EXTENDS PrefixMatch, SumLemmas, SequenceTheorems, FiniteSetTheorems

\* What validate_prefix lets through.
Spellings == {p \in Seq(Nat) : ValidPrefix(p)}

-----------------------------------------------------------------------------
(***************************************************************************)
(* 1. Nibbles and bytes.                                                   *)
(***************************************************************************)
\* The constants, as numbers.
LEMMA Sizes ==
  /\ Radix \in Nat \ {0} /\ Radix >= 2 /\ Radix \in Int /\ Radix > 0
  /\ ByteMod \in Nat \ {0} /\ ByteMod = Radix * Radix /\ ByteMod \in Int
  /\ KeyBytes \in Nat \ {0} /\ KeyBytes >= 2
  /\ WordBytes \in Nat \ {0} /\ WordBytes \in Int
<1>1. /\ Radix \in Nat \ {0} /\ Radix % 2 = 0
      /\ KeyBytes \in Nat /\ KeyBytes > 1 /\ WordBytes \in Nat \ {0}
  BY FormatAssumption
<1>2. Radix >= 2
  BY <1>1
<1>3. Radix * Radix \in Nat \ {0}
  BY <1>1
<1>. QED  BY <1>1, <1>2, <1>3 DEF ByteMod

\* A byte made of two nibbles has them as its halves.
LEMMA ByteOfNibbles ==
  ASSUME NEW h \in 0 .. Radix - 1, NEW l \in 0 .. Radix - 1
  PROVE  LET b == Radix * h + l
         IN b \in 0 .. ByteMod - 1 /\ b \div Radix = h /\ b % Radix = l
<1>. DEFINE b == Radix * h + l
<1>1. Radix * h = h * Radix /\ h * Radix \in Int /\ h \in Int /\ l \in Int
  BY Sizes, Regroup
<1>2. b = l + h * Radix /\ b \in Int
  BY <1>1
<1>3. b % Radix = l /\ b \div Radix = h
  BY <1>1, <1>2, Sizes, QuotientUnique
<1>4. 0 * Radix <= h * Radix /\ h * Radix <= (Radix - 1) * Radix
  BY Sizes, ProductGrows
<1>5. (Radix - 1) * Radix = ByteMod - Radix /\ 0 * Radix = 0
  BY Sizes
<1>6. b >= 0 /\ b <= ByteMod - 1
  BY <1>1, <1>2, <1>4, <1>5, Sizes
<1>. QED  BY <1>2, <1>3, <1>6

\* A byte is made of its two halves.
LEMMA NibblesOfByte ==
  ASSUME NEW b \in 0 .. ByteMod - 1
  PROVE  /\ b = Radix * (b \div Radix) + (b % Radix)
         /\ b \div Radix \in 0 .. Radix - 1 /\ b % Radix \in 0 .. Radix - 1
<1>. DEFINE h == b \div Radix  l == b % Radix
<1>1. b = Radix * h + l /\ h \in Int /\ l \in 0 .. Radix - 1
  BY Sizes, Quotient
<1>. HIDE DEF h, l
<1>2. Radix * h = h * Radix /\ h * Radix \in Int
  BY <1>1, Sizes, Regroup
<1>3. h >= 0
  <2>1. CASE h <= -1
    <3>1. h * Radix <= (-1) * Radix /\ (-1) * Radix = -Radix
      BY <1>1, <2>1, Sizes, ProductGrows
    <3>. QED  BY <1>1, <1>2, <3>1, Sizes
  <2>. QED  BY <1>1, <2>1
<1>4. h <= Radix - 1
  <2>1. CASE h >= Radix
    <3>1. Radix * Radix <= h * Radix
      BY <1>1, <2>1, Sizes, ProductGrows
    <3>. QED  BY <1>1, <1>2, <3>1, Sizes
  <2>. QED  BY <1>1, <2>1, Sizes
<1>5. h \in 0 .. Radix - 1
  BY <1>1, <1>3, <1>4, Sizes
<1>. QED  BY <1>1, <1>5 DEF h, l

\* Two bytes are equal when their halves are.
LEMMA SameByte ==
  ASSUME NEW b \in 0 .. ByteMod - 1, NEW h \in 0 .. Radix - 1, NEW l \in 0 .. Radix - 1
  PROVE  b = Radix * h + l <=> b \div Radix = h /\ b % Radix = l
BY ByteOfNibbles, NibblesOfByte

\* Masking both bytes with 0xF0 compares their high nibbles.
LEMMA SameHighNibble ==
  ASSUME NEW b \in 0 .. ByteMod - 1, NEW h \in 0 .. Radix - 1
  PROVE  HighNibble(b) = HighNibble(Radix * h) <=> b \div Radix = h
<1>. DEFINE q == b \div Radix  r == b % Radix
<1>1. b = Radix * q + r /\ q \in 0 .. Radix - 1 /\ r \in 0 .. Radix - 1
  BY NibblesOfByte
<1>2. (Radix * h + 0) \div Radix = h /\ (Radix * h + 0) % Radix = 0
  <2>1. 0 \in 0 .. Radix - 1
    BY Sizes
  <2>. QED  BY <2>1, ByteOfNibbles
<1>. HIDE DEF q, r
<1>3. Radix * q = q * Radix /\ q * Radix \in Int /\ q \in Int /\ r \in Int
      /\ Radix * h = h * Radix /\ h * Radix \in Int /\ h \in Int
  BY <1>1, Sizes, Regroup
<1>4. Radix * h + 0 = Radix * h
  BY <1>3
<1>5. HighNibble(b) = q * Radix
  BY <1>1, <1>3 DEF HighNibble, r
<1>6. HighNibble(Radix * h) = h * Radix
  BY <1>2, <1>3, <1>4 DEF HighNibble
<1>7. q * Radix = h * Radix => q = h
  <2>1. CASE q < h
    <3>1. q + 1 <= h /\ q + 1 \in Int
      BY <1>3, <2>1
    <3>2. (q + 1) * Radix <= h * Radix /\ (q + 1) * Radix = q * Radix + Radix
      BY <1>3, <3>1, Sizes, ProductGrows, OneMore
    <3>. QED  BY <1>3, <3>2, Sizes
  <2>2. CASE h < q
    <3>1. h + 1 <= q /\ h + 1 \in Int
      BY <1>3, <2>2
    <3>2. (h + 1) * Radix <= q * Radix /\ (h + 1) * Radix = h * Radix + Radix
      BY <1>3, <3>1, Sizes, ProductGrows, OneMore
    <3>. QED  BY <1>3, <3>2, Sizes
  <2>. QED  BY <1>3, <2>1, <2>2
<1>. QED  BY <1>5, <1>6, <1>7 DEF q

-----------------------------------------------------------------------------
(***************************************************************************)
(* 2. The CPU matcher.                                                     *)
(***************************************************************************)
\* The shape of a prefix that passed validation.
LEMMA SpellingShape ==
  ASSUME NEW p \in Spellings
  PROVE  /\ p \in Seq(Nat) /\ Len(p) \in Nat \ {0} /\ Len(p) <= 2 * KeyBytes - 2
         /\ DOMAIN p = 1 .. Len(p)
         /\ \A i \in 1 .. Len(p) : p[i] \in 0 .. Radix - 1
<1>1. p \in Seq(Nat) /\ ValidPrefix(p)
  BY DEF Spellings
<1>2. Len(p) \in Nat /\ DOMAIN p = 1 .. Len(p) /\ \A i \in 1 .. Len(p) : p[i] \in Nat
  BY <1>1, LenProperties
<1>3. Len(p) \in 1 .. 2 * KeyBytes - 2
  BY <1>1 DEF ValidPrefix, MaxNibbles
<1>4. \A i \in 1 .. Len(p) : p[i] < Radix
  BY <1>1, <1>2 DEF ValidPrefix
<1>. QED  BY <1>1, <1>2, <1>3, <1>4, Sizes

\* Where the bytes and the trailing nibble of a prefix come from.
LEMMA Halves ==
  ASSUME NEW n \in Nat \ {0}
  PROVE  /\ n \div 2 \in Nat
         /\ n % 2 \in {0, 1} /\ n = 2 * (n \div 2) + (n % 2)
         /\ \A i \in 1 .. n \div 2 : 2 * i - 1 \in 1 .. n /\ 2 * i \in 1 .. n
         /\ (n + 1) \div 2 = (n \div 2) + (n % 2)
OBVIOUS

\* The digits that byte i of a key is written as.
LEMMA DigitsOfByte ==
  ASSUME NEW k, NEW i \in Nat \ {0}
  PROVE  Digit(k, 2 * i - 1) = k[i] \div Radix /\ Digit(k, 2 * i) = k[i] % Radix
<1>1. (2 * i - 1) % 2 = 1 /\ ((2 * i - 1) + 1) \div 2 = i
  OBVIOUS
<1>2. (2 * i) % 2 # 1 /\ (2 * i) \div 2 = i
  OBVIOUS
<1>. QED  BY <1>1, <1>2 DEF Digit

\* Full bytes hold pairs of nibbles.
LEMMA FullBytesForm ==
  ASSUME NEW p \in Spellings
  PROVE  /\ FullBytes(p) \in Seq(Nat) /\ Len(FullBytes(p)) = Len(p) \div 2
         /\ DOMAIN FullBytes(p) = 1 .. Len(p) \div 2
         /\ \A i \in 1 .. Len(p) \div 2 :
              /\ FullBytes(p)[i] = Radix * p[2 * i - 1] + p[2 * i]
              /\ p[2 * i - 1] \in 0 .. Radix - 1 /\ p[2 * i] \in 0 .. Radix - 1
              /\ FullBytes(p)[i] \in Nat
<1>. DEFINE h == Len(p) \div 2
<1>1. Len(p) \in Nat \ {0} /\ \A i \in 1 .. Len(p) : p[i] \in 0 .. Radix - 1
  BY SpellingShape
<1>2. h \in Nat /\ \A i \in 1 .. h : 2 * i - 1 \in 1 .. Len(p) /\ 2 * i \in 1 .. Len(p)
  BY <1>1, Halves
<1>3. FullBytes(p) = [i \in 1 .. h |-> Radix * p[2 * i - 1] + p[2 * i]]
  BY DEF FullBytes
<1>. HIDE DEF h
<1>4. ASSUME NEW i \in 1 .. h
      PROVE  /\ FullBytes(p)[i] = Radix * p[2 * i - 1] + p[2 * i]
             /\ p[2 * i - 1] \in 0 .. Radix - 1 /\ p[2 * i] \in 0 .. Radix - 1
             /\ FullBytes(p)[i] \in Nat
  <2>1. p[2 * i - 1] \in 0 .. Radix - 1 /\ p[2 * i] \in 0 .. Radix - 1
    BY <1>1, <1>2
  <2>2. FullBytes(p)[i] = Radix * p[2 * i - 1] + p[2 * i]
    BY <1>3
  <2>3. Radix * p[2 * i - 1] + p[2 * i] \in 0 .. ByteMod - 1
    BY <2>1, ByteOfNibbles
  <2>4. FullBytes(p)[i] \in Nat
    BY <2>2, <2>3, Sizes
  <2>. QED  BY <2>1, <2>2, <2>4
<1>5. FullBytes(p) \in [1 .. h -> Nat] /\ DOMAIN FullBytes(p) = 1 .. h
  <2>1. \A i \in 1 .. h : FullBytes(p)[i] \in Nat
    BY <1>4
  <2>. QED  BY <1>3, <2>1
<1>6. FullBytes(p) \in Seq(Nat)
  BY <1>2, <1>5, SeqDef
<1>7. Len(FullBytes(p)) = h
  BY <1>2, <1>5, <1>6, LenProperties
<1>. QED  BY <1>4, <1>5, <1>6, <1>7 DEF h

\* PrefixMatcher::matches compares the hex digits of a key with the prefix.
LEMMA MatcherIsSpelling ==
  ASSUME NEW p \in Spellings, NEW k \in Keys
  PROVE  MatcherMatches(p, k) <=> SpellsPrefix(p, k)
<1>. DEFINE n == Len(p)  h == n \div 2
<1>1. /\ n \in Nat \ {0} /\ n <= 2 * KeyBytes - 2 /\ DOMAIN p = 1 .. n
      /\ \A i \in 1 .. n : p[i] \in 0 .. Radix - 1
  BY SpellingShape
<1>. HIDE DEF n
<1>2. /\ h \in Nat /\ n % 2 \in {0, 1} /\ n = 2 * h + (n % 2)
      /\ \A i \in 1 .. h : 2 * i - 1 \in 1 .. n /\ 2 * i \in 1 .. n
  BY <1>1, Halves
<1>3. DOMAIN FullBytes(p) = 1 .. h
      /\ \A i \in 1 .. h : FullBytes(p)[i] = Radix * p[2 * i - 1] + p[2 * i]
                           /\ p[2 * i - 1] \in 0 .. Radix - 1 /\ p[2 * i] \in 0 .. Radix - 1
  BY FullBytesForm DEF n
<1>. HIDE DEF h
<1>4. \A i \in 1 .. KeyBytes : k[i] \in 0 .. ByteMod - 1
  BY DEF Keys
<1>5. h < KeyBytes
  BY <1>1, <1>2, Sizes
<1>6. ASSUME NEW i \in 1 .. h
      PROVE  k[i] = FullBytes(p)[i]
               <=> Digit(k, 2 * i - 1) = p[2 * i - 1] /\ Digit(k, 2 * i) = p[2 * i]
  <2>1. k[i] \in 0 .. ByteMod - 1
    BY <1>2, <1>4, <1>5, Sizes
  <2>2. i \in Nat \ {0}
    OBVIOUS
  <2>3. Digit(k, 2 * i - 1) = k[i] \div Radix /\ Digit(k, 2 * i) = k[i] % Radix
    BY <2>2, DigitsOfByte
  <2>4. k[i] = Radix * p[2 * i - 1] + p[2 * i]
          <=> k[i] \div Radix = p[2 * i - 1] /\ k[i] % Radix = p[2 * i]
    BY <1>3, <2>1, SameByte
  <2>. QED  BY <1>3, <2>3, <2>4
<1>7. n % 2 = 1 => (k[h + 1] \div Radix = p[n] <=> Digit(k, n) = p[n])
  <2>. SUFFICES ASSUME n % 2 = 1 PROVE k[h + 1] \div Radix = Digit(k, n)
    OBVIOUS
  <2>1. h + 1 \in Nat \ {0} /\ n = 2 * (h + 1) - 1
    BY <1>1, <1>2
  <2>2. Digit(k, 2 * (h + 1) - 1) = k[h + 1] \div Radix
    BY <2>1, DigitsOfByte
  <2>. QED  BY <2>1, <2>2
<1>8. MatcherMatches(p, k) <=> /\ \A i \in 1 .. h : k[i] = FullBytes(p)[i]
                               /\ n % 2 = 1 => k[h + 1] \div Radix = p[n]
  BY <1>3, Zenon DEF MatcherMatches, HasTrailing, TrailingNibble, n, h
<1>9. ASSUME SpellsPrefix(p, k) PROVE MatcherMatches(p, k)
  <2>1. \A m \in 1 .. n : Digit(k, m) = p[m]
    BY <1>1, <1>9 DEF SpellsPrefix
  <2>2. \A i \in 1 .. h : k[i] = FullBytes(p)[i]
    BY <1>2, <1>6, <2>1
  <2>3. n \in 1 .. n
    BY <1>1
  <2>. QED  BY <1>7, <1>8, <2>1, <2>2, <2>3
<1>10. ASSUME MatcherMatches(p, k) PROVE SpellsPrefix(p, k)
  <2>1. ASSUME NEW m \in 1 .. n PROVE Digit(k, m) = p[m]
    <3>1. m \in Nat \ {0}
      BY <1>1
    <3>2. CASE m % 2 = 0
      <4>1. PICK i \in 1 .. h : m = 2 * i
        <5>1. m \div 2 \in 1 .. h /\ m = 2 * (m \div 2)
          BY <1>1, <1>2, <3>1, <3>2
        <5>. QED  BY <5>1
      <4>. QED  BY <1>6, <1>8, <1>10, <4>1
    <3>3. CASE m % 2 = 1 /\ m < n
      <4>1. PICK i \in 1 .. h : m = 2 * i - 1
        <5>1. (m \div 2) + 1 \in 1 .. h /\ m = 2 * ((m \div 2) + 1) - 1
          BY <1>1, <1>2, <3>1, <3>3
        <5>. QED  BY <5>1
      <4>. QED  BY <1>6, <1>8, <1>10, <4>1
    <3>4. CASE m % 2 = 1 /\ m = n
      BY <1>7, <1>8, <1>10, <3>4
    <3>. QED  BY <1>1, <3>1, <3>2, <3>3, <3>4
  <2>. QED  BY <1>1, <2>1 DEF SpellsPrefix
<1>. QED  BY <1>9, <1>10

\* should_skip drops the keys whose first two digits are 00 or FF.
LEMMA SkipIsReserved ==
  ASSUME NEW k \in Keys
  PROVE  should_skip(k) <=> \/ Digit(k, 1) = 0 /\ Digit(k, 2) = 0
                            \/ Digit(k, 1) = Radix - 1 /\ Digit(k, 2) = Radix - 1
<1>1. k[1] \in 0 .. ByteMod - 1
  BY Sizes DEF Keys
<1>2. Digit(k, 1) = k[1] \div Radix /\ Digit(k, 2) = k[1] % Radix
  <2>1. 1 \in Nat \ {0} /\ 2 * 1 - 1 = 1 /\ 2 * 1 = 2
    OBVIOUS
  <2>2. Digit(k, 2 * 1 - 1) = k[1] \div Radix /\ Digit(k, 2 * 1) = k[1] % Radix
    BY <2>1, DigitsOfByte
  <2>. QED  BY <2>1, <2>2
<1>3. 0 \in 0 .. Radix - 1 /\ Radix - 1 \in 0 .. Radix - 1
  BY Sizes
<1>4. Radix * 0 + 0 = 0 /\ Radix * (Radix - 1) + (Radix - 1) = ByteMod - 1
  BY Sizes
<1>5. k[1] = Radix * 0 + 0 <=> k[1] \div Radix = 0 /\ k[1] % Radix = 0
  BY <1>1, <1>3, SameByte
<1>6. k[1] = Radix * (Radix - 1) + (Radix - 1)
        <=> k[1] \div Radix = Radix - 1 /\ k[1] % Radix = Radix - 1
  BY <1>1, <1>3, SameByte
<1>. QED  BY <1>2, <1>4, <1>5, <1>6 DEF should_skip

-----------------------------------------------------------------------------
(***************************************************************************)
(* 3. Words.                                                               *)
(***************************************************************************)
\* The weights of the bytes of a word are the powers of ByteMod.
LEMMA PlaceFunction ==
  /\ Place[0] = 1
  /\ \A j \in 1 .. WordBytes : Place[j] = ByteMod * Place[j - 1]
  /\ \A j \in 0 .. WordBytes : Place[j] \in Nat \ {0}
<1>1. WordBytes \in Nat /\ ByteMod \in Nat /\ ByteMod \in Nat \ {0}
  BY Sizes
<1>2. Place = CHOOSE t : t = PowersBody(t, ByteMod, WordBytes)
  BY DEF Place, PowersBody
<1>3. Place = PowersBody(Place, ByteMod, WordBytes)
  BY <1>1, <1>2, PowersExist
<1>. QED  BY <1>1, <1>3, PowersFunction

\* The bytes of a word.
LEMMA WordForm ==
  ASSUME NEW n \in Nat
  PROVE  /\ Word(n) \in Seq(Nat) /\ Len(Word(n)) = WordBytes
         /\ \A i \in 1 .. WordBytes :
              /\ Word(n)[i] = (n \div Place[i - 1]) % ByteMod
              /\ Word(n)[i] \in Int
<1>1. WordBytes \in Nat /\ ByteMod \in Nat \ {0}
  BY Sizes
<1>2. Word(n) = [i \in 1 .. WordBytes |-> (n \div Place[i - 1]) % ByteMod]
  BY DEF Word
<1>3. ASSUME NEW i \in 1 .. WordBytes
      PROVE  Word(n)[i] = (n \div Place[i - 1]) % ByteMod /\ Word(n)[i] \in Nat
  <2>. DEFINE p == Place[i - 1]  d == n \div p
  <2>1. i - 1 \in 0 .. WordBytes
    BY <1>1
  <2>2. p \in Nat \ {0}
    BY <2>1, PlaceFunction
  <2>3. Word(n)[i] = d % ByteMod
    BY <1>2
  <2>. HIDE DEF p
  <2>4. d \in Int
    BY <2>2
  <2>. HIDE DEF d
  <2>5. d % ByteMod \in Nat
    BY <1>1, <2>4
  <2>. QED  BY <2>3, <2>5 DEF d, p
<1>4. Word(n) \in [1 .. WordBytes -> Nat]
  BY <1>2, <1>3
<1>5. Word(n) \in Seq(Nat)
  BY <1>1, <1>4, SeqDef
<1>6. Len(Word(n)) = WordBytes
  BY <1>1, <1>4, <1>5, LenProperties
<1>. QED  BY <1>3, <1>5, <1>6

\* The bytes of a word, each with its weight, make up the number.
LEMMA BytesMakeTheWord ==
  ASSUME NEW n \in 0 .. Place[WordBytes] - 1, NEW f \in [1 .. WordBytes -> Int],
         \A i \in 1 .. WordBytes : f[i] = Word(n)[i] * Place[i - 1]
  PROVE  SumUpTo(f, WordBytes) = n
<1>1. WordBytes \in Nat /\ ByteMod \in Nat \ {0} /\ ByteMod \in Int /\ ByteMod > 0
  BY Sizes
<1>2. 0 \in 0 .. WordBytes /\ WordBytes \in 0 .. WordBytes
  BY <1>1
<1>3. n \in Nat /\ n \in Int /\ Place[WordBytes] \in Nat \ {0}
  BY <1>2, PlaceFunction
<1>4. ASSUME NEW i \in 1 .. WordBytes
      PROVE  n % Place[i] = (n % Place[i - 1]) + f[i]
  <2>. DEFINE m == ByteMod  p == Place[i - 1]  d == n \div p  r == n % p
              q == d \div m  t == d % m
  <2>1. i - 1 \in 0 .. WordBytes /\ i \in 0 .. WordBytes
    BY <1>1
  <2>2. p \in Nat \ {0} /\ p \in Int /\ p > 0 /\ Place[i] = m * p /\ m * p \in Nat \ {0}
    BY <2>1, PlaceFunction
  <2>3. f[i] = t * p
    BY <1>3, WordForm
  <2>4. m \in Nat \ {0} /\ m \in Int /\ m > 0
    BY <1>1
  <2>. HIDE DEF p, m
  <2>5. n = p * d + r /\ d \in Int /\ r \in 0 .. p - 1
    BY <1>3, <2>2, Quotient
  <2>. HIDE DEF d, r
  <2>6. d = m * q + t /\ q \in Int /\ t \in 0 .. m - 1
    BY <2>4, <2>5, Quotient
  <2>. HIDE DEF q, t
  <2>7. /\ t * p <= (m - 1) * p /\ 0 * p <= t * p /\ 0 * p = 0
        /\ t * p \in Int /\ (m - 1) * p = m * p - p
    <3>1. t \in Int /\ t <= m - 1 /\ 0 <= t /\ p \in Nat /\ m - 1 \in Int
      BY <2>2, <2>4, <2>6
    <3>2. t * p <= (m - 1) * p /\ 0 * p <= t * p /\ t * p \in Int
      BY <3>1, ProductGrows
    <3>3. (m - 1) * p = m * p - p /\ 0 * p = 0
      BY <2>2, <2>4
    <3>. QED  BY <3>2, <3>3
  <2>. DEFINE u == m * p  v == r + t * p  w == t * p
  <2>8. p * d = q * u + w /\ q * u \in Int
    <3>1. p * d = p * (m * q) + p * t
      <4>. DEFINE z == m * q
      <4>1. z \in Int /\ d = z + t
        BY <2>4, <2>6
      <4>. HIDE DEF z
      <4>2. (z + t) * p = z * p + t * p /\ (z + t) * p = p * (z + t) /\ z * p = p * z
            /\ t * p = p * t
        BY <2>2, <2>6, <4>1, Distribute, Regroup
      <4>. QED  BY <4>1, <4>2 DEF z
    <3>2. p * (m * q) = q * (m * p) /\ q * (m * p) \in Int /\ p * t = t * p
      BY <2>2, <2>4, <2>6
    <3>. QED  BY <3>1, <3>2
  <2>9. u \in Nat \ {0} /\ w \in Int /\ 0 <= w /\ w <= u - p /\ v = r + w
    <3>1. t * p = w /\ v = r + w /\ m * p = u
      OBVIOUS
    <3>. HIDE DEF u, v, w
    <3>2. u \in Nat \ {0} /\ w \in Int /\ 0 <= w /\ w <= u - p
      BY <2>2, <2>7, <3>1, Zenon
    <3>. QED  BY <3>1, <3>2
  <2>. HIDE DEF u, w
  <2>10. v \in 0 .. u - 1 /\ n = v + q * u
    <3>. DEFINE z == q * u
    <3>1. n = (z + w) + r /\ z \in Int
      BY <2>5, <2>8, Zenon
    <3>. HIDE DEF z, v
    <3>2. v \in 0 .. u - 1 /\ n = v + z
      BY <2>2, <2>5, <2>9, <3>1
    <3>. QED  BY <3>2 DEF z
  <2>. HIDE DEF v
  <2>11. n % u = v
    BY <1>3, <2>6, <2>9, <2>10, QuotientUnique
  <2>. QED  BY <2>2, <2>3, <2>9, <2>11 DEF u, w, p, r
<1>5. PICK s : PartialSums(s, f, WordBytes) /\ SumUpTo(f, WordBytes) = s[WordBytes]
  BY <1>1, SumIsLast
<1>. DEFINE S == {k \in 0 .. WordBytes : s[k] = n % Place[k]}
<1>6. 0 \in S
  <2>1. n % 1 = 0
    BY <1>3
  <2>. QED  BY <1>2, <1>5, <2>1, PlaceFunction DEF PartialSums
<1>7. ASSUME NEW k \in 1 .. WordBytes, k - 1 \in S PROVE k \in S
  <2>1. s[k] = s[k - 1] + f[k]
    BY <1>5 DEF PartialSums
  <2>2. s[k - 1] = n % Place[k - 1]
    BY <1>7
  <2>3. n % Place[k] = (n % Place[k - 1]) + f[k]
    BY <1>4
  <2>4. k \in 0 .. WordBytes
    BY <1>1
  <2>. QED  BY <2>1, <2>2, <2>3, <2>4
<1>. HIDE DEF S
<1>8. WordBytes \in S
  <2>1. \A k \in 0 .. WordBytes : k \in S
    BY <1>1, <1>6, <1>7, UpTo, Zenon
  <2>. QED  BY <1>2, <2>1
<1>9. n % Place[WordBytes] = n
  <2>. DEFINE u == Place[WordBytes]
  <2>1. u \in Nat \ {0} /\ n \in 0 .. u - 1 /\ n = n + 0 * u /\ 0 \in Int
    BY <1>3
  <2>. HIDE DEF u
  <2>2. n % u = n
    BY <1>3, <2>1, QuotientUnique
  <2>. QED  BY <2>2 DEF u
<1>. QED  BY <1>5, <1>8, <1>9 DEF S

\* The kernel reads the number that the packing wrote.
LEMMA ReadsWord ==
  ASSUME NEW o \in Nat, NEW n \in 0 .. Place[WordBytes] - 1,
         \A i \in 1 .. WordBytes : packed[o + i] = Word(n)[i]
  PROVE  ReadWord(o) = n
<1>. DEFINE f == [i \in 1 .. WordBytes |-> At(o + (i - 1)) * Place[i - 1]]
<1>1. ASSUME NEW i \in 1 .. WordBytes
      PROVE  f[i] = Word(n)[i] * Place[i - 1] /\ f[i] \in Int
  <2>1. (o + (i - 1)) + 1 = o + i
    OBVIOUS
  <2>2. At(o + (i - 1)) = Word(n)[i]
    BY <2>1 DEF At
  <2>3. f[i] = Word(n)[i] * Place[i - 1]
    BY <2>2
  <2>4. Word(n)[i] \in Int
    BY WordForm
  <2>5. Place[i - 1] \in Int
    <3>1. i - 1 \in 0 .. WordBytes
      BY Sizes
    <3>. QED  BY <3>1, PlaceFunction
  <2>6. Word(n)[i] * Place[i - 1] \in Int
    BY <2>4, <2>5, Regroup
  <2>. QED  BY <2>3, <2>6
<1>2. f \in [1 .. WordBytes -> Int]
  BY <1>1
<1>3. ReadWord(o) = SumUpTo(f, WordBytes)
  BY DEF ReadWord
<1>. HIDE DEF f
<1>. QED  BY <1>1, <1>2, <1>3, BytesMakeTheWord

-----------------------------------------------------------------------------
(***************************************************************************)
(* 4. The packed buffer.                                                   *)
(***************************************************************************)
\* A sequence followed by another: where the bytes of both end up.
LEMMA Appended ==
  ASSUME NEW s \in Seq(Nat), NEW t \in Seq(Nat), NEW m, m = Len(s), NEW n, n = Len(t),
         NEW r, r = s \o t
  PROVE  /\ r \in Seq(Nat) /\ Len(r) = m + n
         /\ \A i \in 1 .. m : r[i] = s[i]
         /\ \A j \in 1 .. n : r[m + j] = t[j]
<1>1. m \in Nat /\ n \in Nat
  BY LenProperties
<1>2. /\ r \in Seq(Nat) /\ Len(r) = m + n
      /\ \A i \in 1 .. m + n : r[i] = IF i <= m THEN s[i] ELSE t[i - m]
  BY ConcatProperties
<1>3. \A i \in 1 .. m : i \in 1 .. m + n /\ i <= m
  BY <1>1
<1>4. \A j \in 1 .. n : m + j \in 1 .. m + n /\ ~(m + j <= m) /\ (m + j) - m = j
  BY <1>1
<1>. QED  BY <1>2, <1>3, <1>4

\* The bytes of a prefix: the full ones, then the trailing nibble's.
LEMMA PrefixBytesForm ==
  ASSUME NEW p \in Spellings
  PROVE  /\ PrefixBytes(p) \in Seq(Nat) /\ Len(PrefixBytes(p)) = ByteCount(Len(p))
         /\ \A i \in 1 .. Len(p) \div 2 : PrefixBytes(p)[i] = FullBytes(p)[i]
         /\ HasTrailing(p) => /\ PrefixBytes(p)[(Len(p) \div 2) + 1] = Radix * TrailingNibble(p)
                              /\ TrailingNibble(p) \in 0 .. Radix - 1
<1>. DEFINE n == Len(p)  h == n \div 2  t == TrailingNibble(p)
<1>1. n \in Nat \ {0} /\ \A i \in 1 .. n : p[i] \in 0 .. Radix - 1
  BY SpellingShape
<1>2. h \in Nat /\ n % 2 \in {0, 1} /\ n = 2 * h + (n % 2) /\ ByteCount(n) = h + (n % 2)
  BY <1>1, Halves DEF ByteCount
<1>3. FullBytes(p) \in Seq(Nat) /\ Len(FullBytes(p)) = h
  BY FullBytesForm
<1>4. t \in 0 .. Radix - 1 /\ Radix * t \in Nat
  <2>1. n \in 1 .. n
    BY <1>1
  <2>2. t \in 0 .. Radix - 1
    BY <1>1, <2>1 DEF TrailingNibble
  <2>. QED  BY <2>2, Sizes
<1>. HIDE DEF t
<1>5. CASE HasTrailing(p)
  <2>1. n % 2 = 1
    BY <1>5 DEF HasTrailing
  <2>2. PrefixBytes(p) = FullBytes(p) \o <<Radix * t>>
    BY <1>5 DEF PrefixBytes, t
  <2>3. <<Radix * t>> \in Seq(Nat) /\ Len(<<Radix * t>>) = 1 /\ <<Radix * t>>[1] = Radix * t
    BY <1>4
  <2>. HIDE DEF n, h
  <2>4. /\ PrefixBytes(p) \in Seq(Nat) /\ Len(PrefixBytes(p)) = h + 1
        /\ \A i \in 1 .. h : PrefixBytes(p)[i] = FullBytes(p)[i]
        /\ \A j \in 1 .. 1 : PrefixBytes(p)[h + j] = <<Radix * t>>[j]
    BY <1>3, <2>2, <2>3, Appended
  <2>7. PrefixBytes(p)[h + 1] = Radix * t
    BY <2>3, <2>4
  <2>8. ByteCount(n) = h + 1
    BY <1>2, <2>1
  <2>. QED  BY <1>4, <2>4, <2>7, <2>8 DEF n, h, t
<1>6. CASE ~HasTrailing(p)
  <2>1. n % 2 = 0
    BY <1>2, <1>6 DEF HasTrailing
  <2>2. PrefixBytes(p) = FullBytes(p) \o <<>>
    BY <1>6 DEF PrefixBytes
  <2>3. PrefixBytes(p) = FullBytes(p)
    BY <1>3, <2>2, ConcatEmptySeq
  <2>4. ByteCount(n) = h
    BY <1>2, <2>1
  <2>. QED  BY <1>3, <1>6, <2>3, <2>4
<1>. QED  BY <1>5, <1>6

\* What is padded after l aligned bytes, a word and c bytes is what the kernel
\* skips: both round c up to whole words.
LEMMA SamePadding ==
  ASSUME NEW l \in Nat, l % WordBytes = 0, NEW c \in Nat
  PROVE  /\ Padded(c) \in Nat /\ Padded(c) >= c
         /\ (-((l + WordBytes) + c)) % WordBytes = Padded(c) - c
         /\ ((l + WordBytes) + Padded(c)) % WordBytes = 0
<1>. DEFINE W == WordBytes  q == (c + W - 1) \div W  r == (c + W - 1) % W  a == l \div W
<1>1. W \in Nat \ {0} /\ W \in Int /\ W > 0
  BY Sizes
<1>2. Padded(c) = q * W
  BY DEF Padded
<1>. HIDE DEF W
<1>3. c + W - 1 \in Int
  BY <1>1
<1>4. c + W - 1 = W * q + r /\ q \in Int /\ r \in 0 .. W - 1
  BY <1>1, <1>3, Quotient
<1>. HIDE DEF q, r
<1>5. l = W * a /\ a \in Int
  <2>1. l = W * a + (l % W) /\ a \in Int
    BY <1>1, Quotient
  <2>2. l % W = 0
    BY DEF W
  <2>. HIDE DEF a
  <2>3. W * a \in Int
    BY <1>1, <2>1
  <2>. QED  BY <2>1, <2>2, <2>3
<1>. HIDE DEF a
<1>6. W * q = q * W /\ q * W \in Int /\ W * a = a * W /\ a * W \in Int
  BY <1>1, <1>4, <1>5, Regroup
<1>7. q * W - c = (W - 1) - r /\ q * W - c \in 0 .. W - 1
  BY <1>1, <1>4, <1>6
<1>. DEFINE x == q * W  y == a * W  v == a + 1 + q  u == -v
<1>8. v \in Int /\ u \in Int /\ v * W = y + W + x
  <2>1. (a + 1) * W = a * W + W /\ ((a + 1) + q) * W = (a + 1) * W + q * W
    BY <1>1, <1>4, <1>5, OneMore, Distribute
  <2>. QED  BY <1>4, <1>5, <1>6, <2>1
<1>9. u * W = -(v * W) /\ v * W \in Int
  <2>. HIDE DEF v
  <2>1. (0 - v) * W = 0 * W - v * W /\ 0 * W = 0 /\ v * W \in Int /\ 0 - v = -v
    BY <1>1, <1>8, Distribute
  <2>. QED  BY <2>1
<1>10. /\ x \in Int /\ y \in Int /\ l = y /\ x - c \in 0 .. W - 1
       /\ u * W = -y - W - x
  <2>1. x \in Int /\ y \in Int /\ l = y /\ x - c \in 0 .. W - 1
    BY <1>5, <1>6, <1>7
  <2>. HIDE DEF x, y, u, v
  <2>. QED  BY <1>1, <1>8, <1>9, <2>1
<1>. HIDE DEF x, y, u, v
<1>11. (-((l + W) + c)) % W = x - c
  <2>. DEFINE s == -((l + W) + c)  e == x - c
  <2>1. s = e + u * W /\ s \in Int /\ e \in 0 .. W - 1 /\ u \in Int /\ W \in Nat \ {0}
    BY <1>1, <1>8, <1>10
  <2>. HIDE DEF s, e
  <2>2. s % W = e
    BY <2>1, QuotientUnique, Zenon
  <2>. QED  BY <2>2 DEF s, e
<1>12. ((l + W) + x) % W = 0
  <2>. DEFINE s == (l + W) + x
  <2>1. s = 0 + v * W /\ s \in Int /\ 0 \in 0 .. W - 1 /\ v \in Int /\ W \in Nat \ {0}
    BY <1>1, <1>8, <1>9, <1>10
  <2>. HIDE DEF s
  <2>2. s % W = 0
    BY <2>1, QuotientUnique, Zenon
  <2>. QED  BY <2>2 DEF s
<1>13. x \in Nat /\ x >= c
  BY <1>10
<1>. QED  BY <1>2, <1>11, <1>12, <1>13 DEF x, W


\* What packing one prefix appends, and that it leaves the rest alone.
LEMMA PackOneForm ==
  ASSUME NEW data \in Seq(Nat), Len(data) % WordBytes = 0, NEW p \in Spellings
  PROVE  LET new == PackOne(data, p)
             l == Len(data)
             c == ByteCount(Len(p))
         IN /\ new \in Seq(Nat)
            /\ Len(new) = (l + WordBytes) + Padded(c) /\ Len(new) % WordBytes = 0
            /\ \A j \in 1 .. l : new[j] = data[j]
            /\ \A j \in 1 .. WordBytes : new[l + j] = Word(Len(p))[j]
            /\ \A j \in 1 .. c : new[(l + WordBytes) + j] = PrefixBytes(p)[j]
            /\ (l + WordBytes) + c <= Len(new)
<1>. DEFINE l == Len(data)  W == WordBytes  n == Len(p)  c == ByteCount(n)
            head == data \o Word(n)  filled == head \o PrefixBytes(p)
            pad == Padding(filled)  new == filled \o pad  d == Padded(c)
<1>1. n \in Nat /\ l \in Nat /\ W \in Nat \ {0} /\ W \in Nat
  BY SpellingShape, LenProperties, Sizes
<1>2. Word(n) \in Seq(Nat) /\ Len(Word(n)) = W
  BY <1>1, WordForm
<1>3. PrefixBytes(p) \in Seq(Nat) /\ Len(PrefixBytes(p)) = c /\ c \in Nat
  BY PrefixBytesForm, LenProperties
<1>4. PackOne(data, p) = new
  BY DEF PackOne
<1>. HIDE DEF n, c
<1>5. /\ head \in Seq(Nat) /\ Len(head) = l + W
      /\ \A i \in 1 .. l : head[i] = data[i]
      /\ \A j \in 1 .. W : head[l + j] = Word(n)[j]
  BY <1>2, Appended
<1>. HIDE DEF head
<1>6. /\ filled \in Seq(Nat) /\ Len(filled) = (l + W) + c
      /\ \A i \in 1 .. l + W : filled[i] = head[i]
      /\ \A j \in 1 .. c : filled[(l + W) + j] = PrefixBytes(p)[j]
  <2>. DEFINE m == l + W
  <2>1. /\ head \in Seq(Nat) /\ PrefixBytes(p) \in Seq(Nat)
        /\ m = Len(head) /\ c = Len(PrefixBytes(p)) /\ filled = head \o PrefixBytes(p)
    BY <1>3, <1>5
  <2>. HIDE DEF m, filled, new, pad
  <2>2. /\ filled \in Seq(Nat) /\ Len(filled) = m + c
        /\ \A i \in 1 .. m : filled[i] = head[i]
        /\ \A j \in 1 .. c : filled[m + j] = PrefixBytes(p)[j]
    BY <2>1, Appended
  <2>. QED  BY <2>2, Zenon DEF m
<1>. HIDE DEF filled
<1>7. l % W = 0
  OBVIOUS
<1>8. /\ d \in Nat /\ d >= c /\ (-((l + W) + c)) % W = d - c
      /\ ((l + W) + d) % W = 0
  BY <1>1, <1>3, <1>7, SamePadding
<1>. HIDE DEF d, l, W
<1>9. pad \in Seq(Nat) /\ Len(pad) = d - c
  <2>1. pad = [i \in 1 .. d - c |-> 0]
    <3>1. pad = [i \in 1 .. ((-Len(filled)) % WordBytes) |-> 0]
      BY Zenon DEF Padding
    <3>2. (-Len(filled)) % WordBytes = d - c
      BY <1>6, <1>8, Zenon DEF W
    <3>. QED  BY <3>1, <3>2, Zenon
  <2>2. d - c \in Nat /\ pad \in [1 .. d - c -> Nat]
    BY <1>3, <1>8, <2>1
  <2>. HIDE DEF pad
  <2>3. pad \in Seq(Nat)
    BY <2>2, SeqDef
  <2>. QED  BY <2>2, <2>3, LenProperties
<1>. HIDE DEF pad
<1>10. /\ new \in Seq(Nat) /\ Len(new) = ((l + W) + c) + (d - c)
       /\ \A i \in 1 .. (l + W) + c : new[i] = filled[i]
  <2>. DEFINE m == (l + W) + c  x == d - c
  <2>1. /\ filled \in Seq(Nat) /\ pad \in Seq(Nat)
        /\ m = Len(filled) /\ x = Len(pad) /\ new = filled \o pad
    BY <1>6, <1>9
  <2>. HIDE DEF m, x, new
  <2>2. new \in Seq(Nat) /\ Len(new) = m + x /\ \A i \in 1 .. m : new[i] = filled[i]
    BY <2>1, Appended
  <2>. QED  BY <2>2, Zenon DEF m, x
<1>. HIDE DEF new
<1>11. Len(new) = (l + W) + d /\ Len(new) % W = 0 /\ (l + W) + c <= Len(new)
  <2>1. Len(new) = (l + W) + d
    BY <1>1, <1>3, <1>8, <1>10
  <2>2. Len(new) % W = 0
    BY <1>8, <2>1, Zenon
  <2>. QED  BY <1>1, <1>3, <1>8, <2>1, <2>2
<1>12. \A i \in 1 .. l + W : new[i] = head[i]
  <2>1. \A i \in 1 .. l + W : i \in 1 .. (l + W) + c
    BY <1>1, <1>3
  <2>. QED  BY <1>6, <1>10, <2>1
<1>13. \A j \in 1 .. l : new[j] = data[j]
  <2>1. \A i \in 1 .. l : i \in 1 .. l + W
    BY <1>1
  <2>. QED  BY <1>5, <1>12, <2>1
<1>14. \A j \in 1 .. W : new[l + j] = Word(n)[j]
  <2>1. \A j \in 1 .. W : l + j \in 1 .. l + W
    BY <1>1
  <2>. QED  BY <1>5, <1>12, <2>1
<1>15. \A j \in 1 .. c : new[(l + W) + j] = PrefixBytes(p)[j]
  <2>1. \A j \in 1 .. c : (l + W) + j \in 1 .. (l + W) + c
    BY <1>1, <1>3
  <2>. QED  BY <1>6, <1>10, <2>1
<1>. QED
  BY <1>4, <1>10, <1>11, <1>13, <1>14, <1>15, Zenon DEF l, W, n, c, d

\* f starts at a, and its n steps apply g.
Iterates(f, n, S, a, g) ==
  /\ f \in [0 .. n -> S] /\ f[0] = a
  /\ \A k \in 1 .. n : f[k] = g[k][f[k - 1]]

\* Such a function exists.
LEMMA IterationExists ==
  ASSUME NEW n \in Nat, NEW S, NEW a \in S, NEW g \in [1 .. n -> [S -> S]]
  PROVE  \E f : Iterates(f, n, S, a, g)
<1>. DEFINE T == {m \in 0 .. n : \E f : Iterates(f, m, S, a, g)}
<1>1. 0 \in T
  <2>. DEFINE f == [k \in 0 .. 0 |-> a]
  <2>1. Iterates(f, 0, S, a, g) /\ 0 \in 0 .. n
    BY DEF Iterates
  <2>. HIDE DEF f
  <2>. QED  BY <2>1
<1>2. ASSUME NEW m \in 1 .. n, m - 1 \in T PROVE m \in T
  <2>1. PICK f : Iterates(f, m - 1, S, a, g)
    BY <1>2
  <2>. DEFINE b == g[m][f[m - 1]]
              h == [k \in 0 .. m |-> IF k = m THEN b ELSE f[k]]
  <2>2. /\ f \in [0 .. m - 1 -> S] /\ f[0] = a
        /\ \A k \in 1 .. m - 1 : f[k] = g[k][f[k - 1]]
    BY <2>1 DEF Iterates
  <2>3. m - 1 \in 0 .. m - 1 /\ m \in 0 .. n /\ m # 0 /\ m \in 0 .. m
        /\ 0 \in 0 .. m
    OBVIOUS
  <2>4. b \in S
    <3>1. f[m - 1] \in S
      BY <2>2, <2>3
    <3>. QED  BY <3>1
  <2>. HIDE DEF b
  <2>5. h \in [0 .. m -> S]
    <3>1. \A k \in 0 .. m : k # m => k \in 0 .. m - 1
      OBVIOUS
    <3>. QED  BY <2>2, <2>4, <3>1
  <2>6. h[0] = a
    BY <2>2, <2>3
  <2>7. ASSUME NEW k \in 1 .. m PROVE h[k] = g[k][h[k - 1]]
    <3>1. h[k - 1] = f[k - 1]
      <4>1. k - 1 \in 0 .. m /\ k - 1 # m
        OBVIOUS
      <4>. QED  BY <4>1
    <3>2. CASE k = m
      <4>1. h[m] = b
        BY <2>3
      <4>. QED  BY <3>1, <3>2, <4>1 DEF b
    <3>3. CASE k # m
      <4>1. k \in 1 .. m - 1 /\ k \in 0 .. m
        BY <3>3
      <4>2. h[k] = f[k]
        BY <3>3, <4>1
      <4>. QED  BY <2>2, <3>1, <4>1, <4>2
    <3>. QED  BY <3>2, <3>3
  <2>. HIDE DEF h
  <2>8. Iterates(h, m, S, a, g)
    BY <2>5, <2>6, <2>7 DEF Iterates
  <2>. QED  BY <2>3, <2>8
<1>. HIDE DEF T
<1>3. n \in T
  <2>1. \A m \in 0 .. n : m \in T
    BY <1>1, <1>2, UpTo, Zenon
  <2>. QED  BY <2>1
<1>. QED  BY <1>3 DEF T

\* f holds the buffer after each step of the loop that packs the prefixes ps.
Packing(f, ps) ==
  /\ f \in [0 .. Len(ps) -> Seq(Nat)] /\ f[0] = Word(Len(ps))
  /\ \A i \in 1 .. Len(ps) : f[i] = PackOne(f[i - 1], ps[i])

\* The new bytes of prefix i, in a buffer b.
Entry(b, f, ps, i) ==
  LET o == Len(f[i - 1])
  IN /\ \A j \in 1 .. WordBytes : b[o + j] = Word(Len(ps[i]))[j]
     /\ \A j \in 1 .. ByteCount(Len(ps[i])) :
          b[(o + WordBytes) + j] = PrefixBytes(ps[i])[j]

\* prefix_data is defined: it is the buffer that packing builds.
LEMMA BufferIsPacked ==
  ASSUME prefixes \in Seq(Spellings)
  PROVE  Packing(prefix_data, prefixes)
<1>. DEFINE n == Len(prefixes)
            Body(f) == [i \in 0 .. n |->
                          IF i = 0 THEN Word(n) ELSE PackOne(f[i - 1], prefixes[i])]
            g == [i \in 1 .. n |-> [data \in Seq(Nat) |-> PackOne(data, prefixes[i])]]
<1>1. n \in Nat /\ \A i \in 1 .. n : prefixes[i] \in Spellings
  BY LenProperties
<1>2. prefix_data = CHOOSE f : f = Body(f)
  BY Zenon DEF prefix_data, n
<1>. HIDE DEF n
<1>3. \A data \in Seq(Nat), p \in Spellings : PackOne(data, p) \in Seq(Nat)
  <2>. SUFFICES ASSUME NEW data \in Seq(Nat), NEW p \in Spellings
                PROVE  PackOne(data, p) \in Seq(Nat)
    OBVIOUS
  <2>. DEFINE filled == (data \o Word(Len(p))) \o PrefixBytes(p)
  <2>1. Word(Len(p)) \in Seq(Nat) /\ PrefixBytes(p) \in Seq(Nat)
    BY SpellingShape, WordForm, PrefixBytesForm
  <2>2. data \o Word(Len(p)) \in Seq(Nat)
    BY <2>1, ConcatProperties
  <2>3. filled \in Seq(Nat)
    BY <2>1, <2>2, ConcatProperties
  <2>4. PackOne(data, p) = filled \o Padding(filled)
    BY DEF PackOne
  <2>. HIDE DEF filled
  <2>5. Padding(filled) \in Seq(Nat)
    <3>. DEFINE d == (-Len(filled)) % WordBytes
    <3>1. Len(filled) \in Nat
      BY <2>3, LenProperties
    <3>2. d \in Nat
      BY <3>1, Sizes
    <3>3. Padding(filled) = [i \in 1 .. d |-> 0]
      BY DEF Padding
    <3>. HIDE DEF d
    <3>4. Padding(filled) \in [1 .. d -> Nat]
      BY <3>3
    <3>. QED  BY <3>2, <3>4, SeqDef
  <2>. QED  BY <2>3, <2>4, <2>5, ConcatProperties
<1>4. g \in [1 .. n -> [Seq(Nat) -> Seq(Nat)]]
  BY <1>1, <1>3
<1>5. Word(n) \in Seq(Nat)
  BY <1>1, WordForm
<1>6. \A i \in 1 .. n, data \in Seq(Nat) : g[i][data] = PackOne(data, prefixes[i])
  OBVIOUS
<1>. HIDE DEF g
<1>7. PICK f \in [0 .. n -> Seq(Nat)] :
             f[0] = Word(n) /\ \A k \in 1 .. n : f[k] = g[k][f[k - 1]]
  <2>1. \E f : Iterates(f, n, Seq(Nat), Word(n), g)
    BY <1>1, <1>4, <1>5, IterationExists
  <2>. QED  BY <2>1, Zenon DEF Iterates
<1>8. \A k \in 1 .. n : k - 1 \in 0 .. n /\ f[k - 1] \in Seq(Nat)
  BY <1>1, <1>7
<1>9. \A k \in 1 .. n : f[k] = PackOne(f[k - 1], prefixes[k])
  BY <1>6, <1>7, <1>8
<1>10. f = Body(f)
  <2>1. \A k \in 0 .. n : k # 0 => k \in 1 .. n
    BY <1>1
  <2>2. \A k \in 0 .. n : f[k] = Body(f)[k]
    BY <1>7, <1>9, <2>1
  <2>. QED  BY <1>7, <2>2
<1>11. prefix_data = Body(prefix_data)
  BY <1>2, <1>10, Zenon
<1>. DEFINE b == prefix_data
<1>12. b[0] = Word(n) /\ \A k \in 1 .. n : b[k] = PackOne(b[k - 1], prefixes[k])
  <2>. HIDE DEF b
  <2>1. b = Body(b)
    BY <1>11 DEF b
  <2>2. 0 \in 0 .. n /\ \A k \in 1 .. n : k \in 0 .. n /\ k # 0
    BY <1>1
  <2>. QED  BY <2>1, <2>2
<1>13. b = [k \in 0 .. n |-> b[k]]
  <2>. HIDE DEF b
  <2>1. b = Body(b)
    BY <1>11 DEF b
  <2>. QED  BY <2>1
<1>. HIDE DEF b
<1>14. \A k \in 0 .. n : b[k] \in Seq(Nat)
  <2>. DEFINE T == {k \in 0 .. n : b[k] \in Seq(Nat)}
  <2>1. 0 \in T
    BY <1>1, <1>5, <1>12
  <2>2. ASSUME NEW k \in 1 .. n, k - 1 \in T PROVE k \in T
    <3>1. k \in 0 .. n /\ b[k - 1] \in Seq(Nat)
      BY <1>1, <2>2
    <3>. QED  BY <1>1, <1>3, <1>12, <3>1
  <2>. HIDE DEF T
  <2>3. \A k \in 0 .. n : k \in T
    BY <1>1, <2>1, <2>2, UpTo, Zenon
  <2>. QED  BY <2>3 DEF T
<1>15. b \in [0 .. n -> Seq(Nat)]
  BY <1>13, <1>14
<1>. QED  BY <1>12, <1>15, Zenon DEF Packing, n, b

\* Every step of the packing starts and ends on a word, adds the entry of its
\* prefix, and leaves the bytes before it alone.
LEMMA PackingStep ==
  ASSUME NEW ps \in Seq(Spellings), NEW f, Packing(f, ps)
  PROVE  /\ \A i \in 0 .. Len(ps) : f[i] \in Seq(Nat) /\ Len(f[i]) \in Nat
         /\ Len(f[0]) = WordBytes
         /\ \A i \in 1 .. Len(ps) :
              /\ Len(f[i]) = (Len(f[i - 1]) + WordBytes) + Padded(ByteCount(Len(ps[i])))
              /\ (Len(f[i - 1]) + WordBytes) + ByteCount(Len(ps[i])) <= Len(f[i])
              /\ ByteCount(Len(ps[i])) \in Nat
              /\ \A j \in 1 .. Len(f[i - 1]) : f[i][j] = f[i - 1][j]
              /\ Entry(f[i], f, ps, i)
<1>. DEFINE n == Len(ps)
<1>1. n \in Nat /\ \A i \in 1 .. n : ps[i] \in Spellings
  BY LenProperties
<1>2. /\ f \in [0 .. n -> Seq(Nat)] /\ f[0] = Word(n)
      /\ \A i \in 1 .. n : f[i] = PackOne(f[i - 1], ps[i])
  BY Zenon DEF Packing
<1>. HIDE DEF n
<1>3. \A i \in 0 .. n : f[i] \in Seq(Nat) /\ Len(f[i]) \in Nat
  BY <1>2, LenProperties
<1>4. Len(f[0]) = WordBytes
  BY <1>1, <1>2, WordForm
<1>5. \A i \in 1 .. n : i - 1 \in 0 .. n /\ i \in 0 .. n
  BY <1>1
<1>6. \A i \in 0 .. n : Len(f[i]) % WordBytes = 0
  <2>. DEFINE T == {i \in 0 .. n : Len(f[i]) % WordBytes = 0}
  <2>1. 0 \in T
    <3>1. WordBytes % WordBytes = 0
      <4>1. WordBytes = 0 + 1 * WordBytes /\ 0 \in 0 .. WordBytes - 1
        BY Sizes
      <4>. QED  BY <4>1, Sizes, QuotientUnique
    <3>. QED  BY <1>1, <1>4, <3>1
  <2>2. ASSUME NEW i \in 1 .. n, i - 1 \in T PROVE i \in T
    <3>1. f[i - 1] \in Seq(Nat) /\ ps[i] \in Spellings /\ Len(f[i - 1]) % WordBytes = 0
      BY <1>1, <1>3, <1>5, <2>2
    <3>2. Len(PackOne(f[i - 1], ps[i])) % WordBytes = 0
      BY <3>1, PackOneForm, Zenon
    <3>. QED  BY <1>2, <1>5, <3>2
  <2>. HIDE DEF T
  <2>3. \A i \in 0 .. n : i \in T
    BY <1>1, <2>1, <2>2, UpTo, Zenon
  <2>. QED  BY <2>3 DEF T
<1>7. ASSUME NEW i \in 1 .. n
      PROVE  /\ Len(f[i]) = (Len(f[i - 1]) + WordBytes) + Padded(ByteCount(Len(ps[i])))
             /\ (Len(f[i - 1]) + WordBytes) + ByteCount(Len(ps[i])) <= Len(f[i])
             /\ ByteCount(Len(ps[i])) \in Nat
             /\ \A j \in 1 .. Len(f[i - 1]) : f[i][j] = f[i - 1][j]
             /\ Entry(f[i], f, ps, i)
  <2>1. f[i - 1] \in Seq(Nat) /\ ps[i] \in Spellings /\ Len(f[i - 1]) % WordBytes = 0
    BY <1>1, <1>3, <1>5, <1>6
  <2>2. f[i] = PackOne(f[i - 1], ps[i])
    BY <1>2
  <2>3. ByteCount(Len(ps[i])) \in Nat
    BY <2>1, PrefixBytesForm, LenProperties
  <2>. DEFINE data == f[i - 1]  p == ps[i]  new == PackOne(data, p)
  <2>4. /\ Len(new) = (Len(data) + WordBytes) + Padded(ByteCount(Len(p)))
        /\ (Len(data) + WordBytes) + ByteCount(Len(p)) <= Len(new)
        /\ \A j \in 1 .. Len(data) : new[j] = data[j]
        /\ \A j \in 1 .. WordBytes : new[Len(data) + j] = Word(Len(p))[j]
        /\ \A j \in 1 .. ByteCount(Len(p)) :
             new[(Len(data) + WordBytes) + j] = PrefixBytes(p)[j]
    <3>1. data \in Seq(Nat) /\ p \in Spellings /\ Len(data) % WordBytes = 0
      BY <2>1
    <3>. HIDE DEF data, p
    <3>. QED  BY <3>1, PackOneForm, Zenon
  <2>5. f[i] = new
    BY <2>2
  <2>. HIDE DEF new
  <2>. QED  BY <2>3, <2>4, <2>5, Zenon DEF Entry, data, p
<1>. QED  BY <1>3, <1>4, <1>7 DEF n

\* The bytes of an entry are still there when all prefixes are packed.
LEMMA EntriesStay ==
  ASSUME NEW ps \in Seq(Spellings), NEW f, Packing(f, ps), NEW i \in 1 .. Len(ps)
  PROVE  Entry(f[Len(ps)], f, ps, i)
<1>. DEFINE n == Len(ps)  l == Len(f[i])
            T == {m \in 0 .. n : m >= i => l <= Len(f[m]) /\ \A j \in 1 .. l : f[m][j] = f[i][j]}
<1>1. n \in Nat /\ i \in 1 .. n
  BY LenProperties
<1>2. /\ \A k \in 0 .. n : f[k] \in Seq(Nat) /\ Len(f[k]) \in Nat
      /\ \A k \in 1 .. n :
           /\ (Len(f[k - 1]) + WordBytes) + ByteCount(Len(ps[k])) <= Len(f[k])
           /\ ByteCount(Len(ps[k])) \in Nat
           /\ \A j \in 1 .. Len(f[k - 1]) : f[k][j] = f[k - 1][j]
           /\ Entry(f[k], f, ps, k)
  BY PackingStep
<1>. HIDE DEF n
<1>3. 0 \in T
  BY <1>1
<1>4. ASSUME NEW k \in 1 .. n, k - 1 \in T PROVE k \in T
  <2>1. k \in 0 .. n /\ k - 1 \in 0 .. n
    BY <1>1
  <2>2. CASE k < i
    BY <1>1, <2>1, <2>2
  <2>3. CASE k = i
    BY <1>1, <1>2, <2>1, <2>3
  <2>4. CASE k > i
    <3>. HIDE DEF l
    <3>1. l <= Len(f[k - 1]) /\ \A j \in 1 .. l : f[k - 1][j] = f[i][j]
      BY <1>1, <1>4, <2>1, <2>4
    <3>2. Len(f[k - 1]) <= Len(f[k]) /\ l \in Nat /\ Len(f[k - 1]) \in Nat
          /\ Len(f[k]) \in Nat
      <4>. DEFINE u == Len(f[k - 1])  v == Len(f[k])  c == ByteCount(Len(ps[k]))
      <4>1. u \in Nat /\ v \in Nat /\ c \in Nat /\ (u + WordBytes) + c <= v
            /\ WordBytes \in Nat
        BY <1>2, <2>1, Sizes
      <4>2. l \in Nat
        <5>1. i \in 0 .. n
          BY <1>1
        <5>. QED  BY <1>2, <5>1 DEF l
      <4>. HIDE DEF u, v, c
      <4>3. u <= v
        BY <4>1
      <4>. QED  BY <4>1, <4>2, <4>3 DEF u, v
    <3>3. \A j \in 1 .. l : j \in 1 .. Len(f[k - 1])
      BY <3>1, <3>2
    <3>4. \A j \in 1 .. l : f[k][j] = f[i][j]
      BY <1>2, <3>1, <3>3
    <3>5. l <= Len(f[k])
      BY <3>1, <3>2
    <3>. QED  BY <2>1, <3>4, <3>5
  <2>. QED  BY <1>1, <2>1, <2>2, <2>3, <2>4
<1>. HIDE DEF T
<1>5. n \in T
  <2>1. \A k \in 0 .. n : k \in T
    BY <1>1, <1>3, <1>4, UpTo, Zenon
  <2>. QED  BY <1>1, <2>1
<1>6. \A j \in 1 .. l : f[n][j] = f[i][j]
  BY <1>1, <1>5 DEF T
<1>. DEFINE o == Len(f[i - 1])  c == ByteCount(Len(ps[i]))
<1>7. /\ o \in Nat /\ c \in Nat /\ (o + WordBytes) + c <= l /\ l \in Nat
      /\ WordBytes \in Nat /\ Entry(f[i], f, ps, i)
  <2>1. i - 1 \in 0 .. n /\ i \in 0 .. n
    BY <1>1
  <2>. QED  BY <1>1, <1>2, <2>1, Sizes
<1>8. /\ \A j \in 1 .. WordBytes : f[i][o + j] = Word(Len(ps[i]))[j]
      /\ \A j \in 1 .. c : f[i][(o + WordBytes) + j] = PrefixBytes(ps[i])[j]
  BY <1>7, Zenon DEF Entry
<1>. HIDE DEF o, c, l
<1>9. /\ \A j \in 1 .. WordBytes : o + j \in 1 .. l
      /\ \A j \in 1 .. c : (o + WordBytes) + j \in 1 .. l
  BY <1>7
<1>10. /\ \A j \in 1 .. WordBytes : f[n][o + j] = Word(Len(ps[i]))[j]
       /\ \A j \in 1 .. c : f[n][(o + WordBytes) + j] = PrefixBytes(ps[i])[j]
  BY <1>6, <1>8, <1>9
<1>. QED  BY <1>10, Zenon DEF Entry, o, c, n

-----------------------------------------------------------------------------
(***************************************************************************)
(* 5. The kernel's walk.                                                   *)
(***************************************************************************)
\* The kernel reads the length of an entry, and tests the prefix it was packed
\* from.
LEMMA EntryIsPrefix ==
  ASSUME prefixes \in Seq(Spellings), NEW f, Packing(f, prefixes),
         packed = f[Len(prefixes)], NEW i \in 1 .. Len(prefixes)
  PROVE  /\ ReadWord(Len(f[i - 1])) = Len(prefixes[i])
         /\ \A k \in Keys : check_prefix(k, Len(f[i - 1]) + WordBytes, Len(prefixes[i]))
                              <=> MatcherMatches(prefixes[i], k)
<1>. DEFINE p == prefixes[i]  n == Len(p)  h == n \div 2  o == Len(f[i - 1])
            c == ByteCount(n)
<1>1. p \in Spellings
  BY LenProperties
<1>2. o \in Nat
  <2>1. i - 1 \in 0 .. Len(prefixes)
    BY LenProperties
  <2>. QED  BY <2>1, PackingStep
<1>3. /\ \A j \in 1 .. WordBytes : packed[o + j] = Word(n)[j]
      /\ \A j \in 1 .. c : packed[(o + WordBytes) + j] = PrefixBytes(p)[j]
  <2>1. Entry(f[Len(prefixes)], f, prefixes, i)
    BY EntriesStay
  <2>. QED  BY <2>1, Zenon DEF Entry
<1>. HIDE DEF p, o
<1>4. n \in Nat \ {0} /\ n <= 2 * KeyBytes - 2
  BY <1>1, SpellingShape
<1>5. n \in 0 .. Place[WordBytes] - 1
  BY <1>4, FormatAssumption, PlaceFunction, Sizes
<1>6. h \in Nat /\ n % 2 \in {0, 1} /\ n = 2 * h + (n % 2) /\ c = h + (n % 2)
  BY <1>4, Halves DEF ByteCount
<1>7. /\ \A j \in 1 .. h : PrefixBytes(p)[j] = FullBytes(p)[j]
      /\ n % 2 = 1 => /\ PrefixBytes(p)[h + 1] = Radix * TrailingNibble(p)
                      /\ TrailingNibble(p) \in 0 .. Radix - 1
  BY <1>1, PrefixBytesForm DEF HasTrailing
<1>8. DOMAIN FullBytes(p) = 1 .. h
  BY <1>1, FullBytesForm
<1>. HIDE DEF n, h, c
<1>9. ReadWord(o) = n
  BY <1>2, <1>3, <1>5, ReadsWord
<1>10. ASSUME NEW k \in Keys
       PROVE  check_prefix(k, o + WordBytes, n) <=> MatcherMatches(p, k)
  <2>. DEFINE w == o + WordBytes
  <2>1. w \in Nat
    BY <1>2, Sizes
  <2>2. check_prefix(k, w, n)
          <=> /\ \A j \in 0 .. h - 1 : k[j + 1] = At(w + j)
              /\ n % 2 = 1 => HighNibble(k[h + 1]) = HighNibble(At(w + h))
    BY DEF check_prefix, h
  <2>3. MatcherMatches(p, k)
          <=> /\ \A j \in 1 .. h : k[j] = FullBytes(p)[j]
              /\ n % 2 = 1 => k[h + 1] \div Radix = TrailingNibble(p)
    BY <1>8, Zenon DEF MatcherMatches, HasTrailing, n, h
  <2>4. \A j \in 1 .. c : packed[w + j] = PrefixBytes(p)[j]
    BY <1>3
  <2>. HIDE DEF w
  <2>5. \A j \in 0 .. c - 1 : At(w + j) = PrefixBytes(p)[j + 1]
    <3>. SUFFICES ASSUME NEW j \in 0 .. c - 1 PROVE At(w + j) = PrefixBytes(p)[j + 1]
      OBVIOUS
    <3>1. j + 1 \in 1 .. c /\ (w + j) + 1 = w + (j + 1)
      BY <1>6, <2>1
    <3>. QED  BY <2>4, <3>1 DEF At
  <2>6. \A j \in 0 .. h - 1 : At(w + j) = FullBytes(p)[j + 1]
    <3>. SUFFICES ASSUME NEW j \in 0 .. h - 1 PROVE At(w + j) = FullBytes(p)[j + 1]
      OBVIOUS
    <3>1. j \in 0 .. c - 1 /\ j + 1 \in 1 .. h
      BY <1>6
    <3>. QED  BY <1>7, <2>5, <3>1
  <2>7. (\A j \in 0 .. h - 1 : k[j + 1] = At(w + j))
          <=> \A j \in 1 .. h : k[j] = FullBytes(p)[j]
    <3>1. ASSUME \A j \in 0 .. h - 1 : k[j + 1] = At(w + j), NEW j \in 1 .. h
          PROVE  k[j] = FullBytes(p)[j]
      <4>1. j - 1 \in 0 .. h - 1 /\ (j - 1) + 1 = j
        BY <1>6
      <4>. QED  BY <2>6, <3>1, <4>1
    <3>2. ASSUME \A j \in 1 .. h : k[j] = FullBytes(p)[j], NEW j \in 0 .. h - 1
          PROVE  k[j + 1] = At(w + j)
      <4>1. j + 1 \in 1 .. h
        BY <1>6
      <4>. QED  BY <2>6, <3>2, <4>1
    <3>. QED  BY <3>1, <3>2
  <2>8. n % 2 = 1 => (HighNibble(k[h + 1]) = HighNibble(At(w + h))
                        <=> k[h + 1] \div Radix = TrailingNibble(p))
    <3>. SUFFICES ASSUME n % 2 = 1
                  PROVE  HighNibble(k[h + 1]) = HighNibble(At(w + h))
                           <=> k[h + 1] \div Radix = TrailingNibble(p)
      OBVIOUS
    <3>1. h \in 0 .. c - 1
      BY <1>6
    <3>2. At(w + h) = Radix * TrailingNibble(p)
      BY <1>7, <2>5, <3>1
    <3>3. h + 1 \in 1 .. KeyBytes
      BY <1>4, <1>6, Sizes
    <3>4. k[h + 1] \in 0 .. ByteMod - 1
      BY <3>3 DEF Keys
    <3>. QED  BY <1>7, <3>2, <3>4, SameHighNibble
  <2>9. check_prefix(k, w, n) <=> MatcherMatches(p, k)
    BY <2>2, <2>3, <2>7, <2>8
  <2>. QED  BY <2>9 DEF w
<1>. QED  BY <1>9, <1>10 DEF p, n, o

\* After i prefixes the walk stands where the packing stood.
LEMMA WalkFollowsPacking ==
  ASSUME prefixes \in Seq(Spellings), Len(prefixes) < Place[WordBytes],
         NEW f, Packing(f, prefixes), packed = f[Len(prefixes)]
  PROVE  /\ prefix_count = Len(prefixes)
         /\ \A i \in 0 .. Len(prefixes) : ptr[i] = Len(f[i])
<1>. DEFINE n == Len(prefixes)
            Skip(o) == (o + WordBytes) + Padded(ByteCount(ReadWord(o)))
            Body(q) == [i \in 0 .. n |-> IF i = 0 THEN WordBytes ELSE Skip(q[i - 1])]
            l == [i \in 0 .. n |-> Len(f[i])]
<1>1. n \in Nat
  BY LenProperties
<1>2. prefix_count = n
  <2>. DEFINE m == Place[WordBytes]
  <2>1. m \in Nat \ {0}
    BY PlaceFunction, Sizes
  <2>2. n \in 0 .. m - 1 /\ n = n + 0 * m /\ n \in Int /\ 0 \in Int
    BY <1>1, <2>1
  <2>3. prefix_count = n % m
    BY DEF prefix_count
  <2>. HIDE DEF m, n
  <2>4. n % m = n
    BY <2>1, <2>2, QuotientUnique
  <2>. QED  BY <2>3, <2>4
<1>3. ptr = CHOOSE q : q = Body(q)
  BY <1>2, Zenon DEF ptr
<1>4. Len(f[0]) = WordBytes
      /\ \A i \in 1 .. n : Len(f[i]) = (Len(f[i - 1]) + WordBytes) + Padded(ByteCount(Len(prefixes[i])))
  BY PackingStep
<1>5. \A i \in 1 .. n : ReadWord(Len(f[i - 1])) = Len(prefixes[i])
  BY EntryIsPrefix
<1>6. \A i \in 1 .. n : Len(f[i]) = Skip(Len(f[i - 1]))
  BY <1>4, <1>5, Zenon
<1>. HIDE DEF n, Skip
<1>7. l = Body(l)
  <2>1. \A i \in 0 .. n : i # 0 => i \in 1 .. n /\ i - 1 \in 0 .. n
    BY <1>1
  <2>2. \A i \in 0 .. n : l[i] = Body(l)[i]
    BY <1>4, <1>6, <2>1
  <2>. QED  BY <2>2
<1>8. ptr = Body(ptr)
  BY <1>3, <1>7, Zenon
<1>. DEFINE q == ptr
<1>9. q[0] = WordBytes /\ \A i \in 1 .. n : q[i] = Skip(q[i - 1])
  <2>. HIDE DEF q
  <2>1. q = Body(q)
    BY <1>8 DEF q
  <2>2. 0 \in 0 .. n /\ \A i \in 1 .. n : i \in 0 .. n /\ i # 0
    BY <1>1
  <2>. QED  BY <2>1, <2>2
<1>. HIDE DEF q
<1>10. \A i \in 0 .. n : q[i] = Len(f[i])
  <2>. DEFINE T == {i \in 0 .. n : q[i] = Len(f[i])}
  <2>1. 0 \in T
    BY <1>1, <1>4, <1>9
  <2>2. ASSUME NEW i \in 1 .. n, i - 1 \in T PROVE i \in T
    <3>1. i \in 0 .. n /\ q[i - 1] = Len(f[i - 1])
      BY <1>1, <2>2
    <3>. QED  BY <1>6, <1>9, <3>1
  <2>. HIDE DEF T
  <2>3. \A i \in 0 .. n : i \in T
    BY <1>1, <2>1, <2>2, UpTo, Zenon
  <2>. QED  BY <2>3 DEF T
<1>. QED  BY <1>2, <1>10 DEF n, q

\* check_any_prefix tests the prefixes of the command line, all and no others.
LEMMA KernelTestsPrefixes ==
  ASSUME prefixes \in Seq(Spellings), Len(prefixes) < Place[WordBytes],
         NEW f, Packing(f, prefixes), packed = f[Len(prefixes)], NEW k \in Keys
  PROVE  check_any_prefix(k) <=> \E i \in DOMAIN prefixes : MatcherMatches(prefixes[i], k)
<1>. DEFINE n == Len(prefixes)
<1>1. n \in Nat /\ DOMAIN prefixes = 1 .. n
  BY LenProperties
<1>2. prefix_count = n /\ \A i \in 0 .. n : ptr[i] = Len(f[i])
  BY WalkFollowsPacking
<1>3. ASSUME NEW i \in 1 .. n
      PROVE  check_prefix(k, ptr[i - 1] + WordBytes, ReadWord(ptr[i - 1]))
               <=> MatcherMatches(prefixes[i], k)
  <2>1. ptr[i - 1] = Len(f[i - 1])
    <3>1. i - 1 \in 0 .. n
      BY <1>1
    <3>. QED  BY <1>2, <3>1
  <2>2. /\ ReadWord(Len(f[i - 1])) = Len(prefixes[i])
        /\ check_prefix(k, Len(f[i - 1]) + WordBytes, Len(prefixes[i]))
             <=> MatcherMatches(prefixes[i], k)
    BY EntryIsPrefix
  <2>. QED  BY <2>1, <2>2, Zenon
<1>. HIDE DEF n
<1>4. check_any_prefix(k)
        <=> \E i \in 1 .. n : check_prefix(k, ptr[i - 1] + WordBytes, ReadWord(ptr[i - 1]))
  BY <1>2, Zenon DEF check_any_prefix
<1>. QED  BY <1>1, <1>3, <1>4, Zenon

\* No prefix is long enough to reach the byte of the sign bit.
LEMMA SignIsBeyondPrefixes ==
  ASSUME NEW k \in Keys
  PROVE  /\ WithoutSign(k) \in Keys /\ WithoutSign(k)[1] = k[1]
         /\ \A p \in Spellings : MatcherMatches(p, WithoutSign(k)) <=> MatcherMatches(p, k)
<1>. DEFINE y == WithoutSign(k)  m == ByteMod \div 2  last == k[KeyBytes] % m
<1>1. k \in [1 .. KeyBytes -> 0 .. ByteMod - 1]
  BY DEF Keys
<1>2. ByteMod >= 4 /\ m \in Nat \ {0} /\ m <= ByteMod
  <2>1. 2 * 2 <= Radix * Radix
    <3>1. 2 * 2 <= Radix * 2 /\ 2 * Radix <= Radix * Radix
      BY Sizes, ProductGrows
    <3>. QED  BY <3>1, Sizes
  <2>. QED  BY <2>1, Sizes
<1>3. last \in 0 .. ByteMod - 1
  <2>1. k[KeyBytes] \in Int
    BY <1>1, Sizes
  <2>. DEFINE b == k[KeyBytes]
  <2>. HIDE DEF m, b
  <2>2. b % m \in 0 .. m - 1
    BY <1>2, <2>1 DEF b
  <2>. QED  BY <1>2, <2>2, Sizes DEF b
<1>4. y = [k EXCEPT ![KeyBytes] = last]
  BY DEF WithoutSign
<1>. HIDE DEF last, m, y
<1>5. y \in [1 .. KeyBytes -> 0 .. ByteMod - 1]
  BY <1>1, <1>3, <1>4
<1>6. \A i \in 1 .. KeyBytes - 1 : y[i] = k[i]
  BY <1>1, <1>4, Sizes
<1>7. ASSUME NEW p \in Spellings
      PROVE  MatcherMatches(p, y) <=> MatcherMatches(p, k)
  <2>. DEFINE n == Len(p)  h == n \div 2
  <2>1. n \in Nat \ {0} /\ n <= 2 * KeyBytes - 2
    BY SpellingShape
  <2>2. h \in Nat /\ n % 2 \in {0, 1} /\ n = 2 * h + (n % 2)
    BY <2>1, Halves
  <2>3. DOMAIN FullBytes(p) = 1 .. h
    BY FullBytesForm
  <2>4. \A x : MatcherMatches(p, x)
          <=> /\ \A i \in 1 .. h : x[i] = FullBytes(p)[i]
              /\ n % 2 = 1 => x[h + 1] \div Radix = TrailingNibble(p)
    BY <2>3, Zenon DEF MatcherMatches, HasTrailing
  <2>. HIDE DEF n, h
  <2>5. \A i \in 1 .. h : i \in 1 .. KeyBytes - 1
    BY <2>1, <2>2, Sizes
  <2>6. n % 2 = 1 => h + 1 \in 1 .. KeyBytes - 1
    BY <2>1, <2>2, Sizes
  <2>7. \A i \in 1 .. h : y[i] = k[i]
    BY <1>6, <2>5
  <2>8. n % 2 = 1 => y[h + 1] = k[h + 1]
    BY <1>6, <2>6
  <2>. QED  BY <2>4, <2>7, <2>8
<1>8. y[1] = k[1]
  BY <1>6, Sizes
<1>. QED  BY <1>5, <1>7, <1>8 DEF y, Keys

-----------------------------------------------------------------------------
(***************************************************************************)
(* 6. How many keys start with a prefix.                                   *)
(***************************************************************************)
\* The powers of Radix.
LEMMA PowFunction ==
  /\ pow[0] = 1
  /\ \A j \in 1 .. 2 * KeyBytes : pow[j] = Radix * pow[j - 1]
  /\ \A j \in 0 .. 2 * KeyBytes : pow[j] \in Nat \ {0}
<1>1. 2 * KeyBytes \in Nat /\ Radix \in Nat /\ Radix \in Nat \ {0}
  BY Sizes
<1>2. pow = CHOOSE t : t = PowersBody(t, Radix, 2 * KeyBytes)
  BY DEF pow, PowersBody
<1>3. pow = PowersBody(pow, Radix, 2 * KeyBytes)
  BY <1>1, <1>2, PowersExist
<1>. QED  BY <1>1, <1>3, PowersFunction

\* The product of two powers.
LEMMA PowSum ==
  ASSUME NEW a \in Nat, NEW b \in Nat, a + b <= 2 * KeyBytes
  PROVE  pow[a + b] = pow[a] * pow[b]
<1>. DEFINE T == {j \in 0 .. a : pow[j + b] = pow[j] * pow[b]}
<1>1. 2 * KeyBytes \in Nat
  BY Sizes
<1>2. pow[b] \in Nat
  BY <1>1, PowFunction
<1>3. 0 \in T
  BY <1>2, PowFunction
<1>4. ASSUME NEW j \in 1 .. a, j - 1 \in T PROVE j \in T
  <2>1. /\ j \in 1 .. 2 * KeyBytes /\ j + b \in 1 .. 2 * KeyBytes
        /\ (j + b) - 1 = (j - 1) + b /\ j - 1 \in 0 .. 2 * KeyBytes
    BY <1>1
  <2>. DEFINE x == pow[j - 1]  y == pow[b]
  <2>2. pow[j] = Radix * x /\ pow[j + b] = Radix * pow[(j - 1) + b] /\ x \in Nat
    BY <2>1, PowFunction
  <2>3. pow[(j - 1) + b] = x * y
    BY <1>4
  <2>. HIDE DEF x, y
  <2>4. (Radix * x) * y = Radix * (x * y)
    BY <1>2, <2>2, Sizes, Regroup DEF y
  <2>5. pow[j + b] = pow[j] * y
    BY <2>2, <2>3, <2>4
  <2>. QED  BY <2>5 DEF y
<1>. HIDE DEF T
<1>5. a \in T
  <2>1. \A j \in 0 .. a : j \in T
    BY <1>3, <1>4, UpTo, Zenon
  <2>. QED  BY <2>1
<1>. QED  BY <1>5 DEF T

\* The sets F[i] have c elements each, and none in common.
Parts(F, I, c) ==
  /\ \A i \in I : IsFiniteSet(F[i]) /\ Cardinality(F[i]) = c
  /\ \A i \in I, j \in I : i # j => F[i] \cap F[j] = {}

Whole(F, I) == UNION {F[i] : i \in I}

\* A whole has the elements of its parts.
LEMMA SizeOfWhole ==
  ASSUME NEW n \in Nat, NEW I \in SUBSET (1 .. n), NEW F, NEW c \in Nat, Parts(F, I, c)
  PROVE  /\ IsFiniteSet(Whole(F, I)) /\ IsFiniteSet(I) /\ Cardinality(I) \in Nat
         /\ Cardinality(Whole(F, I)) = Cardinality(I) * c
<1>. DEFINE J(m) == {i \in I : i <= m}
            U(m) == Whole(F, J(m))
            Good(m) == /\ IsFiniteSet(U(m)) /\ IsFiniteSet(J(m))
                       /\ Cardinality(J(m)) \in Nat
                       /\ Cardinality(U(m)) = Cardinality(J(m)) * c
            T == {m \in 0 .. n : Good(m)}
<1>0. /\ \A i \in I : i \in 1 .. n /\ i \in Int
      /\ \A i \in I : IsFiniteSet(F[i]) /\ Cardinality(F[i]) = c
      /\ \A i \in I, j \in I : i # j => F[i] \cap F[j] = {}
  BY DEF Parts
<1>1. Good(0)
  <2>1. J(0) = {}
    <3>1. \A i \in I : ~(i <= 0)
      BY <1>0
    <3>. QED  BY <3>1, Zenon
  <2>2. U(0) = {}
    BY <2>1 DEF Whole
  <2>. HIDE DEF J, U
  <2>3. 0 * c = 0 /\ 0 \in Nat
    OBVIOUS
  <2>4. /\ IsFiniteSet(U(0)) /\ IsFiniteSet(J(0))
        /\ Cardinality(J(0)) = 0 /\ Cardinality(U(0)) = 0
    BY <2>1, <2>2, FS_EmptySet, Zenon
  <2>. QED  BY <2>3, <2>4, Zenon
<1>2. ASSUME NEW m \in 1 .. n, Good(m - 1) PROVE Good(m)
  <2>1. CASE m \notin I
    <3>1. J(m) = J(m - 1)
      <4>1. \A i \in I : i <= m <=> i <= m - 1
        BY <1>0, <2>1
      <4>. QED  BY <4>1, Zenon
    <3>. QED  BY <1>2, <3>1
  <2>2. CASE m \in I
    <3>1. J(m) = J(m - 1) \cup {m} /\ m \notin J(m - 1)
      <4>1. \A i \in I : i <= m <=> i <= m - 1 \/ i = m
        BY <1>0
      <4>2. ~(m <= m - 1)
        OBVIOUS
      <4>. QED  BY <2>2, <4>1, <4>2, Zenon
    <3>2. U(m) = U(m - 1) \cup F[m]
      BY <3>1 DEF Whole
    <3>3. U(m - 1) \cap F[m] = {}
      <4>1. \A i \in J(m - 1) : i \in I /\ i # m
        BY <3>1
      <4>. HIDE DEF J
      <4>. QED  BY <1>0, <2>2, <4>1 DEF Whole
    <3>4. IsFiniteSet(F[m]) /\ Cardinality(F[m]) = c
      BY <1>0, <2>2
    <3>. HIDE DEF J, U
    <3>5. /\ IsFiniteSet(J(m)) /\ Cardinality(J(m)) = Cardinality(J(m - 1)) + 1
      BY <1>2, <3>1, FS_AddElement
    <3>6. IsFiniteSet(U(m)) /\ Cardinality(U(m)) = Cardinality(U(m - 1)) + c
      <4>1. /\ IsFiniteSet(U(m))
            /\ Cardinality(U(m)) = Cardinality(U(m - 1)) + Cardinality(F[m])
                                     - Cardinality(U(m - 1) \cap F[m])
        <5>. DEFINE V == U(m - 1)
        <5>1. IsFiniteSet(V) /\ IsFiniteSet(F[m]) /\ U(m) = V \cup F[m]
          BY <1>2, <3>2, <3>4, Zenon
        <5>. HIDE DEF V
        <5>2. /\ IsFiniteSet(V \cup F[m])
              /\ Cardinality(V \cup F[m]) = Cardinality(V) + Cardinality(F[m])
                                              - Cardinality(V \cap F[m])
          BY <5>1, FS_Union
        <5>. QED  BY <5>1, <5>2, Zenon DEF V
      <4>2. Cardinality(U(m - 1) \cap F[m]) = 0
        BY <3>3, FS_EmptySet
      <4>3. Cardinality(U(m - 1)) \in Nat
        BY <1>2, FS_CardinalityType
      <4>. QED  BY <3>4, <4>1, <4>2, <4>3
    <3>. DEFINE x == Cardinality(J(m - 1))
    <3>7. x \in Nat /\ Cardinality(U(m - 1)) = x * c
      BY <1>2
    <3>8. (x + 1) * c = x * c + c
      BY <3>7, OneMore
    <3>9. Cardinality(J(m)) = x + 1
      BY <3>5
    <3>. HIDE DEF x
    <3>10. Cardinality(U(m)) = Cardinality(J(m)) * c /\ Cardinality(J(m)) \in Nat
      BY <3>6, <3>7, <3>8, <3>9
    <3>. QED  BY <3>5, <3>6, <3>10
  <2>. QED  BY <2>1, <2>2
<1>. HIDE DEF Good
<1>3. Good(n)
  <2>1. 0 \in T
    BY <1>1
  <2>2. \A m \in 1 .. n : m - 1 \in T => m \in T
    BY <1>2
  <2>. HIDE DEF T
  <2>3. \A m \in 0 .. n : m \in T
    BY <2>1, <2>2, UpTo, Zenon
  <2>. QED  BY <2>3 DEF T
<1>4. J(n) = I
  <2>1. \A i \in I : i <= n
    BY <1>0
  <2>. QED  BY <2>1, Zenon
<1>. QED  BY <1>3, <1>4 DEF Good

Digits(n) == [1 .. n -> 0 .. Radix - 1]

\* The keys that start with the first n of the digits p.
Class(n, p) == {k \in Keys : \A j \in 1 .. n : Digit(k, j) = p[j]}

\* A key that is spelled with the given digits.
LEMMA KeyOfDigits ==
  ASSUME NEW d \in [1 .. 2 * KeyBytes -> 0 .. Radix - 1]
  PROVE  \E k \in Keys : \A n \in 1 .. 2 * KeyBytes : Digit(k, n) = d[n]
<1>. DEFINE k == [i \in 1 .. KeyBytes |-> Radix * d[2 * i - 1] + d[2 * i]]
<1>1. ASSUME NEW i \in 1 .. KeyBytes
      PROVE  /\ k[i] \in 0 .. ByteMod - 1
             /\ Digit(k, 2 * i - 1) = d[2 * i - 1] /\ Digit(k, 2 * i) = d[2 * i]
  <2>1. i \in Nat \ {0} /\ 2 * i - 1 \in 1 .. 2 * KeyBytes /\ 2 * i \in 1 .. 2 * KeyBytes
    BY Sizes
  <2>2. k[i] = Radix * d[2 * i - 1] + d[2 * i]
    OBVIOUS
  <2>. HIDE DEF k
  <2>3. Digit(k, 2 * i - 1) = k[i] \div Radix /\ Digit(k, 2 * i) = k[i] % Radix
    BY <2>1, DigitsOfByte
  <2>4. d[2 * i - 1] \in 0 .. Radix - 1 /\ d[2 * i] \in 0 .. Radix - 1
    BY <2>1
  <2>5. /\ k[i] \in 0 .. ByteMod - 1
        /\ k[i] \div Radix = d[2 * i - 1] /\ k[i] % Radix = d[2 * i]
    BY <2>2, <2>4, ByteOfNibbles
  <2>. QED  BY <2>3, <2>5
<1>2. k \in Keys
  BY <1>1 DEF Keys
<1>. HIDE DEF k
<1>3. ASSUME NEW n \in 1 .. 2 * KeyBytes PROVE Digit(k, n) = d[n]
  <2>1. PICK i \in 1 .. KeyBytes : n = 2 * i - 1 \/ n = 2 * i
    <3>1. (n + 1) \div 2 \in 1 .. KeyBytes
          /\ (n = 2 * ((n + 1) \div 2) - 1 \/ n = 2 * ((n + 1) \div 2))
      BY Sizes
    <3>. QED  BY <3>1
  <2>. QED  BY <1>1, <2>1
<1>. QED  BY <1>2, <1>3

\* The digits of a key are digits.
LEMMA DigitType ==
  ASSUME NEW k \in Keys, NEW n \in 1 .. 2 * KeyBytes
  PROVE  Digit(k, n) \in 0 .. Radix - 1
<1>1. PICK i \in 1 .. KeyBytes : n = 2 * i - 1 \/ n = 2 * i
  <2>1. (n + 1) \div 2 \in 1 .. KeyBytes
        /\ (n = 2 * ((n + 1) \div 2) - 1 \/ n = 2 * ((n + 1) \div 2))
    BY Sizes
  <2>. QED  BY <2>1
<1>2. k[i] \in 0 .. ByteMod - 1 /\ i \in Nat \ {0}
  BY Sizes DEF Keys
<1>3. Digit(k, 2 * i - 1) = k[i] \div Radix /\ Digit(k, 2 * i) = k[i] % Radix
  BY <1>2, DigitsOfByte
<1>. QED  BY <1>1, <1>2, <1>3, NibblesOfByte

\* A key is determined by its digits.
LEMMA KeyIsItsDigits ==
  ASSUME NEW k \in Keys, NEW y \in Keys,
         \A n \in 1 .. 2 * KeyBytes : Digit(k, n) = Digit(y, n)
  PROVE  k = y
<1>1. ASSUME NEW i \in 1 .. KeyBytes PROVE k[i] = y[i]
  <2>1. 2 * i - 1 \in 1 .. 2 * KeyBytes /\ 2 * i \in 1 .. 2 * KeyBytes /\ i \in Nat \ {0}
    BY Sizes
  <2>2. k[i] \in 0 .. ByteMod - 1 /\ y[i] \in 0 .. ByteMod - 1
    BY DEF Keys
  <2>3. k[i] \div Radix = y[i] \div Radix /\ k[i] % Radix = y[i] % Radix
    BY <2>1, DigitsOfByte
  <2>4. /\ k[i] = Radix * (k[i] \div Radix) + (k[i] % Radix)
        /\ y[i] = Radix * (y[i] \div Radix) + (y[i] % Radix)
    BY <2>2, NibblesOfByte
  <2>. QED  BY <2>3, <2>4, Zenon
<1>2. k \in [1 .. KeyBytes -> 0 .. ByteMod - 1] /\ y \in [1 .. KeyBytes -> 0 .. ByteMod - 1]
  BY DEF Keys
<1>3. k = [i \in 1 .. KeyBytes |-> k[i]] /\ y = [i \in 1 .. KeyBytes |-> y[i]]
  BY <1>2
<1>. QED  BY <1>1, <1>3, Zenon

\* Each further digit divides the keys that are left into Radix equal parts.
LEMMA ClassSize ==
  ASSUME NEW n \in 0 .. 2 * KeyBytes, NEW p \in Digits(n)
  PROVE  IsFiniteSet(Class(n, p)) /\ Cardinality(Class(n, p)) = pow[2 * KeyBytes - n]
<1>. DEFINE D == 2 * KeyBytes
            Good(j) == \A q \in Digits(D - j) :
                         IsFiniteSet(Class(D - j, q)) /\ Cardinality(Class(D - j, q)) = pow[j]
            T == {j \in 0 .. D : Good(j)}
<1>1. D \in Nat /\ Radix \in Nat \ {0}
  BY Sizes
<1>2. Good(0)
  <2>. SUFFICES ASSUME NEW q \in Digits(D)
                PROVE  IsFiniteSet(Class(D, q)) /\ Cardinality(Class(D, q)) = 1
    BY <1>1, PowFunction
  <2>1. PICK k \in Keys : \A j \in 1 .. D : Digit(k, j) = q[j]
    BY KeyOfDigits DEF Digits
  <2>2. Class(D, q) = {k}
    <3>1. k \in Class(D, q)
      BY <2>1 DEF Class
    <3>2. ASSUME NEW y \in Class(D, q) PROVE y = k
      <4>1. y \in Keys /\ \A j \in 1 .. D : Digit(y, j) = Digit(k, j)
        BY <2>1, <3>2 DEF Class
      <4>. QED  BY <4>1, KeyIsItsDigits
    <3>. QED  BY <3>1, <3>2
  <2>. QED  BY <2>2, FS_Singleton
<1>3. ASSUME NEW j \in 1 .. D, Good(j - 1) PROVE Good(j)
  <2>. DEFINE m == D - j
  <2>1. m \in Nat /\ m + 1 \in 1 .. D /\ D - (j - 1) = m + 1 /\ m \in 0 .. D
    BY <1>1
  <2>. SUFFICES ASSUME NEW q \in Digits(m)
                PROVE  IsFiniteSet(Class(m, q)) /\ Cardinality(Class(m, q)) = pow[j]
    OBVIOUS
  <2>. DEFINE Next1(d) == [i \in 1 .. m + 1 |-> IF i = m + 1 THEN d - 1 ELSE q[i]]
              F == [d \in 1 .. Radix |-> Class(m + 1, Next1(d))]
              c == pow[j - 1]
  <2>2. \A r \in Digits(m + 1) :
          IsFiniteSet(Class(m + 1, r)) /\ Cardinality(Class(m + 1, r)) = c
    BY <1>3, <2>1
  <2>. HIDE DEF m
  <2>3. \A d \in 1 .. Radix : Next1(d) \in Digits(m + 1)
    <3>1. \A i \in 1 .. m + 1 : i # m + 1 => i \in 1 .. m
      BY <2>1
    <3>2. \A d \in 1 .. Radix : d - 1 \in 0 .. Radix - 1
      BY <1>1
    <3>3. \A i \in 1 .. m : q[i] \in 0 .. Radix - 1
      BY DEF Digits
    <3>. QED  BY <3>1, <3>2, <3>3 DEF Digits
  <2>4. \A d \in 1 .. Radix, k \in Keys :
          k \in F[d] <=> k \in Class(m, q) /\ Digit(k, m + 1) = d - 1
    <3>. SUFFICES ASSUME NEW d \in 1 .. Radix, NEW k \in Keys
                  PROVE  k \in F[d] <=> k \in Class(m, q) /\ Digit(k, m + 1) = d - 1
      OBVIOUS
    <3>1. F[d] = Class(m + 1, Next1(d))
      OBVIOUS
    <3>2. /\ \A i \in 1 .. m : i \in 1 .. m + 1 /\ Next1(d)[i] = q[i]
          /\ m + 1 \in 1 .. m + 1 /\ Next1(d)[m + 1] = d - 1
          /\ \A i \in 1 .. m + 1 : i = m + 1 \/ i \in 1 .. m
      BY <2>1
    <3>. HIDE DEF F, Next1
    <3>3. k \in F[d] <=> \A i \in 1 .. m + 1 : Digit(k, i) = Next1(d)[i]
      BY <3>1 DEF Class
    <3>4. k \in Class(m, q) <=> \A i \in 1 .. m : Digit(k, i) = q[i]
      BY DEF Class
    <3>. QED  BY <3>2, <3>3, <3>4
  <2>5. \A d \in 1 .. Radix : F[d] \subseteq Keys
    BY DEF Class
  <2>6. \A d \in 1 .. Radix : IsFiniteSet(F[d]) /\ Cardinality(F[d]) = c
    BY <2>2, <2>3
  <2>7. j - 1 \in 0 .. D /\ c \in Nat /\ pow[j] = Radix * c
    BY <1>1, PowFunction
  <2>. HIDE DEF F, c
  <2>8. \A d \in 1 .. Radix, e \in 1 .. Radix : d # e => F[d] \cap F[e] = {}
    <3>. SUFFICES ASSUME NEW d \in 1 .. Radix, NEW e \in 1 .. Radix, NEW k \in F[d], k \in F[e]
                  PROVE  d = e
      OBVIOUS
    <3>1. k \in Keys
      BY <2>5
    <3>2. Digit(k, m + 1) = d - 1 /\ Digit(k, m + 1) = e - 1
      BY <2>4, <3>1
    <3>. QED  BY <3>2
  <2>9. Whole(F, 1 .. Radix) = Class(m, q)
    <3>1. ASSUME NEW d \in 1 .. Radix, NEW k \in F[d] PROVE k \in Class(m, q)
      BY <2>4, <2>5
    <3>2. ASSUME NEW k \in Class(m, q) PROVE \E d \in 1 .. Radix : k \in F[d]
      <4>. DEFINE d == Digit(k, m + 1) + 1
      <4>1. k \in Keys
        BY DEF Class
      <4>2. Digit(k, m + 1) \in 0 .. Radix - 1
        BY <2>1, <4>1, DigitType
      <4>3. d \in 1 .. Radix /\ Digit(k, m + 1) = d - 1
        BY <1>1, <4>2
      <4>. HIDE DEF d
      <4>4. k \in F[d]
        BY <2>4, <3>2, <4>1, <4>3
      <4>. QED  BY <4>3, <4>4
    <3>. QED  BY <3>1, <3>2 DEF Whole
  <2>10. Cardinality(1 .. Radix) = Radix
    <3>1. 1 \in Int /\ Radix \in Int /\ ~(1 > Radix) /\ Radix - 1 + 1 = Radix
      BY Sizes
    <3>. QED  BY <3>1, FS_Interval
  <2>. DEFINE I == 1 .. Radix  V == Whole(F, I)
  <2>11. I \in SUBSET (1 .. Radix) /\ Radix \in Nat
    BY <1>1
  <2>12. IsFiniteSet(V) /\ Cardinality(V) = Cardinality(I) * c
    <3>1. Parts(F, I, c)
      BY <2>6, <2>8 DEF Parts
    <3>2. c \in Nat
      BY <2>7
    <3>. HIDE DEF I
    <3>. QED  BY <2>11, <3>1, <3>2, SizeOfWhole
  <2>. QED  BY <2>7, <2>9, <2>10, <2>12
<1>. HIDE DEF Good
<1>4. \A j \in 0 .. D : Good(j)
  <2>1. 0 \in T
    BY <1>1, <1>2
  <2>2. \A j \in 1 .. D : j - 1 \in T => j \in T
    BY <1>1, <1>3
  <2>. HIDE DEF T, D
  <2>3. \A j \in 0 .. D : j \in T
    BY <1>1, <2>1, <2>2, UpTo, Zenon
  <2>. QED  BY <2>3 DEF T
<1>5. D - n \in 0 .. D /\ D - (D - n) = n
  BY <1>1
<1>6. Good(D - n)
  BY <1>4, <1>5
<1>. HIDE DEF D
<1>. QED  BY <1>5, <1>6 DEF Good, D

\* There are as many keys as strings of digits.
LEMMA NumberOfKeys == IsFiniteSet(Keys) /\ Cardinality(Keys) = pow[2 * KeyBytes]
<1>. DEFINE e == [j \in 1 .. 0 |-> 0]
<1>1. e \in Digits(0) /\ 0 \in 0 .. 2 * KeyBytes /\ 2 * KeyBytes - 0 = 2 * KeyBytes
  BY Sizes DEF Digits
<1>. HIDE DEF e
<1>2. Class(0, e) = Keys
  BY DEF Class
<1>. QED  BY <1>1, <1>2, ClassSize

\* A larger divisor makes a smaller quotient.
LEMMA QuotientShrinks ==
  ASSUME NEW a \in Nat, NEW b \in Nat \ {0}, NEW d \in Nat \ {0}, b <= d
  PROVE  a \div d <= a \div b /\ a \div d \in Int /\ a \div b \in Int
<1>. DEFINE q == a \div d  t == a \div b
<1>1. a = d * q + (a % d) /\ q \in Int /\ a % d \in 0 .. d - 1
  BY Quotient
<1>2. a = b * t + (a % b) /\ t \in Int /\ a % b \in 0 .. b - 1
  BY Quotient
<1>. DEFINE r == a % d  u == a % b
<1>. HIDE DEF q, t, r, u
<1>3. q >= 0
  <2>1. CASE q <= -1
    <3>1. q * d <= (-1) * d /\ (-1) * d = -d /\ q * d = d * q
      BY <1>1, <2>1, ProductGrows, Regroup
    <3>. QED  BY <1>1, <3>1 DEF r
  <2>. QED  BY <1>1, <2>1
<1>4. b * q <= d * q /\ b * q \in Int /\ d * q \in Int
  BY <1>1, <1>3, ProductGrows
<1>5. q <= t
  <2>1. CASE t + 1 <= q
    <3>1. (t + 1) * b <= q * b /\ (t + 1) * b = t * b + b /\ t * b = b * t /\ q * b = b * q
          /\ t * b \in Int
      BY <1>1, <1>2, <2>1, ProductGrows, OneMore, Regroup
    <3>. QED  BY <1>1, <1>2, <1>4, <3>1 DEF r, u
  <2>. QED  BY <1>1, <1>2, <2>1
<1>. QED  BY <1>1, <1>2, <1>5 DEF q, t

\* A common factor makes no difference to a quotient.
LEMMA QuotientOfProducts ==
  ASSUME NEW a \in Nat, NEW m \in Nat \ {0}, NEW c \in Nat \ {0}
  PROVE  (a * c) \div (m * c) = a \div m
<1>. DEFINE q == a \div m  r == a % m
<1>1. a = m * q + r /\ q \in Int /\ r \in 0 .. m - 1
  BY Quotient
<1>. HIDE DEF q, r
<1>. DEFINE x == m * q
<1>2. x \in Int /\ x * c = q * (m * c) /\ m * c \in Nat \ {0} /\ q * (m * c) \in Int
  BY <1>1
<1>3. a * c = x * c + r * c /\ x * c \in Int /\ r * c \in Int
  <2>1. a = x + r /\ x \in Int /\ r \in Int
    BY <1>1, <1>2
  <2>. HIDE DEF x
  <2>. QED  BY <2>1, Distribute
<1>4. 0 * c <= r * c /\ r * c <= (m - 1) * c /\ 0 * c = 0 /\ (m - 1) * c = m * c - c
  BY <1>1, ProductGrows
<1>. DEFINE b == a * c  d == m * c  e == r * c
<1>5. e \in 0 .. d - 1 /\ d \in Nat \ {0} /\ b \in Int
  <2>1. d \in Nat \ {0} /\ e \in Int /\ 0 <= e /\ e <= d - c /\ b \in Int
    BY <1>2, <1>3, <1>4
  <2>. HIDE DEF b, d, e
  <2>. QED  BY <2>1
<1>6. b = e + q * d
  <2>. DEFINE y == x * c
  <2>1. b = y + e /\ y = q * d /\ y \in Int /\ e \in Int
    BY <1>2, <1>3
  <2>. HIDE DEF b, d, e, y
  <2>. QED  BY <2>1
<1>. HIDE DEF b, d, e
<1>7. b \div d = q
  BY <1>1, <1>5, <1>6, QuotientUnique, Zenon
<1>. QED  BY <1>7 DEF b, d, q

\* The positions of the shortest prefixes.
Shortest == {i \in DOMAIN prefixes : Len(prefixes[i]) = MinLen}

\* Some prefix is a shortest one.
LEMMA ShortestForm ==
  ASSUME prefixes \in Seq(Spellings), Len(prefixes) # 0
  PROVE  /\ MinLen \in Nat \ {0} /\ MinLen <= 2 * KeyBytes - 2
         /\ Shortest \in SUBSET (1 .. Len(prefixes)) /\ Shortest # {}
         /\ \A i \in Shortest : prefixes[i] \in Spellings /\ prefixes[i] \in Digits(MinLen)
<1>. DEFINE L == {Len(prefixes[i]) : i \in DOMAIN prefixes}
<1>1. /\ Len(prefixes) \in Nat /\ DOMAIN prefixes = 1 .. Len(prefixes)
      /\ \A i \in DOMAIN prefixes : prefixes[i] \in Spellings
  BY LenProperties
<1>2. L \in SUBSET Nat /\ L # {}
  <2>1. 1 \in DOMAIN prefixes
    BY <1>1
  <2>. QED  BY <1>1, <2>1, SpellingShape
<1>3. MinLen \in L
  <2>. HIDE DEF L
  <2>1. Min(L) \in L
    BY <1>2, MinInSet
  <2>. QED  BY <2>1 DEF MinLen, L
<1>4. PICK i \in DOMAIN prefixes : MinLen = Len(prefixes[i])
  BY <1>3
<1>. HIDE DEF L
<1>5. MinLen \in Nat \ {0} /\ MinLen <= 2 * KeyBytes - 2
  BY <1>1, <1>4, SpellingShape
<1>6. i \in Shortest
  BY <1>4 DEF Shortest
<1>7. ASSUME NEW j \in Shortest PROVE prefixes[j] \in Spellings /\ prefixes[j] \in Digits(MinLen)
  <2>. DEFINE p == prefixes[j]
  <2>1. p \in Spellings /\ Len(p) = MinLen
    BY <1>1 DEF Shortest
  <2>. HIDE DEF p
  <2>2. p \in Seq(Nat) /\ \A n \in 1 .. Len(p) : p[n] \in 0 .. Radix - 1
    BY <2>1, SpellingShape
  <2>3. p \in [1 .. Len(p) -> Nat]
    BY <2>2, LenProperties
  <2>4. p \in Digits(MinLen)
    BY <2>1, <2>2, <2>3 DEF Digits
  <2>. QED  BY <2>1, <2>4 DEF p
<1>8. Shortest \in SUBSET (1 .. Len(prefixes))
  BY <1>1 DEF Shortest
<1>. QED  BY <1>5, <1>6, <1>7, <1>8

\* What a CPU worker accepts.
Accepted == {k \in Keys : CpuAccepts(k)}

\* The prefixes that are one nibble of a reserved byte.
HalfReserved == {<<0>>, <<Radix - 1>>}

\* No key that starts with another prefix is skipped.
LEMMA NoneIsSkipped ==
  ASSUME NEW p \in Spellings, p \notin HalfReserved,
         NEW k \in Keys, SpellsPrefix(p, k)
  PROVE  ~should_skip(k)
<1>1. /\ p \in Seq(Nat) /\ Len(p) \in Nat \ {0} /\ DOMAIN p = 1 .. Len(p)
  BY SpellingShape
<1>2. 1 \in DOMAIN p /\ Digit(k, 1) = p[1]
  BY <1>1 DEF SpellsPrefix
<1>3. CASE Len(p) = 1
  <2>1. p = <<p[1]>>
    BY <1>1, <1>3
  <2>2. p[1] # 0 /\ p[1] # Radix - 1
    BY <2>1, Zenon DEF HalfReserved
  <2>. QED  BY <1>2, <2>2, SkipIsReserved
<1>4. CASE Len(p) >= 2
  <2>1. 2 \in DOMAIN p
    BY <1>1, <1>4
  <2>2. Digit(k, 2) = p[2]
    BY <2>1 DEF SpellsPrefix
  <2>3. ~StartsWith(p, 0) /\ ~StartsWith(p, Radix - 1)
    BY Zenon DEF Spellings, ValidPrefix
  <2>. QED  BY <1>2, <1>4, <2>2, <2>3, SkipIsReserved DEF StartsWith
<1>. QED  BY <1>1, <1>3, <1>4

\* The shortest prefixes account for as many accepted keys as there are of them
\* times the keys of one, and for all accepted keys when no prefix is longer.
LEMMA NumberAccepted ==
  ASSUME prefixes \in Seq(Spellings), Len(prefixes) # 0,
         \A i \in Shortest, j \in Shortest : prefixes[i] = prefixes[j] => i = j,
         \A i \in Shortest : prefixes[i] \notin HalfReserved
  PROVE  /\ Cardinality(Shortest) \in Nat \ {0} /\ Cardinality(Accepted) \in Nat
         /\ Cardinality(Accepted) >= Cardinality(Shortest) * pow[2 * KeyBytes - MinLen]
         /\ Cardinality(Shortest) = Len(prefixes)
              => Cardinality(Accepted) = Cardinality(Shortest) * pow[2 * KeyBytes - MinLen]
<1>. DEFINE L == MinLen  n == Len(prefixes)  c == pow[2 * KeyBytes - L]
            F == [i \in 1 .. n |-> Class(L, prefixes[i])]
            W == Whole(F, Shortest)
<1>1. /\ L \in Nat \ {0} /\ L <= 2 * KeyBytes - 2
      /\ Shortest \in SUBSET (1 .. n) /\ Shortest # {}
      /\ \A i \in Shortest : prefixes[i] \in Spellings /\ prefixes[i] \in Digits(L)
  BY ShortestForm
<1>2. /\ n \in Nat /\ DOMAIN prefixes = 1 .. n
      /\ \A i \in 1 .. n : prefixes[i] \in Spellings
  BY LenProperties
<1>3. L \in 0 .. 2 * KeyBytes /\ 2 * KeyBytes - L \in 0 .. 2 * KeyBytes /\ c \in Nat
  <2>1. L \in 0 .. 2 * KeyBytes /\ 2 * KeyBytes - L \in 0 .. 2 * KeyBytes
    BY <1>1, Sizes
  <2>. QED  BY <2>1, PowFunction
<1>4. \A i \in Shortest : i \in 1 .. n /\ F[i] = Class(L, prefixes[i]) /\ Len(prefixes[i]) = L
  BY <1>1 DEF Shortest
<1>5. \A i \in Shortest, k \in Keys : k \in F[i] <=> SpellsPrefix(prefixes[i], k)
  <2>. SUFFICES ASSUME NEW i \in Shortest, NEW k \in Keys
                PROVE  k \in F[i] <=> SpellsPrefix(prefixes[i], k)
    OBVIOUS
  <2>1. F[i] = Class(L, prefixes[i]) /\ DOMAIN prefixes[i] = 1 .. L
    BY <1>1, <1>4, SpellingShape
  <2>. HIDE DEF F, L
  <2>. QED  BY <2>1 DEF Class, SpellsPrefix
<1>. HIDE DEF n, c
<1>6. Parts(F, Shortest, c)
  <2>1. ASSUME NEW i \in Shortest PROVE IsFiniteSet(F[i]) /\ Cardinality(F[i]) = c
    <3>1. F[i] = Class(L, prefixes[i]) /\ prefixes[i] \in Digits(L)
      BY <1>1, <1>4
    <3>. HIDE DEF F, L
    <3>. QED  BY <1>3, <3>1, ClassSize DEF c
  <2>2. ASSUME NEW i \in Shortest, NEW j \in Shortest, NEW k \in F[i], k \in F[j]
        PROVE  i = j
    <3>1. k \in Keys
      BY <1>4 DEF Class
    <3>2. SpellsPrefix(prefixes[i], k) /\ SpellsPrefix(prefixes[j], k)
      BY <1>5, <2>2, <3>1
    <3>3. /\ prefixes[i] \in Seq(Nat) /\ prefixes[j] \in Seq(Nat)
          /\ Len(prefixes[i]) = L /\ Len(prefixes[j]) = L
          /\ DOMAIN prefixes[i] = 1 .. L /\ DOMAIN prefixes[j] = 1 .. L
      BY <1>1, <1>4, SpellingShape
    <3>4. \A x \in 1 .. L : prefixes[i][x] = prefixes[j][x]
      BY <3>2, <3>3, Zenon DEF SpellsPrefix
    <3>5. prefixes[i] = prefixes[j]
      BY <3>3, <3>4, SeqEqual
    <3>. QED  BY <3>5
  <2>3. \A i \in Shortest, j \in Shortest : i # j => F[i] \cap F[j] = {}
    <3>. HIDE DEF F
    <3>. QED  BY <2>2
  <2>. HIDE DEF F
  <2>. QED  BY <2>1, <2>3 DEF Parts
<1>. HIDE DEF F
<1>7. /\ IsFiniteSet(W) /\ IsFiniteSet(Shortest) /\ Cardinality(Shortest) \in Nat
      /\ Cardinality(W) = Cardinality(Shortest) * c
  <2>1. Shortest \in SUBSET (1 .. n)
    BY <1>1
  <2>. QED  BY <1>2, <1>3, <1>6, <2>1, SizeOfWhole
<1>8. Cardinality(Shortest) # 0
  BY <1>1, <1>7, FS_EmptySet
<1>9. IsFiniteSet(Accepted) /\ Cardinality(Accepted) \in Nat
  <2>1. Accepted \in SUBSET Keys
    BY DEF Accepted
  <2>2. IsFiniteSet(Accepted)
    BY <2>1, NumberOfKeys, FS_Subset
  <2>. QED  BY <2>2, FS_CardinalityType
<1>10. \A i \in Shortest : F[i] \subseteq Keys
  BY <1>4 DEF Class
<1>11. ASSUME NEW i \in Shortest, NEW k \in F[i] PROVE k \in Accepted
  <2>1. k \in Keys /\ SpellsPrefix(prefixes[i], k)
    BY <1>5, <1>10
  <2>2. prefixes[i] \in Spellings /\ i \in DOMAIN prefixes
    BY <1>1, <1>2
  <2>3. MatcherMatches(prefixes[i], k)
    BY <2>1, <2>2, MatcherIsSpelling
  <2>4. ~should_skip(k)
    BY <2>1, <2>2, NoneIsSkipped
  <2>. QED  BY <2>1, <2>2, <2>3, <2>4 DEF Accepted, CpuAccepts
<1>12. W \in SUBSET Accepted
  BY <1>11 DEF Whole
<1>13. Cardinality(W) <= Cardinality(Accepted)
  BY <1>9, <1>12, FS_Subset
<1>14. ASSUME Cardinality(Shortest) = n PROVE W = Accepted
  <2>1. Shortest = 1 .. n
    <3>1. IsFiniteSet(1 .. n) /\ Cardinality(1 .. n) = n
      <4>1. 1 \in Int /\ n \in Int
        BY <1>2
      <4>2. IsFiniteSet(1 .. n) /\ Cardinality(1 .. n) = IF 1 > n THEN 0 ELSE n - 1 + 1
        BY <4>1, FS_Interval
      <4>. QED  BY <1>2, <4>2
    <3>2. Shortest \in SUBSET (1 .. n)
      BY <1>1
    <3>. QED  BY <1>14, <3>1, <3>2, FS_Subset
  <2>2. ASSUME NEW k \in Accepted PROVE k \in W
    <3>1. PICK i \in DOMAIN prefixes : k \in Keys /\ MatcherMatches(prefixes[i], k)
      BY DEF Accepted, CpuAccepts
    <3>2. i \in Shortest /\ prefixes[i] \in Spellings
      BY <1>2, <2>1, <3>1
    <3>3. SpellsPrefix(prefixes[i], k)
      BY <3>1, <3>2, MatcherIsSpelling
    <3>4. k \in F[i]
      BY <1>5, <3>1, <3>2, <3>3
    <3>. QED  BY <3>2, <3>4 DEF Whole
  <2>. HIDE DEF W
  <2>. QED  BY <1>12, <2>2
<1>. HIDE DEF W
<1>. QED  BY <1>7, <1>8, <1>9, <1>13, <1>14 DEF c, n

\* The estimate is the mean number of candidates, or more.
LEMMA EstimateCovers ==
  ASSUME prefixes \in Seq(Spellings), Len(prefixes) # 0, pow[MinLen] < WordMod,
         \A i \in Shortest, j \in Shortest : prefixes[i] = prefixes[j] => i = j,
         \A i \in Shortest : prefixes[i] \notin HalfReserved,
         NEW mean, mean = Cardinality(Keys) \div Cardinality(Accepted)
  PROVE  /\ Estimate >= mean
         /\ Cardinality(Shortest) = Len(prefixes) => Estimate = mean
<1>. DEFINE D == 2 * KeyBytes  L == MinLen  a == pow[L]  c == pow[D - L]
            m == Cardinality(Shortest)  x == Cardinality(Accepted)
<1>1. L \in Nat \ {0} /\ L <= D - 2 /\ D \in Nat
  BY ShortestForm, Sizes
<1>2. L \in 0 .. D /\ D - L \in 0 .. D /\ D - L \in Nat /\ L + (D - L) = D
  BY <1>1
<1>3. a \in Nat \ {0} /\ c \in Nat \ {0} /\ a < WordMod /\ WordMod \in Nat \ {0}
  BY <1>2, PowFunction, FormatAssumption
<1>4. Cardinality(Keys) = a * c
  <2>. DEFINE b == D - L
  <2>1. L \in Nat /\ b \in Nat /\ L + b <= D /\ L + b = D
    BY <1>1, <1>2
  <2>. HIDE DEF L, b
  <2>2. pow[L + b] = pow[L] * pow[b]
    BY <2>1, PowSum
  <2>3. pow[D] = a * c
    BY <2>1, <2>2, Zenon DEF b
  <2>. QED  BY <2>3, NumberOfKeys, Zenon
<1>5. /\ m \in Nat \ {0} /\ x \in Nat /\ x >= m * c
      /\ m = Len(prefixes) => x = m * c
  BY NumberAccepted
<1>6. Estimate = (a % WordMod) \div m
  BY Zenon DEF Estimate, SameLenCount, Shortest
<1>. HIDE DEF D, L, a, c, m, x
<1>7. a % WordMod = a
  <2>1. a = a + 0 * WordMod /\ a \in 0 .. WordMod - 1 /\ 0 \in Int /\ a \in Int
    BY <1>3
  <2>. QED  BY <1>3, <2>1, QuotientUnique, Zenon
<1>8. Estimate = a \div m
  BY <1>6, <1>7, Zenon
<1>9. mean = (a * c) \div x
  BY <1>4 DEF x
<1>10. (a * c) \div (m * c) = a \div m
  BY <1>3, <1>5, QuotientOfProducts
<1>11. a * c \in Nat /\ m * c \in Nat \ {0} /\ x \in Nat \ {0}
  <2>1. a * c \in Nat /\ m * c \in Nat \ {0}
    BY <1>3, <1>5
  <2>. QED  BY <1>5, <2>1
<1>12. /\ (a * c) \div x <= (a * c) \div (m * c)
       /\ (a * c) \div x \in Int /\ (a * c) \div (m * c) \in Int
  <2>. DEFINE u == a * c  v == m * c
  <2>1. u \in Nat /\ v \in Nat \ {0} /\ x \in Nat \ {0} /\ v <= x
    BY <1>5, <1>11
  <2>. HIDE DEF u, v
  <2>2. u \div x <= u \div v /\ u \div x \in Int /\ u \div v \in Int
    BY <2>1, QuotientShrinks
  <2>. QED  BY <2>2, Zenon DEF u, v
<1>13. mean <= Estimate /\ mean \in Int /\ Estimate \in Int
  BY <1>8, <1>9, <1>10, <1>12, Zenon
<1>14. m = Len(prefixes) => Estimate = mean
  BY <1>5, <1>8, <1>9, <1>10, Zenon
<1>. QED  BY <1>13, <1>14 DEF m

-----------------------------------------------------------------------------
(***************************************************************************)
(* 7. The invariant and the theorems.                                      *)
(***************************************************************************)
\* What every reachable state satisfies: each prefix passed validation, with
\* the arguments still to come there is at least one and a word can count them,
\* the estimate is made of all of them, and a search runs on the buffer that
\* was packed from them.
PInv ==
  /\ prefixes \in Seq(Spellings) /\ args \in Seq(Seq(Nat))
  /\ Len(prefixes) + Len(args) \in 1 .. (Place[WordBytes] - 1)
  /\ key \in Keys
  /\ stage = "packing" => args = <<>> /\ expected = Estimate
  /\ stage = "searching" => packed = prefix_data[Len(prefixes)]

\* Upper-casing an argument leaves it a sequence of chars.
LEMMA UppercaseForm ==
  ASSUME NEW arg \in Seq(Nat)
  PROVE  Uppercase(arg) \in Seq(Nat)
<1>1. Len(arg) \in Nat /\ DOMAIN arg = 1 .. Len(arg) /\ \A i \in 1 .. Len(arg) : arg[i] \in Nat
  BY LenProperties
<1>2. \A x \in Nat : x % Radix \in Nat
  BY Sizes
<1>3. Uppercase(arg) = [i \in 1 .. Len(arg) |->
                          IF arg[i] < 2 * Radix THEN arg[i] % Radix ELSE arg[i]]
  BY <1>1 DEF Uppercase
<1>4. Uppercase(arg) \in [1 .. Len(arg) -> Nat]
  BY <1>1, <1>2, <1>3
<1>. QED  BY <1>1, <1>4, SeqDef

\* The buffer depends on the prefixes alone.
LEMMA BufferStays ==
  ASSUME prefixes' = prefixes
  PROVE  prefix_data' = prefix_data
BY DEF prefix_data

\* So does the estimate.
LEMMA EstimateStays ==
  ASSUME prefixes' = prefixes
  PROVE  Estimate' = Estimate
BY DEF Estimate, MinLen, SameLenCount

\* The invariant is inductive.
LEMMA PInvStep == PInv /\ [Next]_vars => PInv'
<1>. SUFFICES ASSUME PInv, [Next]_vars PROVE PInv'
  OBVIOUS
<1>1. /\ prefixes \in Seq(Spellings) /\ args \in Seq(Seq(Nat)) /\ key \in Keys
      /\ Len(prefixes) + Len(args) \in 1 .. (Place[WordBytes] - 1)
      /\ stage = "packing" => args = <<>> /\ expected = Estimate
      /\ stage = "searching" => packed = prefix_data[Len(prefixes)]
  BY Zenon DEF PInv
<1>2. ASSUME Accept PROVE PInv'
  <2>. DEFINE p == Uppercase(Head(args))
  <2>1. /\ args # <<>> /\ ValidPrefix(p) /\ prefixes' = Append(prefixes, p)
        /\ args' = Tail(args) /\ stage' = "validating" /\ key' = key
    BY <1>2 DEF Accept
  <2>2. /\ Head(args) \in Seq(Nat) /\ Tail(args) \in Seq(Seq(Nat))
        /\ Len(Tail(args)) = Len(args) - 1 /\ Len(args) \in Nat
    BY <1>1, <2>1, HeadTailProperties, LenProperties
  <2>3. p \in Spellings
    BY <2>1, <2>2, UppercaseForm DEF Spellings
  <2>. HIDE DEF p
  <2>4. prefixes' \in Seq(Spellings) /\ Len(prefixes') = Len(prefixes) + 1
        /\ Len(prefixes) \in Nat
    BY <1>1, <2>1, <2>3, AppendProperties, LenProperties
  <2>5. Len(prefixes') + Len(args') = Len(prefixes) + Len(args)
    BY <2>1, <2>2, <2>4
  <2>. QED  BY <1>1, <2>1, <2>2, <2>4, <2>5 DEF PInv
<1>3. ASSUME Reject PROVE PInv'
  BY <1>1, <1>3 DEF PInv, Reject
<1>4. ASSUME UNCHANGED <<args, prefixes>>
      PROVE  prefix_data' = prefix_data /\ Estimate' = Estimate
  BY <1>4, BufferStays, EstimateStays
<1>5. ASSUME Validated PROVE PInv'
  <2>1. /\ args = <<>> /\ expected' = Estimate /\ stage' = "packing"
        /\ UNCHANGED <<args, prefixes, key>>
    BY <1>5 DEF Validated
  <2>2. Estimate' = Estimate
    BY <1>4, <2>1
  <2>. QED  BY <1>1, <2>1, <2>2 DEF PInv
<1>6. ASSUME PackPrefixes PROVE PInv'
  <2>1. /\ packed' = prefix_data[Len(prefixes)] /\ stage' = "searching"
        /\ UNCHANGED <<args, prefixes, key>>
    BY <1>6 DEF PackPrefixes
  <2>2. prefix_data' = prefix_data
    BY <1>4, <2>1
  <2>. QED  BY <1>1, <2>1, <2>2 DEF PInv
<1>7. ASSUME key' \in Keys, UNCHANGED <<args, prefixes, stage, expected, packed>>
      PROVE  PInv'
  <2>1. prefix_data' = prefix_data /\ Estimate' = Estimate
    BY <1>4, <1>7
  <2>. QED  BY <1>1, <1>7, <2>1 DEF PInv
<1>8. ASSUME Candidate PROVE PInv'
  BY <1>7, <1>8 DEF Candidate
<1>9. ASSUME UNCHANGED vars PROVE PInv'
  BY <1>1, <1>7, <1>9 DEF vars
<1>. QED
  BY <1>2, <1>3, <1>5, <1>6, <1>8, <1>9 DEF Next, Terminated

\* Validated prefixes, their estimate and the buffer packed from them, in every
\* reachable state: what the four properties below rest on.
THEOREM PrefixInvariance == Spec => []PInv
<1>1. Init => PInv
  <2>. SUFFICES ASSUME Init PROVE PInv
    OBVIOUS
  <2>1. args \in Commands /\ prefixes = <<>> /\ stage = "validating" /\ key = NoKey
    BY DEF Init
  <2>2. args \in Seq(Seq(Nat)) /\ Len(args) \in 1 .. (Place[WordBytes] - 1)
    BY <2>1, FormatAssumption
  <2>3. prefixes \in Seq(Spellings) /\ Len(prefixes) = 0
    BY <2>1
  <2>4. key \in Keys
    <3>1. 0 \in 0 .. ByteMod - 1
      BY Sizes
    <3>. QED  BY <2>1, <3>1 DEF NoKey, Keys
  <2>5. Len(prefixes) + Len(args) \in 1 .. (Place[WordBytes] - 1)
    <3>1. Place[WordBytes] \in Nat
      BY PlaceFunction, Sizes
    <3>. QED  BY <2>2, <2>3, <3>1
  <2>. QED  BY <2>1, <2>2, <2>3, <2>4, <2>5 DEF PInv
<1>. QED  BY <1>1, PInvStep, PTL DEF Spec

\* The CPU matcher on the parsed prefixes, the kernel on its packed buffer and
\* signless key, and the hex digits of the key agree on every candidate.
THEOREM BothTestsAgree == Spec => []TestsAgree
<1>1. PInv => TestsAgree
  <2>. DEFINE reserved == \/ Digit(key, 1) = 0 /\ Digit(key, 2) = 0
                          \/ Digit(key, 1) = Radix - 1 /\ Digit(key, 2) = Radix - 1
              spelled == \E i \in DOMAIN prefixes : SpellsPrefix(prefixes[i], key)
              matched == \E i \in DOMAIN prefixes : MatcherMatches(prefixes[i], key)
  <2>. SUFFICES ASSUME PInv, stage = "searching"
                PROVE  /\ CpuAccepts(key) = (~reserved /\ spelled)
                       /\ KernelAccepts(key) = (~reserved /\ spelled)
    BY Zenon DEF TestsAgree
  <2>1. /\ prefixes \in Seq(Spellings) /\ args \in Seq(Seq(Nat)) /\ key \in Keys
        /\ Len(prefixes) + Len(args) \in 1 .. (Place[WordBytes] - 1)
        /\ packed = prefix_data[Len(prefixes)]
    BY Zenon DEF PInv
  <2>2. Len(prefixes) < Place[WordBytes] /\ \A i \in DOMAIN prefixes : prefixes[i] \in Spellings
    <3>1. /\ Len(prefixes) \in Nat /\ Len(args) \in Nat
          /\ \A i \in DOMAIN prefixes : prefixes[i] \in Spellings
      BY <2>1, LenProperties
    <3>2. Place[WordBytes] \in Nat
      BY PlaceFunction, Sizes
    <3>. QED  BY <2>1, <3>1, <3>2
  <2>3. matched <=> spelled
    BY <2>1, <2>2, MatcherIsSpelling
  <2>4. should_skip(key) <=> reserved
    BY <2>1, SkipIsReserved
  <2>5. CpuAccepts(key) = (~reserved /\ spelled)
    <3>. HIDE DEF spelled, reserved
    <3>1. CpuAccepts(key) <=> ~should_skip(key) /\ matched
      BY Zenon DEF CpuAccepts
    <3>2. CpuAccepts(key) \in BOOLEAN
      BY Zenon DEF CpuAccepts
    <3>3. (~reserved /\ spelled) \in BOOLEAN
      BY Zenon
    <3>. QED  BY <2>3, <2>4, <3>1, <3>2, <3>3, Zenon
  <2>6. KernelAccepts(key) = (~reserved /\ spelled)
    <3>. DEFINE y == WithoutSign(key)
    <3>1. y \in Keys /\ y[1] = key[1]
          /\ \A p \in Spellings : MatcherMatches(p, y) <=> MatcherMatches(p, key)
      BY <2>1, SignIsBeyondPrefixes
    <3>. HIDE DEF y
    <3>2. Packing(prefix_data, prefixes)
      BY <2>1, BufferIsPacked
    <3>3. check_any_prefix(y) <=> \E i \in DOMAIN prefixes : MatcherMatches(prefixes[i], y)
      BY <2>1, <2>2, <3>1, <3>2, KernelTestsPrefixes
    <3>4. check_any_prefix(y) <=> matched
      BY <2>2, <3>1, <3>3, Zenon
    <3>5. (y[1] # 0 /\ y[1] # ByteMod - 1) <=> ~should_skip(key)
      BY <3>1, Zenon DEF should_skip
    <3>. HIDE DEF spelled, reserved, matched
    <3>6. KernelAccepts(key) <=> y[1] # 0 /\ y[1] # ByteMod - 1 /\ check_any_prefix(y)
      BY Zenon DEF KernelAccepts, y
    <3>7. KernelAccepts(key) \in BOOLEAN
      BY Zenon DEF KernelAccepts
    <3>8. (~reserved /\ spelled) \in BOOLEAN
      BY Zenon
    <3>. QED  BY <2>3, <2>4, <3>4, <3>5, <3>6, <3>7, <3>8, Zenon
  <2>. QED  BY <2>5, <2>6
<1>. QED  BY <1>1, PrefixInvariance, PTL

\* The kernel's walk over the packed buffer ends where the buffer ends.
THEOREM WalkCoversBuffer == Spec => []WalkEndsAtBuffer
<1>1. PInv => WalkEndsAtBuffer
  <2>. SUFFICES ASSUME PInv, stage = "searching"
                PROVE  ptr[prefix_count] = Len(packed)
    BY DEF WalkEndsAtBuffer
  <2>1. /\ prefixes \in Seq(Spellings) /\ args \in Seq(Seq(Nat))
        /\ Len(prefixes) + Len(args) \in 1 .. (Place[WordBytes] - 1)
        /\ packed = prefix_data[Len(prefixes)]
    BY Zenon DEF PInv
  <2>2. Len(prefixes) \in Nat /\ Len(args) \in Nat /\ Place[WordBytes] \in Nat
    BY <2>1, LenProperties, PlaceFunction, Sizes
  <2>3. Len(prefixes) < Place[WordBytes] /\ Len(prefixes) \in 0 .. Len(prefixes)
    BY <2>1, <2>2
  <2>4. Packing(prefix_data, prefixes)
    BY <2>1, BufferIsPacked
  <2>5. /\ prefix_count = Len(prefixes)
        /\ \A i \in 0 .. Len(prefixes) : ptr[i] = Len(prefix_data[i])
    BY <2>1, <2>3, <2>4, WalkFollowsPacking
  <2>. QED  BY <2>1, <2>3, <2>5
<1>. QED  BY <1>1, PrefixInvariance, PTL

\* Some key that is not skipped starts with each prefix that passes validation.
THEOREM AcceptedIsFindable == Spec => []AcceptedCanBeFound
<1>1. ASSUME NEW p \in Spellings
      PROVE  \E k \in Keys : MatcherMatches(p, k) /\ ~should_skip(k)
  <2>. DEFINE second == IF p[1] = 0 THEN 1 ELSE 0
              d == [n \in 1 .. 2 * KeyBytes |->
                      IF n <= Len(p) THEN p[n] ELSE IF n = 2 THEN second ELSE 0]
  <2>1. /\ Len(p) \in Nat \ {0} /\ Len(p) <= 2 * KeyBytes - 2 /\ DOMAIN p = 1 .. Len(p)
        /\ \A i \in 1 .. Len(p) : p[i] \in 0 .. Radix - 1
    BY SpellingShape
  <2>2. 0 \in 0 .. Radix - 1 /\ second \in 0 .. Radix - 1
    BY Sizes
  <2>3. ~(p[1] = 0 /\ second = 0) /\ ~(p[1] = Radix - 1 /\ second = Radix - 1)
    BY Sizes
  <2>. HIDE DEF second
  <2>4. d \in [1 .. 2 * KeyBytes -> 0 .. Radix - 1]
    BY <2>1, <2>2
  <2>5. \A n \in 1 .. Len(p) : n \in 1 .. 2 * KeyBytes /\ d[n] = p[n]
    BY <2>1, Sizes
  <2>6. 1 \in 1 .. 2 * KeyBytes /\ 2 \in 1 .. 2 * KeyBytes /\ 1 \in 1 .. Len(p)
    BY <2>1, Sizes
  <2>7. d[1] = p[1]
    BY <2>5, <2>6
  <2>8. Len(p) = 1 => d[2] = second
    BY <2>6
  <2>9. ~(d[1] = 0 /\ d[2] = 0) /\ ~(d[1] = Radix - 1 /\ d[2] = Radix - 1)
    <3>1. CASE Len(p) = 1
      BY <2>3, <2>7, <2>8, <3>1
    <3>2. CASE Len(p) >= 2
      <4>1. ~StartsWith(p, 0) /\ ~StartsWith(p, Radix - 1)
        BY Zenon DEF Spellings, ValidPrefix
      <4>2. d[2] = p[2]
        BY <2>1, <2>5, <3>2
      <4>. QED  BY <2>7, <3>2, <4>1, <4>2 DEF StartsWith
    <3>. QED  BY <2>1, <3>1, <3>2
  <2>. HIDE DEF d
  <2>10. PICK k \in Keys : \A n \in 1 .. 2 * KeyBytes : Digit(k, n) = d[n]
    BY <2>4, KeyOfDigits
  <2>11. SpellsPrefix(p, k)
    BY <2>1, <2>5, <2>10 DEF SpellsPrefix
  <2>12. MatcherMatches(p, k)
    BY <2>11, MatcherIsSpelling
  <2>13. ~should_skip(k)
    <3>1. Digit(k, 1) = d[1] /\ Digit(k, 2) = d[2]
      BY <2>6, <2>10
    <3>. QED  BY <2>9, <3>1, SkipIsReserved
  <2>. QED  BY <2>12, <2>13
<1>2. PInv => AcceptedCanBeFound
  <2>. SUFFICES ASSUME PInv, NEW i \in DOMAIN prefixes
                PROVE  \E k \in Keys : MatcherMatches(prefixes[i], k) /\ ~should_skip(k)
    BY DEF AcceptedCanBeFound
  <2>1. prefixes \in Seq(Spellings)
    BY DEF PInv
  <2>2. prefixes[i] \in Spellings
    BY <2>1, LenProperties
  <2>. QED  BY <1>1, <2>2, Zenon
<1>. QED  BY <1>2, PrefixInvariance, PTL

\* The expected attempts are never below the mean number of candidates a search
\* takes, and are that mean when all prefixes have one length.
THEOREM EstimateIsMean == Spec => []EstimateIsRate
<1>1. PInv => EstimateIsRate
  <2>. DEFINE mean == Cardinality(Keys) \div Cardinality(Accepted)
              distinct == \A i, j \in Shortest : prefixes[i] = prefixes[j] => i = j
              unreserved == \A i \in Shortest : prefixes[i] \notin HalfReserved
  <2>1. ASSUME PInv, stage = "packing", pow[MinLen] < WordMod, distinct, unreserved
        PROVE  /\ expected >= mean
               /\ Cardinality(Shortest) = Len(prefixes) => expected = mean
    <3>1. /\ prefixes \in Seq(Spellings) /\ args = <<>> /\ expected = Estimate
          /\ Len(prefixes) + Len(args) \in 1 .. (Place[WordBytes] - 1)
      BY <2>1, Zenon DEF PInv
    <3>2. Len(prefixes) # 0
      BY <3>1, LenProperties
    <3>. HIDE DEF mean
    <3>3. /\ Estimate >= mean
          /\ Cardinality(Shortest) = Len(prefixes) => Estimate = mean
      BY <2>1, <3>1, <3>2, EstimateCovers DEF mean
    <3>. QED  BY <3>1, <3>3
  <2>. QED  BY <2>1, Zenon DEF EstimateIsRate, Shortest, Accepted, HalfReserved
<1>. QED  BY <1>1, PrefixInvariance, PTL
=============================================================================
