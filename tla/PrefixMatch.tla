---------------------------- MODULE PrefixMatch ----------------------------
(***************************************************************************)
(* From the prefixes on the command line to the test of one public key:    *)
(* validate_prefix and the estimate (src/src/main.rs), PrefixMatcher       *)
(* (src/src/search.rs), the packing of the prefixes for a GPU              *)
(* (src/src/gpu.rs, src/src/metal_gpu.rs) and the kernel's own test,       *)
(* check_any_prefix (src/cuda/vanity_kernel.cu).                           *)
(*                                                                         *)
(* The CPU matcher and the kernel test the same key by different code and  *)
(* from different data: parsed prefixes on one side, a packed byte buffer  *)
(* on the other, and the kernel's key lacks the sign bit.                  *)
(*                                                                         *)
(* Scaled down: a nibble has Radix values (16), a byte two nibbles, a key  *)
(* KeyBytes bytes (32), a u32 word WordBytes bytes (4), a u64 WordMod      *)
(* values.  The sign bit is the high bit of the last byte of a key.        *)
(***************************************************************************)
EXTENDS Integers, Sequences, FiniteSetsExt, Sums

CONSTANTS
  Radix,      \* values of a nibble (16), even
  KeyBytes,   \* bytes of a public key (32)
  WordBytes,  \* bytes of a u32 in the packed buffer, and its alignment (4)
  WordMod,    \* values of the u64 the estimate is computed in
  Commands    \* the command lines: sequences of arguments, each of chars

ByteMod == Radix * Radix

\* The weight of byte j of a word.
Place[j \in 0..WordBytes] == IF j = 0 THEN 1 ELSE ByteMod * Place[j - 1]

\* A word counts the nibbles of a prefix and the prefixes of a command line.
ASSUME FormatAssumption ==
  /\ Radix \in Nat \ {0} /\ Radix % 2 = 0
  /\ KeyBytes \in Nat /\ KeyBytes > 1 /\ WordBytes \in Nat \ {0}
  /\ WordMod \in Nat \ {0}
  /\ 2 * KeyBytes < Place[WordBytes]
  /\ \A c \in Commands : c \in Seq(Seq(Nat)) /\ Len(c) \in 1..(Place[WordBytes] - 1)

VARIABLES
  args,       \* the arguments not validated yet
  prefixes,   \* the validated prefixes, as nibbles
  stage,      \* "validating", "rejected", "packing", "searching"
  expected,   \* the expected attempts of the progress display
  packed,     \* prefix_data, what the GPU searchers upload
  key         \* the candidate under test

vars == <<args, prefixes, stage, expected, packed, key>>

Keys == [1..KeyBytes -> 0..(ByteMod - 1)]
NoKey == [i \in 1..KeyBytes |-> 0]

-----------------------------------------------------------------------------
(***************************************************************************)
(* validate_prefix.  A char below Radix is an upper-case hex digit, one    *)
(* below 2 * Radix the same digit in lower case, any other is no hex.      *)
(***************************************************************************)
MaxNibbles_WholeKey == 2 * KeyBytes
MaxNibbles == 2 * KeyBytes - 2

Uppercase(arg) == [i \in DOMAIN arg |->
                     IF arg[i] < 2 * Radix THEN arg[i] % Radix ELSE arg[i]]

StartsWith(p, nibble) == Len(p) >= 2 /\ p[1] = nibble /\ p[2] = nibble

ValidPrefix_AllowsFF(p) ==
  /\ Len(p) \in 1..MaxNibbles
  /\ \A i \in DOMAIN p : p[i] < Radix
  /\ ~StartsWith(p, 0)
ValidPrefix(p) ==
  /\ Len(p) \in 1..MaxNibbles
  /\ \A i \in DOMAIN p : p[i] < Radix
  /\ ~StartsWith(p, 0) /\ ~StartsWith(p, Radix - 1)

\* min_len and same_len_count: the shortest prefixes decide how long it takes.
MinLen == Min({Len(prefixes[i]) : i \in DOMAIN prefixes})

SameLenCount_All == Len(prefixes)
SameLenCount == Cardinality({i \in DOMAIN prefixes : Len(prefixes[i]) = MinLen})

\* 16u64.pow(min_len) / same_len_count; a release build wraps.
pow[n \in 0..(2 * KeyBytes)] == IF n = 0 THEN 1 ELSE Radix * pow[n - 1]

Estimate == (pow[MinLen] % WordMod) \div SameLenCount

-----------------------------------------------------------------------------
(***************************************************************************)
(* The CPU side: PrefixMatcher::new and matches, should_skip.              *)
(***************************************************************************)
FullBytes(p) == [i \in 1..(Len(p) \div 2) |-> Radix * p[2 * i - 1] + p[2 * i]]

HasTrailing(p) == Len(p) % 2 = 1

TrailingNibble(p) == p[Len(p)]

MatcherMatches(p, k) ==
  /\ \A i \in DOMAIN FullBytes(p) : k[i] = FullBytes(p)[i]
  /\ HasTrailing(p) => k[Len(p) \div 2 + 1] \div Radix = TrailingNibble(p)

should_skip(k) == k[1] = 0 \/ k[1] = ByteMod - 1

\* What a CPU worker accepts.
CpuAccepts(k) ==
  ~should_skip(k) /\ \E i \in DOMAIN prefixes : MatcherMatches(prefixes[i], k)

(***************************************************************************)
(* Packing: the count, then for each prefix its length in nibbles, its     *)
(* bytes (a trailing nibble in the high half of the last), and zeros up to *)
(* the alignment.                                                          *)
(***************************************************************************)
Word(n) == [i \in 1..WordBytes |-> (n \div Place[i - 1]) % ByteMod]

PrefixBytes(p) ==
  FullBytes(p) \o IF HasTrailing(p) THEN <<Radix * TrailingNibble(p)>> ELSE <<>>

Padding_None(bytes) == <<>>
Padding(bytes) == [i \in 1..((-Len(bytes)) % WordBytes) |-> 0]

PackOne(data, p) ==
  LET filled == (data \o Word(Len(p))) \o PrefixBytes(p) IN filled \o Padding(filled)

\* The buffer once the first i prefixes are in it.
prefix_data[i \in 0..Len(prefixes)] ==
  IF i = 0 THEN Word(Len(prefixes)) ELSE PackOne(prefix_data[i - 1], prefixes[i])

\* Passed to the kernels beside the buffer, as a u32.
prefix_count == Len(prefixes) % Place[WordBytes]

(***************************************************************************)
(* The kernel side: check_prefix and check_any_prefix walk the buffer.     *)
(* Offsets are zero-based, as in the code.                                 *)
(***************************************************************************)
At(offset) == packed[offset + 1]

ReadWord(offset) ==
  SumUpTo([i \in 1..WordBytes |-> At(offset + (i - 1)) * Place[i - 1]], WordBytes)

ByteCount(nibbles) == (nibbles + 1) \div 2

Padded(n) == ((n + WordBytes - 1) \div WordBytes) * WordBytes

\* Where the walk stands once it has passed i prefixes.
ptr[i \in 0..prefix_count] ==
  IF i = 0 THEN WordBytes
  ELSE ptr[i - 1] + WordBytes + Padded(ByteCount(ReadWord(ptr[i - 1])))

HighNibble(byte) == byte - (byte % Radix)

check_prefix(k, offset, nibbles) ==
  LET full == nibbles \div 2
  IN /\ \A i \in 0..(full - 1) : k[i + 1] = At(offset + i)
     /\ nibbles % 2 = 1 => HighNibble(k[full + 1]) = HighNibble(At(offset + full))

check_any_prefix(k) ==
  \E i \in 1..prefix_count :
    check_prefix(k, ptr[i - 1] + WordBytes, ReadWord(ptr[i - 1]))

\* The encoding of y alone: the kernel's fast path leaves the sign bit 0.
WithoutSign(k) == [k EXCEPT ![KeyBytes] = @ % (ByteMod \div 2)]

\* What a kernel thread reports.
KernelAccepts(k) ==
  LET y == WithoutSign(k)
  IN y[1] # 0 /\ y[1] # ByteMod - 1 /\ check_any_prefix(y)

-----------------------------------------------------------------------------
Init ==
  /\ args \in Commands /\ prefixes = <<>> /\ stage = "validating"
  /\ expected = 0 /\ packed = <<>> /\ key = NoKey

\* main validates the arguments in order; the first bad one ends the program.
Accept ==
  /\ stage = "validating" /\ args # <<>>
  /\ ValidPrefix(Uppercase(Head(args)))
  /\ prefixes' = Append(prefixes, Uppercase(Head(args)))
  /\ args' = Tail(args)
  /\ UNCHANGED <<stage, expected, packed, key>>

Reject ==
  /\ stage = "validating" /\ args # <<>>
  /\ ~ValidPrefix(Uppercase(Head(args)))
  /\ stage' = "rejected"
  /\ UNCHANGED <<args, prefixes, expected, packed, key>>

Validated ==
  /\ stage = "validating" /\ args = <<>>
  /\ expected' = Estimate
  /\ stage' = "packing"
  /\ UNCHANGED <<args, prefixes, packed, key>>

\* CudaSearcher::new, MetalSearcher::new
PackPrefixes ==
  /\ stage = "packing"
  /\ packed' = prefix_data[Len(prefixes)]
  /\ stage' = "searching"
  /\ UNCHANGED <<args, prefixes, expected, key>>

Candidate ==
  /\ stage = "searching"
  /\ key' \in Keys
  /\ UNCHANGED <<args, prefixes, stage, expected, packed>>

\* The program has exited with an error message.
Terminated == stage = "rejected" /\ UNCHANGED vars

Next == Accept \/ Reject \/ Validated \/ PackPrefixes \/ Candidate \/ Terminated

Spec == Init /\ [][Next]_vars

-----------------------------------------------------------------------------
(***************************************************************************)
(* Properties.                                                             *)
(***************************************************************************)
\* The hex digits of a key, as the user reads them.
Digit(k, n) ==
  IF n % 2 = 1 THEN k[(n + 1) \div 2] \div Radix ELSE k[n \div 2] % Radix

SpellsPrefix(p, k) == \A n \in DOMAIN p : Digit(k, n) = p[n]

\* README.md: find keys whose public key starts with a chosen hex prefix, and
\* skip those starting with 00 or FF.  The CPU matcher, the kernel on its
\* packed buffer and signless key, and that definition agree on every key, so
\* neither kind of thread overlooks a match or reports a wrong one, and the
\* host finds the prefix of every match a GPU reports.
TestsAgree ==
  stage = "searching" =>
    LET wanted == /\ ~(Digit(key, 1) = 0 /\ Digit(key, 2) = 0)
                  /\ ~(Digit(key, 1) = Radix - 1 /\ Digit(key, 2) = Radix - 1)
                  /\ \E i \in DOMAIN prefixes : SpellsPrefix(prefixes[i], key)
    IN CpuAccepts(key) = wanted /\ KernelAccepts(key) = wanted

\* The kernel's walk over the packed buffer ends where the buffer ends: no
\* entry is read beyond it, none is left over.
WalkEndsAtBuffer ==
  stage = "searching" => ptr[prefix_count] = Len(packed)

\* A prefix that passes validation can be found: some key that is not skipped
\* starts with it, so no search is in vain.
AcceptedCanBeFound ==
  \A i \in DOMAIN prefixes :
    \E k \in Keys : MatcherMatches(prefixes[i], k) /\ ~should_skip(k)

\* The estimate against what the search really accepts: it is never below the
\* mean number of candidates a search takes, whatever mixture of lengths the
\* command line has, and it is that mean when the prefixes have one length.
\* That needs prefixes of the shortest length that are distinct (a repeated one
\* is counted twice) and none that is one nibble of a reserved byte (which
\* loses the keys of that byte).
EstimateIsRate ==
  LET shortest == {i \in DOMAIN prefixes : Len(prefixes[i]) = MinLen}
      mean == Cardinality(Keys) \div Cardinality({k \in Keys : CpuAccepts(k)})
  IN /\ stage = "packing" /\ pow[MinLen] < WordMod
     /\ \A i, j \in shortest : prefixes[i] = prefixes[j] => i = j
     /\ \A i \in shortest : prefixes[i] \notin {<<0>>, <<Radix - 1>>}
     => /\ expected >= mean
        /\ Cardinality(shortest) = Len(prefixes) => expected = mean

\* README.md, Search difficulty: "Each hex character multiplies expected
\* attempts by 16" (shared by the prefixes of that length).
EstimateIsDifficulty ==
  stage = "searching" => expected = pow[MinLen] \div SameLenCount
=============================================================================
