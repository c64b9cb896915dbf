---------------------------- MODULE KernelThread ----------------------------
(***************************************************************************)
(* The arithmetic of one thread of each kernel of cuda/vanity_kernel.cu,   *)
(* to which those of metal/vanity_kernel.metal are equal line by line.     *)
(* All three begin with ge_scalarmult_base and walk the chain start,       *)
(* start + 8, start + 16, ... by adding 8B in projective coordinates.      *)
(* vanity_search and vanity_count_matches do so VANITY_BATCH points at a   *)
(* time, with one inversion per batch; verify_keygen encodes every point.  *)
(* GpuDevice composes many threads; here the others are one action, which  *)
(* takes the result slot, and a claimed slot is written in one step.  One  *)
(* action per iteration of each loop.                                      *)
(***************************************************************************)
EXTENDS ScalarMultBase, Sequences, FiniteSets

CONSTANTS
  VANITY_BATCH,
  Iters,          \* iters_per_thread
  VerifyCount,    \* the count argument of verify_keygen
  Starts,         \* the inputs whose chains are walked
  Reserved,       \* encodings of y whose first byte is 00 or FF
  WantedSets      \* the sets of encodings of y the prefixes may match

\* "Must divide iters_per_thread evenly."
ASSUME BatchAssumption ==
  /\ VANITY_BATCH \in Nat \ {0} /\ Iters \in Nat /\ VerifyCount \in Nat
  /\ Iters % VANITY_BATCH = 0
  /\ Starts \subseteq Inputs /\ Reserved \subseteq Fe
  /\ \A w \in WantedSets : w \subseteq Fe

VARIABLES
  kernel,      \* "search", "count" or "verify"; "none" before it matters
  wanted,      \* what the prefixes match
  b,
  batch_X, batch_Y, batch_Z, products, running,
  slot,        \* the result buffer: flag, pubkey, scalar
  mine,        \* TRUE when this thread filled it
  matches,     \* local_matches
  out          \* pubkeys and scalars of verify_keygen

batchVars == <<batch_X, batch_Y, batch_Z, products, running>>
callVars  == <<kernel, wanted>>
vars == <<pc, my_scalar, digitVars, i, A, callVars, b, batchVars, slot, mine,
          matches, out>>

Batches == Iters \div VANITY_BATCH
Lanes == 0 .. VANITY_BATCH - 1

EightB == base[0][7]

Wanted(y) == y \notin Reserved /\ y \in wanted

Init ==
  /\ ScalarMultInit
  /\ kernel = "none" /\ wanted = {} /\ b = 0
  /\ batch_X = [k \in Lanes |-> 0] /\ batch_Y = batch_X
  /\ batch_Z = batch_X /\ products = batch_X /\ running = 0
  /\ slot = [flag |-> 0, pubkey |-> 0, scalar |-> 0]
  /\ mine = FALSE /\ matches = 0 /\ out = <<>>

Multiply ==
  /\ ScalarMultStep
  /\ UNCHANGED <<callVars, b, batchVars, slot, mine, matches, out>>

\* Which kernel it is and what it looks for make no difference before.
Begin ==
  /\ pc = "done" /\ my_scalar \in Starts
  /\ kernel' \in {"search", "count", "verify"}
  /\ IF kernel' = "verify" THEN UNCHANGED wanted ELSE wanted' \in WantedSets
  /\ pc' = (IF kernel' = "verify" THEN "verify" ELSE "enter")
  /\ i' = 0
  /\ UNCHANGED <<my_scalar, digitVars, A, b, batchVars, slot, mine, matches,
                 out>>

-----------------------------------------------------------------------------
(***************************************************************************)
(* vanity_search and vanity_count_matches.                                 *)
(***************************************************************************)
searchUnchanged == UNCHANGED <<my_scalar, digitVars, callVars, out>>

\* The batch loop: leave after the last batch, or when the slot is taken.
Enter ==
  /\ pc = "enter"
  /\ IF b < Batches /\ (kernel = "count" \/ slot.flag = 0)
     THEN pc' = "gather" /\ i' = 0
     ELSE pc' = "left" /\ UNCHANGED i
  /\ searchUnchanged /\ UNCHANGED <<b, A, batchVars, slot, mine, matches>>

\* Phase 1: keep the point, extend the product of the Z, add 8B.
Gather ==
  /\ pc = "gather" /\ i < VANITY_BATCH
  /\ batch_X' = IF kernel = "count" THEN batch_X
                                    ELSE [batch_X EXCEPT ![i] = A.X]
  /\ batch_Y' = [batch_Y EXCEPT ![i] = A.Y]
  /\ batch_Z' = [batch_Z EXCEPT ![i] = A.Z]
  /\ products' = [products EXCEPT ![i] =
                    IF i = 0 THEN A.Z ELSE fe_mul(products[i - 1], A.Z)]
  /\ A' = ge_p1p1_to_p3(ge_madd(A, EightB))
  /\ i' = i + 1
  /\ searchUnchanged /\ UNCHANGED <<pc, b, running, slot, mine, matches>>

\* Phase 2: the only inversion.
Invert ==
  /\ pc = "gather" /\ i = VANITY_BATCH
  /\ running' = fe_invert(products[VANITY_BATCH - 1])
  /\ pc' = "extract" /\ i' = VANITY_BATCH - 1
  /\ searchUnchanged
  /\ UNCHANGED <<b, A, batch_X, batch_Y, batch_Z, products, slot, mine, matches>>

\* Phase 3, backwards: running is the inverse of Z_0 ... Z_i, and the Z of
\* the lane is used up before its inverse takes its place.
ExtractLane(zUsed) ==
  /\ pc = "extract" /\ i > 0
  /\ batch_Z' = [batch_Z EXCEPT ![i] = fe_mul(running, products[i - 1])]
  /\ running' = fe_mul(running, zUsed)
  /\ i' = i - 1
  /\ searchUnchanged
  /\ UNCHANGED <<pc, b, A, batch_X, batch_Y, products, slot, mine, matches>>

\* Mutant: the Z of the lane is overwritten before running uses it.
Extract_Clobbered == ExtractLane(fe_mul(running, products[i - 1]))

Extract == ExtractLane(batch_Z[i])

ExtractFirst ==
  /\ pc = "extract" /\ i = 0
  /\ batch_Z' = [batch_Z EXCEPT ![0] = running]
  /\ pc' = "check"
  /\ searchUnchanged
  /\ UNCHANGED <<b, i, A, batch_X, batch_Y, products, running, slot, mine,
                 matches>>

Key == fe_tobytes(fe_mul(batch_Y[i], batch_Z[i]))

Checking == pc = "check" /\ i < VANITY_BATCH

\* Phase 4, a lane that does not match.
Pass ==
  /\ Checking /\ ~Wanted(Key)
  /\ i' = i + 1
  /\ searchUnchanged /\ UNCHANGED <<pc, b, A, batchVars, slot, mine, matches>>

Count ==
  /\ Checking /\ Wanted(Key) /\ kernel = "count"
  /\ matches' = matches + 1
  /\ i' = i + 1
  /\ searchUnchanged /\ UNCHANGED <<pc, b, A, batchVars, slot, mine>>

\* Mutant: the offset of the lane alone, not of the batch before it.
MatchScalar_LaneOnly == my_scalar + 8 * i

MatchScalar == my_scalar + 8 * (b * VANITY_BATCH + i)

\* A match: now x gives the sign, and atomicCAS decides whose match it is.
Hit ==
  /\ Checking /\ Wanted(Key) /\ kernel = "search"
  /\ IF slot.flag = 0
     THEN /\ slot' = [flag |-> 1,
                      pubkey |-> Key + TopBit *
                        fe_isnegative(fe_mul(batch_X[i], batch_Z[i])),
                      scalar |-> MatchScalar]
          /\ mine' = TRUE
     ELSE UNCHANGED <<slot, mine>>
  /\ pc' = "left"
  /\ searchUnchanged /\ UNCHANGED <<b, i, A, batchVars, matches>>

\* The end of the batch.
EndBatch(next) ==
  /\ pc = "check" /\ i = VANITY_BATCH
  /\ b' = b + 1
  /\ pc' = next
  /\ searchUnchanged /\ UNCHANGED <<i, A, batchVars, slot, mine, matches>>

\* Mutant: the last batch is left out.
NextBatch_Last == EndBatch(IF b + 2 = Batches THEN "left" ELSE "enter")

NextBatch == EndBatch("enter")

\* Another thread of the launch takes the slot.
OtherHit ==
  /\ kernel = "search" /\ slot.flag = 0 /\ pc # "left"
  /\ slot' = [slot EXCEPT !.flag = 1]
  /\ searchUnchanged
  /\ UNCHANGED <<pc, b, i, A, batchVars, mine, matches>>

-----------------------------------------------------------------------------
(***************************************************************************)
(* verify_keygen.                                                          *)
(***************************************************************************)
Verify ==
  /\ pc = "verify" /\ i < VerifyCount
  /\ out' = Append(out, [pubkey |-> ge_p3_tobytes(A), scalar |-> my_scalar])
  /\ A' = ge_p1p1_to_p3(ge_madd(A, EightB))
  /\ my_scalar' = my_scalar + 8
  /\ i' = i + 1
  /\ UNCHANGED <<pc, digitVars, callVars, b, batchVars, slot, mine, matches>>

Terminated ==
  /\ \/ pc = "done" /\ my_scalar \notin Starts
     \/ pc = "left"
     \/ pc = "verify" /\ i = VerifyCount
  /\ UNCHANGED vars

Next ==
  \/ Multiply \/ Begin
  \/ Enter \/ Gather \/ Invert \/ Extract \/ ExtractFirst \/ Pass \/ Count
  \/ Hit \/ NextBatch \/ OtherHit
  \/ Verify
  \/ Terminated

Spec == Init /\ [][Next]_vars

-----------------------------------------------------------------------------
\* The scalar of the k-th step of the chain, and its affine point.
StepScalar(k) == my_scalar + 8 * k
StepPoint(k) == Times(StepScalar(k))

\* "one fe_invert for the whole batch": when the lanes are checked, batch_Z
\* holds true inverses, so lane k of batch b gives back the affine point
\* (start + 8 (b * 16 + k)) B.  One Z equal to 0, a Z used after it was
\* overwritten or a product shifted by a lane would falsify all of them.
LanesAreChainPoints ==
  pc = "check" =>
    \A k \in Lanes :
      LET p == StepPoint(b * VANITY_BATCH + k)
      IN  /\ fe_mul(batch_Y[k], batch_Z[k]) = p[2]
          /\ kernel = "search" => fe_mul(batch_X[k], batch_Z[k]) = p[1]

\* The pair a search thread writes belongs together, sign bit included,
\* although the match was decided on y alone; and it is the first match of
\* the thread's chain.
FirstMatchIsEmitted ==
  mine => \E k \in 0 .. Iters - 1 :
            /\ slot.scalar = StepScalar(k)
            /\ slot.pubkey = EncodingOf(StepPoint(k))
            /\ Wanted(StepPoint(k)[2])
            /\ \A j \in 0 .. k - 1 : ~Wanted(StepPoint(j)[2])

\* "Each thread does the full iters_per_thread of work": a thread that ran to
\* the end has tested each of its keys exactly once.  It counted every match,
\* or found none to emit while the slot was free.
NothingSkipped ==
  pc = "left" =>
    LET hits == {k \in 0 .. Iters - 1 : Wanted(StepPoint(k)[2])}
    IN  /\ kernel = "count" => matches = Cardinality(hits)
        /\ kernel = "search" /\ slot.flag = 0 => hits = {}

\* "confirm both the initial mult AND the +8B chain stay in sync": what the
\* verification kernel writes is the chain from the start on, each scalar
\* with the encoding of its own multiple of B, sign bit included.
VerifierSeesTheChain ==
  \A n \in DOMAIN out :
    /\ out[n].pubkey = EncodingOf(Times(out[n].scalar))
    /\ IF n = 1 THEN out[n].scalar \in Starts
                ELSE out[n].scalar = out[n - 1].scalar + 8

-----------------------------------------------------------------------------
(***************************************************************************)
(* The inductive invariant.                                                *)
(***************************************************************************)
Records == [pubkey : Int, scalar : Int]

KTypeOK ==
  /\ pc \in {"recode", "odd", "even", "done", "enter", "gather", "extract",
            "check", "left", "verify"}
  /\ kernel \in (IF Multiplying THEN {"none"} ELSE
                 IF pc = "verify" THEN {"verify"} ELSE {"search", "count"})
  /\ b \in 0 .. Batches /\ mine \in BOOLEAN /\ matches \in Nat
  /\ {batch_X, batch_Y, batch_Z, products} \subseteq [Lanes -> Fe] /\ running \in Fe
  /\ slot \in [flag : 0 .. 1, pubkey : Int, scalar : Int]
  /\ out \in Seq(Records)

\* The candidates of the batches before, and those of this one checked so far.
Tested == b * VANITY_BATCH + (IF pc = "check" THEN i ELSE 0)

\* The candidate of lane k, and what a lane holds of its point before and after
\* the inversion.
LanePoint(k) == StepPoint(b * VANITY_BATCH + k)

Gathered(k) ==
  /\ batch_Z[k] # 0
  /\ fe_mul(batch_Y[k], fe_invert(batch_Z[k])) = LanePoint(k)[2]
  /\ kernel = "search" => fe_mul(batch_X[k], fe_invert(batch_Z[k])) = LanePoint(k)[1]

Extracted(k) ==
  /\ fe_mul(batch_Y[k], batch_Z[k]) = LanePoint(k)[2]
  /\ kernel = "search" => fe_mul(batch_X[k], batch_Z[k]) = LanePoint(k)[1]

\* products[k] is the product of the Z of the lanes up to k.
ProductsOK(n) ==
  \A k \in 0 .. n - 1 :
    /\ products[k] # 0
    /\ products[k] = IF k = 0 THEN batch_Z[0] ELSE fe_mul(products[k - 1], batch_Z[k])

BatchOK ==
  /\ pc = "enter" => Stands(A, StepScalar(b * VANITY_BATCH))
  /\ pc = "gather" => /\ i \in 0 .. VANITY_BATCH /\ b < Batches
                      /\ Stands(A, StepScalar(b * VANITY_BATCH + i))
                      /\ \A k \in 0 .. i - 1 : Gathered(k)
                      /\ ProductsOK(i)
  /\ pc \in {"extract", "check"} =>
       b < Batches /\ Stands(A, StepScalar((b + 1) * VANITY_BATCH))
  /\ pc = "extract" => /\ i \in Lanes /\ ProductsOK(i + 1)
                       /\ fe_mul(running, products[i]) = 1
                       /\ \A k \in Lanes : IF k <= i THEN Gathered(k) ELSE Extracted(k)
  /\ pc = "check" => i \in 0 .. VANITY_BATCH /\ \A k \in Lanes : Extracted(k)

\* The hits among the first n candidates of the thread.
Hits(n) == {k \in 0 .. n - 1 : Wanted(StepPoint(k)[2])}

FoundOK ==
  /\ kernel # "none" /\ out = <<>> => my_scalar \in Starts
  /\ kernel \in {"none", "verify"} => b = 0
  /\ kernel # "search" => slot.flag = 0
  /\ slot.flag = 0 => ~mine
  /\ kernel # "count" => matches = 0
  /\ pc \notin {"left", "verify"} =>
       /\ ~mine
       /\ kernel = "search" => Hits(Tested) = {}
       /\ kernel = "count" => matches = Cardinality(Hits(Tested))
  /\ NothingSkipped /\ FirstMatchIsEmitted

ChainOK ==
  /\ kernel # "verify" => out = <<>>
  /\ pc = "verify" => /\ i \in 0 .. VerifyCount /\ Stands(A, my_scalar)
                      /\ out # <<>> => my_scalar = out[Len(out)].scalar + 8
  /\ VerifierSeesTheChain

KInv == ScalarMultInv /\ KTypeOK /\ BatchOK /\ FoundOK /\ ChainOK
=============================================================================
