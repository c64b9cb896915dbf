---------------------------- MODULE GpuContract ----------------------------
(***************************************************************************)
(* What a GpuSearcher promises its dispatch loop (the trait and the doc    *)
(* comments of search_batch and count_batch in src/src/search.rs and       *)
(* src/src/gpu.rs): each launch covers the next block of consecutive       *)
(* candidates and reports on exactly that block, with no kernel threads    *)
(* and no device buffers.  A lossy launch (a Metal command that failed     *)
(* unnoticed) may have skipped part of its block.                          *)
(***************************************************************************)
EXTENDS GpuLaunch, FiniteSets

CONSTANT Starts   \* the scalars a searcher may start from

VARIABLES
  base,    \* the first scalar no launch has covered
  lossy,   \* did the current launch skip candidates?
  reply    \* what the last launch reported

vars == <<base, lossy, reply>>

Plain(kind) == [kind |-> kind, scalar |-> 0, public |-> 0, count |-> 0]

\* The dispatch loop launches no more after a key pair or an error.
Open == reply.kind \notin {"unopened", "key", "error"}

Init == base = 0 /\ lossy = FALSE /\ reply = Plain("unopened")

\* The device opens, or does not (Fail).
New ==
  /\ reply = Plain("unopened") /\ reply' = Plain("none")
  /\ base' \in Starts
  /\ UNCHANGED lossy

Advance == base' = (base + 8 * Keys) % ScalarMod /\ UNCHANGED lossy

Disturb == Open /\ lossy' \in BOOLEAN /\ UNCHANGED <<base, reply>>

Miss ==
  /\ Open
  /\ lossy \/ HitsFrom(base) = {}
  /\ reply' = Plain("miss")
  /\ Advance

Found ==
  /\ Open
  /\ \E s \in HitsFrom(base) :
       reply' = [Plain("key") EXCEPT !.scalar = s, !.public = Mult(s)]
  /\ Advance

Count ==
  /\ Open
  /\ \E n \in 0..Cardinality(HitsFrom(base)) :
       /\ lossy \/ n = Cardinality(HitsFrom(base))
       /\ reply' = [Plain("count") EXCEPT !.count = n]
  /\ Advance

Fail ==
  /\ Open \/ reply = Plain("unopened")
  /\ reply' = Plain("error")
  /\ UNCHANGED <<base, lossy>>

Next == New \/ Disturb \/ Miss \/ Found \/ Count \/ Fail

Spec == Init /\ [][Next]_vars
=============================================================================
