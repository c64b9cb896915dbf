---------------------------- MODULE VanitySearch ----------------------------
(***************************************************************************)
(* What a vanity search promises the caller of SearchHandle::finish (its   *)
(* doc comment in src/src/search.rs, SearchResult and SearchError in       *)
(* src/src/types.rs), with no threads, chains, batches or shared cells:    *)
(* searchers publish matches, and the search closes once, with a published *)
(* match when there is one and with SearchError only when there is none.   *)
(***************************************************************************)
CONSTANT Acceptable   \* the matches a search may report

VARIABLES
  claims,   \* the matches published so far
  status,   \* "open", "delivered", "failed" or "crashed"
  answer    \* the delivered match, when status is "delivered"

vars == <<claims, status, answer>>

CONSTANT NoAnswer

Init == claims = {} /\ status = "open" /\ answer = NoAnswer

Claim ==
  /\ status = "open"
  /\ \E m \in Acceptable : claims' = claims \cup {m}
  /\ UNCHANGED <<status, answer>>

Deliver ==
  /\ status = "open"
  /\ answer' \in claims
  /\ status' = "delivered"
  /\ UNCHANGED claims

GiveUp ==
  /\ status = "open" /\ claims = {}
  /\ status' = "failed"
  /\ UNCHANGED <<claims, answer>>

\* A searcher died, and finish() takes the program down with it.
Crash ==
  /\ status = "open"
  /\ status' = "crashed"
  /\ UNCHANGED <<claims, answer>>

Next == Claim \/ Deliver \/ GiveUp \/ Crash

Spec == Init /\ [][Next]_vars
=============================================================================
