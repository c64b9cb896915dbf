--------------------------- MODULE MCPrefixMatch ---------------------------
(***************************************************************************)
(* Instances of PrefixMatch with binary nibbles and keys of three bytes:   *)
(* 64 keys, prefixes of one to four nibbles.  Every single argument of up  *)
(* to five chars (two digits, their lower-case forms, one that is no hex), *)
(* and every pair of arguments of digits of up to four chars.              *)
(***************************************************************************)
EXTENDS PrefixMatch

Args(chars, max) == UNION {[1..n -> chars] : n \in 0..max}

MCCommands ==
  {<<a>> : a \in Args(0..4, 4) \cup Args(0..1, 5)} \cup
  {<<a, b>> : a \in Args(0..1, 4), b \in Args(0..1, 4)}

SingleCommands == {<<a>> : a \in Args(0..1, 4)}
=============================================================================
