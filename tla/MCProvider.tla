----------------------------- MODULE MCProvider -----------------------------
(* Instances of Provider for TLC. *)
EXTENDS Provider

CONSTANTS k1, k2, k3, i1, i2

(* Ids that tell the keys apart, and a hash that confuses two of them.     *)
DistinctIds == (k1 :> i1) @@ (k2 :> i2)
SomeSameIds == (k1 :> i1) @@ (k2 :> i1) @@ (k3 :> i2)

Interchangeable == Permutations(Addr) \cup Permutations(Handle)
                     \cup Permutations(Request)

(* SomeSameIds does not tell k1 from k2.                                   *)
InterchangeableKeys == Interchangeable \cup Permutations({k1, k2})
=============================================================================
