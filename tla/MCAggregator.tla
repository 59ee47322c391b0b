---------------------------- MODULE MCAggregator ----------------------------
(* Instances of Aggregator for TLC. *)
EXTENDS Aggregator

CONSTANTS k1, k2, i1, i2

DistinctIds == (k1 :> i1) @@ (k2 :> i2)

(* What is in an int64_t that was never set: no count of a fetch.          *)
NeverSet == {-1}
=============================================================================
