---------------------------- MODULE MCHistogram ----------------------------
(* Instance of Histogram for TLC. *)
EXTENDS Histogram

(* Values on both sides of 0, where the search for the largest one starts, *)
(* and none at all.                                                        *)
SignedValue == {-3, -1, 0, 2, 3, NaN}
=============================================================================
