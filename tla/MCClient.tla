------------------------------ MODULE MCClient ------------------------------
(* Instance of Client for TLC. *)
EXTENDS Client, TLC

(* Too many, too few, as many as fit and fewer.                            *)
CountsToStudy == {-1, 1, 3}

(* What is in an int64_t that was never set: a negative number, or one     *)
(* larger than any count.                                                  *)
NeverSet == {-1, 3}

Interchangeable == Permutations(Remote) \cup Permutations(Id) \cup Permutations(Rpc)
=============================================================================
