------------------------------ MODULE MCUtHash ------------------------------
(* Instance of UtHash for TLC. *)
EXTENDS UtHash

CONSTANTS e1, e2, e3, e4, e5, e6, e7, k1, k2, k3, k4, k5, k6

(* Two elements share a key: the second of them is refused.                *)
SharedKey == (e1 :> k1) @@ (e2 :> k2) @@ (e3 :> k3) @@ (e4 :> k4) @@ (e5 :> k5)
               @@ (e6 :> k6) @@ (e7 :> k1)

Hash(x, y, z) == (k1 :> x) @@ (k2 :> y) @@ (k3 :> y) @@ (k4 :> y) @@ (k5 :> z) @@ (k6 :> z)

(* Two chains, with which the table gives up on expansion; one chain, of   *)
(* which only 8 buckets take a part to a bucket of its own.                *)
HashesToStudy == {Hash(1, 1, 2), Hash(1, 5, 9)}

(* The hashes above tell none of k2, k3, k4 nor k5, k6 from each other.    *)
Permuted(p) ==
  [v \in DOMAIN p \cup {SharedKey[e] : e \in DOMAIN p} |->
     IF v \in DOMAIN p THEN p[v]
     ELSE SharedKey[p[CHOOSE e \in DOMAIN p : SharedKey[e] = v]]]

Interchangeable ==
  {Permuted(p @@ q) : p \in Permutations({e2, e3, e4}), q \in Permutations({e5, e6})}
=============================================================================
