------------------------------ MODULE MCStream ------------------------------
(* Instances of Stream for TLC. *)
EXTENDS Stream

(* Three ways to place the ULTs: all on one execution stream, as with      *)
(* margo_init(.., 0, 0), each on its own, or several on each, as in a pool *)
(* served by several execution streams.                                    *)
OneHome == [u \in ULT |-> CHOOSE e \in ES : TRUE]
OwnHome == CHOOSE h \in [ULT -> ES] :
             \A u, w \in ULT : u # w => h[u] # h[w]

SharedHome == CHOOSE h \in [ULT -> ES] : \A e \in ES : \E u \in ULT : h[u] = e

SignedValue == {-1, 0, 1}
SignedDiff == {-1}
=============================================================================
