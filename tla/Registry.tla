------------------------------ MODULE Registry ------------------------------
(***************************************************************************)
(* What a provider needs of its hash of streams: the sequence of the       *)
(* streams it holds, oldest first, with one stream to a key.  UtHash, the  *)
(* hash table of the code, implements it, and so does the registry that    *)
(* Provider reasons with.                                                  *)
(***************************************************************************)
EXTENDS Sequences, SequencesExt

CONSTANTS
  Elem,     \* the streams
  Key       \* their keys: the stream ids

VARIABLE streams   \* a sequence of records [elem, key]

Holds(k) == {i \in DOMAIN streams : streams[i].key = k}

Init == streams = <<>>

Add(e, k) ==
  /\ Holds(k) = {}
  /\ \A i \in DOMAIN streams : streams[i].elem # e
  /\ streams' = Append(streams, [elem |-> e, key |-> k])

RemoveKey(k) == \E i \in Holds(k) : streams' = RemoveAt(streams, i)

Clear == streams' = <<>>

Next ==
  \/ \E e \in Elem, k \in Key : Add(e, k)
  \/ \E k \in Key : RemoveKey(k)
  \/ Clear

Spec == Init /\ [][Next]_streams
=============================================================================
