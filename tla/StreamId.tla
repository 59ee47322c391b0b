------------------------------ MODULE StreamId ------------------------------
(***************************************************************************)
(* How the id of a stream is computed from its namespace, its name and its *)
(* tags, by the process that creates it (aggregator_provider_stream_create)*)
(* and by a client that wants to fetch it (aggregator_remote_stream_get_id)*)
(* with aggregator_id_from_string_identifiers: the XOR of the hashes of    *)
(* all the words.  A uint32_t is the set of its bits that are 1.           *)
(***************************************************************************)
EXTENDS Integers, Sequences, FiniteSets, Functions

CONSTANTS
  Caller,   \* who computes an id
  Word,     \* the strings: namespaces, names and tags
  Bit,      \* the positions of the bits of an id
  Hash,     \* Hash[w]: the bits of aggregator_hash(w)
  MaxTags   \* bound: the number of tags

ASSUME StreamIdAssumption ==
  /\ Hash \in [Word -> SUBSET Bit]
  /\ MaxTags \in Nat

----------------------------------------------------------------------------
(* aggregator_hash, for strings of non-zero bytes, kept to w bits.  A char *)
(* is signed and is widened with its sign.                                 *)

SignedChar(b) == IF b < 128 THEN b ELSE b - 256

Djb2(str, w) ==
  LET hash[n \in 0..Len(str)] ==
        IF n = 0 THEN 5381 % 2^w
        ELSE (hash[n - 1] * 33 + SignedChar(str[n])) % 2^w
  IN  hash[Len(str)]

BitsOf(v, w) == {b \in 0..(w - 1) : (v \div 2^b) % 2 = 1}

----------------------------------------------------------------------------
VARIABLES
  words,   \* words[c]: the namespace, the name and the tags given by c
  pos,     \* pos[c]: how many of them c has hashed
  id       \* id[c]: the id computed so far

vars == <<words, pos, id>>

WordLists == UNION {[1..n -> Word] : n \in 2..(MaxTags + 2)}

Init ==
  /\ words \in [Caller -> WordLists]
  /\ pos = [c \in Caller |-> 0]
  /\ id = [c \in Caller |-> {}]

Xor(a, b) == (a \ b) \cup (b \ a)

HashNamespace(c) ==
  /\ pos[c] = 0
  /\ id' = [id EXCEPT ![c] = Hash[words[c][1]]]
  /\ pos' = [pos EXCEPT ![c] = 1]
  /\ UNCHANGED words

(* Mutant: the loop over the tags starts at the second one.                *)
HashNameAndSkip(c) ==
  /\ pos[c] = 1
  /\ id' = [id EXCEPT ![c] = Xor(@, Hash[words[c][2]])]
  /\ pos' = [pos EXCEPT ![c] = 3]
  /\ UNCHANGED words

HashName(c) ==
  /\ pos[c] = 1
  /\ id' = [id EXCEPT ![c] = Xor(@, Hash[words[c][2]])]
  /\ pos' = [pos EXCEPT ![c] = 2]
  /\ UNCHANGED words

(* Mutant: the bits of a tag are set, not flipped.                         *)
HashTagOr(c) ==
  /\ pos[c] >= 2
  /\ pos[c] < Len(words[c])
  /\ id' = [id EXCEPT ![c] = @ \cup Hash[words[c][pos[c] + 1]]]
  /\ pos' = [pos EXCEPT ![c] = @ + 1]
  /\ UNCHANGED words

(* Mutant: the hash of a tag replaces the id.                              *)
HashTagAssign(c) ==
  /\ pos[c] >= 2
  /\ pos[c] < Len(words[c])
  /\ id' = [id EXCEPT ![c] = Hash[words[c][pos[c] + 1]]]
  /\ pos' = [pos EXCEPT ![c] = @ + 1]
  /\ UNCHANGED words

HashTag(c) ==
  /\ pos[c] >= 2
  /\ pos[c] < Len(words[c])
  /\ id' = [id EXCEPT ![c] = Xor(@, Hash[words[c][pos[c] + 1]])]
  /\ pos' = [pos EXCEPT ![c] = @ + 1]
  /\ UNCHANGED words

Next == \E c \in Caller : HashNamespace(c) \/ HashName(c) \/ HashTag(c)

Spec == Init /\ [][Next]_vars

----------------------------------------------------------------------------
(* Properties. *)

TypeOK ==
  /\ words \in [Caller -> WordLists]
  /\ pos \in [Caller -> Nat]
  /\ \A c \in Caller : pos[c] <= Len(words[c])
  /\ id \in [Caller -> SUBSET Bit]

(* The words among the first n of s whose hash has bit b.                  *)
Holders(s, n, b) == {j \in 1..n : b \in Hash[s[j]]}

(* The bits set are those that an odd number of the words have: nothing    *)
(* else of the words matters, not their order and not which of them is the *)
(* namespace.                                                              *)
IdIsParity ==
  \A c \in Caller :
    id[c] = {b \in Bit : Cardinality(Holders(words[c], pos[c], b)) % 2 = 1}

Done(c) == pos[c] = Len(words[c])

(* t has the namespace and the name of s, and its tags in any order.       *)
Reordered(s, t) ==
  /\ s[1] = t[1]
  /\ s[2] = t[2]
  /\ \E f \in Bijection(DOMAIN s, DOMAIN t) : \A j \in DOMAIN s : s[j] = t[f[j]]

(* A client that lists the tags in another order than the creator of the   *)
(* stream computes the id under which the stream was registered.           *)
OrderIndependent ==
  \A c, d \in Caller :
    (Done(c) /\ Done(d) /\ Reordered(words[c], words[d])) => id[c] = id[d]
=============================================================================
