--------------------------- MODULE StreamIdProofs ---------------------------
(***************************************************************************)
(* Whatever the hash function and however many tags: a stream has the same *)
(* id whichever way its tags are ordered.  The loop keeps, bit by bit, the *)
(* parity of the number of words hashed so far that have the bit; a        *)
(* permutation of the words does not change that number.                   *)
(***************************************************************************)
EXTENDS StreamId, FiniteSetTheorems, FunctionTheorems, TLAPS

IInv == TypeOK /\ IdIsParity

(* What a list of words is. *)
LEMMA WordListType ==
  ASSUME NEW s \in WordLists
  PROVE  /\ s \in Seq(Word)
         /\ Len(s) \in Nat /\ Len(s) >= 2
         /\ DOMAIN s = 1..Len(s)
         /\ \A j \in 1..Len(s) : Hash[s[j]] \subseteq Bit
  <1>1. PICK n \in 2..(MaxTags + 2) : s \in [1..n -> Word]
    BY DEF WordLists
  <1>2. n \in Nat /\ n >= 2
    BY StreamIdAssumption
  <1>3. s \in Seq(Word) /\ Len(s) = n
    BY <1>1, <1>2
  <1> QED
    BY <1>1, <1>2, <1>3, StreamIdAssumption

LEMMA HoldersFinite ==
  ASSUME NEW s, NEW n \in Nat, NEW b
  PROVE  IsFiniteSet(Holders(s, n, b)) /\ Cardinality(Holders(s, n, b)) \in Nat
  <1>1. IsFiniteSet(1..n)
    BY FS_Interval
  <1>2. Holders(s, n, b) \subseteq 1..n
    BY DEF Holders
  <1> QED
    BY <1>1, <1>2, FS_Subset, FS_CardinalityType

(* One more word is one more holder of the bits its hash has.              *)
LEMMA HoldersNext ==
  ASSUME NEW s, NEW n \in Nat, NEW b
  PROVE  Cardinality(Holders(s, n + 1, b)) =
           Cardinality(Holders(s, n, b)) + (IF b \in Hash[s[n + 1]] THEN 1 ELSE 0)
  <1>1. Holders(s, n + 1, b) =
          IF b \in Hash[s[n + 1]] THEN Holders(s, n, b) \cup {n + 1}
                                  ELSE Holders(s, n, b)
    BY DEF Holders
  <1>2. n + 1 \notin Holders(s, n, b)
    BY DEF Holders
  <1> QED
    BY <1>1, <1>2, HoldersFinite, FS_AddElement

Parity(s, n) == {b \in Bit : Cardinality(Holders(s, n, b)) % 2 = 1}

(* The XOR with the hash of the next word keeps the parities.              *)
LEMMA ParityNext ==
  ASSUME NEW s, NEW n \in Nat, Hash[s[n + 1]] \subseteq Bit
  PROVE  Parity(s, n + 1) = Xor(Parity(s, n), Hash[s[n + 1]])
  <1>1. ASSUME NEW b \in Bit
        PROVE  b \in Parity(s, n + 1) <=> b \in Xor(Parity(s, n), Hash[s[n + 1]])
    <2> DEFINE k == Cardinality(Holders(s, n, b))
    <2>1. k \in Nat
      BY HoldersFinite
    <2>2. Cardinality(Holders(s, n + 1, b)) =
            k + (IF b \in Hash[s[n + 1]] THEN 1 ELSE 0)
      BY HoldersNext
    <2>3. b \in Xor(Parity(s, n), Hash[s[n + 1]])
            <=> (k % 2 = 1 /\ b \notin Hash[s[n + 1]])
                 \/ (k % 2 # 1 /\ b \in Hash[s[n + 1]])
      BY DEF Xor, Parity
    <2>4. (k + 1) % 2 = 1 <=> k % 2 # 1
      BY <2>1
    <2>5. b \in Parity(s, n + 1) <=> Cardinality(Holders(s, n + 1, b)) % 2 = 1
      BY DEF Parity
    <2>6. CASE b \in Hash[s[n + 1]]
      <3>1. Cardinality(Holders(s, n + 1, b)) = k + 1
        BY <2>2, <2>6
      <3> QED
        BY <3>1, <2>3, <2>4, <2>5, <2>6
    <2>7. CASE b \notin Hash[s[n + 1]]
      <3>1. Cardinality(Holders(s, n + 1, b)) = k
        BY <2>1, <2>2, <2>7
      <3> QED
        BY <3>1, <2>3, <2>5, <2>7
    <2> QED
      BY <2>6, <2>7
  <1>2. /\ Parity(s, n + 1) \subseteq Bit
        /\ Xor(Parity(s, n), Hash[s[n + 1]]) \subseteq Bit
    BY DEF Parity, Xor
  <1> QED
    BY <1>1, <1>2

LEMMA ParityNone ==
  ASSUME NEW s
  PROVE  Parity(s, 0) = {}
  <1>1. ASSUME NEW b PROVE Cardinality(Holders(s, 0, b)) = 0
    <2>1. Holders(s, 0, b) = {}
      BY DEF Holders
    <2> QED
      BY <2>1, FS_EmptySet
  <1> QED
    BY <1>1 DEF Parity

LEMMA InitIInv == Init => IInv
  <1> SUFFICES ASSUME Init PROVE IInv
    OBVIOUS
  <1>1. TypeOK
    BY WordListType DEF Init, TypeOK
  <1>2. IdIsParity
    <2> SUFFICES ASSUME NEW c \in Caller PROVE id[c] = Parity(words[c], pos[c])
      BY DEF IdIsParity, Parity
    <2> QED
      BY ParityNone DEF Init
  <1> QED
    BY <1>1, <1>2 DEF IInv

(* A caller that takes the next word keeps the invariant. *)
LEMMA TakeWord ==
  ASSUME IInv, NEW c \in Caller, pos[c] < Len(words[c]),
         id' = [id EXCEPT ![c] = Xor(id[c], Hash[words[c][pos[c] + 1]])],
         pos' = [pos EXCEPT ![c] = pos[c] + 1],
         UNCHANGED words
  PROVE  IInv'
  <1>1. /\ words[c] \in WordLists
        /\ pos[c] \in Nat
        /\ id[c] \subseteq Bit
    BY DEF IInv, TypeOK
  <1>2. Len(words[c]) \in Nat /\ pos[c] + 1 \in 1..Len(words[c])
    BY <1>1, WordListType
  <1>3. Hash[words[c][pos[c] + 1]] \subseteq Bit
    BY <1>1, <1>2, WordListType
  <1>4. TypeOK'
    <2>1. Xor(id[c], Hash[words[c][pos[c] + 1]]) \subseteq Bit
      BY <1>1, <1>3 DEF Xor
    <2>2. id' \in [Caller -> SUBSET Bit]
      BY <2>1 DEF IInv, TypeOK
    <2>3. pos' \in [Caller -> Nat] /\ \A d \in Caller : pos'[d] <= Len(words[d])
      BY <1>1, <1>2 DEF IInv, TypeOK
    <2> QED
      BY <2>2, <2>3 DEF IInv, TypeOK
  <1>5. ASSUME NEW d \in Caller PROVE id'[d] = Parity(words[d], pos'[d])
    <2>1. id[d] = Parity(words[d], pos[d])
      BY DEF IInv, IdIsParity, Parity
    <2>2. CASE d = c
      <3>1. id'[c] = Xor(Parity(words[c], pos[c]), Hash[words[c][pos[c] + 1]])
        BY <2>1, <2>2 DEF IInv, TypeOK
      <3>2. pos'[c] = pos[c] + 1
        BY DEF IInv, TypeOK
      <3> QED
        BY <2>2, <3>1, <3>2, <1>1, <1>3, ParityNext
    <2>3. CASE d # c
      BY <2>1, <2>3 DEF IInv, TypeOK
    <2> QED
      BY <2>2, <2>3
  <1>6. IdIsParity'
    BY <1>5 DEF IdIsParity, Parity
  <1> QED
    BY <1>4, <1>6 DEF IInv

LEMMA NextIInv == IInv /\ [Next]_vars => IInv'
  <1> SUFFICES ASSUME IInv, [Next]_vars PROVE IInv'
    OBVIOUS
  <1>1. ASSUME NEW c \in Caller, HashNamespace(c) PROVE IInv'
    <2>1. id[c] = Parity(words[c], pos[c])
      BY DEF IInv, IdIsParity, Parity
    <2>2. id[c] = {}
      BY <1>1, <2>1, ParityNone DEF HashNamespace
    <2>3. Xor(id[c], Hash[words[c][1]]) = Hash[words[c][1]]
      BY <2>2 DEF Xor
    <2>4. words[c] \in WordLists
      BY DEF IInv, TypeOK
    <2>5. pos[c] = 0 /\ 0 < Len(words[c]) /\ pos[c] + 1 = 1
      BY <1>1, <2>4, WordListType DEF HashNamespace
    <2>6. /\ id' = [id EXCEPT ![c] = Xor(id[c], Hash[words[c][pos[c] + 1]])]
          /\ pos' = [pos EXCEPT ![c] = pos[c] + 1]
          /\ UNCHANGED words
      BY <1>1, <2>3, <2>5 DEF HashNamespace
    <2> QED
      BY <2>5, <2>6, TakeWord
  <1>2. ASSUME NEW c \in Caller, HashName(c) PROVE IInv'
    <2>1. words[c] \in WordLists
      BY DEF IInv, TypeOK
    <2>2. pos[c] = 1 /\ 1 < Len(words[c]) /\ pos[c] + 1 = 2
      BY <1>2, <2>1, WordListType DEF HashName
    <2>3. /\ id' = [id EXCEPT ![c] = Xor(id[c], Hash[words[c][pos[c] + 1]])]
          /\ pos' = [pos EXCEPT ![c] = pos[c] + 1]
          /\ UNCHANGED words
      BY <1>2, <2>2 DEF HashName
    <2> QED
      BY <2>2, <2>3, TakeWord
  <1>3. ASSUME NEW c \in Caller, HashTag(c) PROVE IInv'
    BY <1>3, TakeWord DEF HashTag
  <1>4. CASE UNCHANGED vars
    BY <1>4 DEF vars, IInv, TypeOK, IdIsParity
  <1> QED
    BY <1>1, <1>2, <1>3, <1>4 DEF Next

(* Every caller hashes its own words and none beyond them, and an id is a  *)
(* set of bits, for every hash function and every number of tags.          *)
THEOREM TypeCorrect == Spec => []TypeOK
  <1>1. IInv => TypeOK
    BY DEF IInv
  <1> QED
    BY <1>1, InitIInv, NextIInv, PTL DEF Spec

(* The id holds, bit by bit, the parity of the words hashed so far, for    *)
(* every hash function and every number of tags.                           *)
THEOREM ParityCorrect == Spec => []IdIsParity
  <1>1. IInv => IdIsParity
    BY DEF IInv
  <1> QED
    BY <1>1, InitIInv, NextIInv, PTL DEF Spec

(* A permutation of the words maps the holders of a bit one to one.        *)
LEMMA SameHolders ==
  ASSUME NEW s \in WordLists, NEW t \in WordLists, NEW b,
         NEW f \in Bijection(1..Len(s), 1..Len(t)),
         \A j \in 1..Len(s) : s[j] = t[f[j]]
  PROVE  Cardinality(Holders(s, Len(s), b)) = Cardinality(Holders(t, Len(t), b))
  <1> DEFINE S == Holders(s, Len(s), b)
             T == Holders(t, Len(t), b)
             g == [j \in S |-> f[j]]
  <1>1. /\ f \in [1..Len(s) -> 1..Len(t)]
        /\ \A i, j \in 1..Len(s) : f[i] = f[j] => i = j
        /\ \A k \in 1..Len(t) : \E j \in 1..Len(s) : f[j] = k
    BY DEF Bijection, Injection, Surjection, IsInjective
  <1>2. S \subseteq 1..Len(s) /\ T \subseteq 1..Len(t)
    BY DEF Holders
  <1>3. g \in [S -> T]
    BY <1>1, <1>2 DEF Holders
  <1>4. \A i, j \in S : g[i] = g[j] => i = j
    BY <1>1, <1>2
  <1>5. \A k \in T : \E j \in S : g[j] = k
    BY <1>1 DEF Holders
  <1>6. ExistsBijection(S, T)
    <2> HIDE DEF S, T, g
    <2>1. g \in Bijection(S, T)
      BY <1>3, <1>4, <1>5, Fun_IsBij
    <2> QED
      BY <2>1 DEF ExistsBijection
  <1>7. IsFiniteSet(S)
    BY WordListType, HoldersFinite
  <1> QED
    BY <1>6, <1>7, FS_Bijection

(* The creator of a stream and a client that gives its tags in any other   *)
(* order compute the same id, for every hash function and every number of  *)
(* tags.                                                                   *)
THEOREM AnyOrderOfTags == Spec => []OrderIndependent
  <1>1. IInv => OrderIndependent
    <2> SUFFICES ASSUME IInv, NEW c \in Caller, NEW d \in Caller, Done(c), Done(d),
                        Reordered(words[c], words[d])
                 PROVE  id[c] = id[d]
      BY DEF OrderIndependent
    <2>1. /\ words[c] \in WordLists
          /\ words[d] \in WordLists
      BY DEF IInv, TypeOK
    <2>2. PICK f \in Bijection(1..Len(words[c]), 1..Len(words[d])) :
            \A j \in 1..Len(words[c]) : words[c][j] = words[d][f[j]]
      BY <2>1, WordListType DEF Reordered
    <2>3. \A b : Cardinality(Holders(words[c], Len(words[c]), b))
                   = Cardinality(Holders(words[d], Len(words[d]), b))
      BY <2>1, <2>2, SameHolders
    <2>4. /\ id[c] = Parity(words[c], Len(words[c]))
          /\ id[d] = Parity(words[d], Len(words[d]))
      BY DEF IInv, IdIsParity, Done, Parity
    <2> QED
      BY <2>3, <2>4 DEF Parity
  <1> QED
    BY <1>1, InitIInv, NextIInv, PTL DEF Spec
=============================================================================
