---------------------------- MODULE UtHashProofs ----------------------------
(***************************************************************************)
(* Theorems about the hash table, for every set of elements, every hash    *)
(* function and every number of buckets to begin with.                     *)
(***************************************************************************)
EXTENDS UtHash, FiniteSetTheorems, FunctionTheorems, SequenceTheorems, WellFoundedInduction, TLAPS

----------------------------------------------------------------------------
(* Natural numbers. *)

LEMMA NatMin ==
  ASSUME NEW S \in SUBSET Nat, S # {}
  PROVE  Min(S) \in S /\ \A n \in S : Min(S) <= n
  <1> DEFINE R == {p \in Nat \X Nat : p[1] < p[2]}
  <1>1. IsWellFoundedOn(R, Nat)
    BY NatLessThanWellFounded, Zenon DEF OpToRel
  <1>2. \A k, n \in Nat : k < n => <<k, n>> \in R
    OBVIOUS
  <1> HIDE DEF R
  <1>3. PICK m \in S : \A n \in S : ~(<<n, m>> \in R)
    BY <1>1, WFMin
  <1>4. ASSUME NEW n \in S, ~(m <= n) PROVE FALSE
    <2>1. n \in Nat /\ m \in Nat
      OBVIOUS
    <2>2. n < m
      BY <2>1, <1>4
    <2> QED
      BY <2>1, <2>2, <1>2, <1>3
  <1> QED
    BY <1>4 DEF Min

(* Induction, for a set of numbers rather than a property of them.         *)
LEMMA Counting ==
  ASSUME NEW S, 0 \in S, \A n \in Nat : n \in S => n + 1 \in S
  PROVE  \A n \in Nat : n \in S
  <1>1. ASSUME Nat \ S # {} PROVE FALSE
    <2>1. PICK m \in Nat \ S : \A n \in Nat \ S : m <= n
      BY <1>1, NatMin
    <2>2. m - 1 \in Nat /\ (m - 1) + 1 = m /\ ~(m <= m - 1)
      BY <2>1
    <2> QED
      BY <2>1, <2>2
  <1> QED
    BY <1>1

(* f is computed from c in N steps. *)
Computes(f, c, N, step) == f[0] = c /\ \A i \in 1..N : f[i] = step[<<i, f[i - 1]>>]

(* What can be computed step by step from 0 to N exists.                   *)
LEMMA StepByStep ==
  ASSUME NEW N \in Nat, NEW T, NEW c \in T, NEW step \in [(1..N) \X T -> T]
  PROVE  \E f \in [0..N -> T] : Computes(f, c, N, step)
  <1> DEFINE Upto(n) == \E f \in [0..n -> T] :
                          f[0] = c /\ \A i \in 1..n : f[i] = step[<<i, f[i - 1]>>]
             S == {n \in Nat : n <= N => Upto(n)}
  <1>1. 0 \in S
    <2>1. [i \in 0..0 |-> c] \in [0..0 -> T] /\ [i \in 0..0 |-> c][0] = c
      OBVIOUS
    <2>2. 1..0 = {}
      OBVIOUS
    <2> QED
      BY <2>1, <2>2
  <1>2. ASSUME NEW n \in Nat, n \in S PROVE n + 1 \in S
    <2> SUFFICES ASSUME n + 1 <= N PROVE Upto(n + 1)
      OBVIOUS
    <2>1. PICK f \in [0..n -> T] : f[0] = c /\ \A i \in 1..n : f[i] = step[<<i, f[i - 1]>>]
      BY <1>2
    <2>2. step[<<n + 1, f[n]>>] \in T
      OBVIOUS
    <2> DEFINE g == [i \in 0..(n + 1) |-> IF i = n + 1 THEN step[<<n + 1, f[n]>>] ELSE f[i]]
    <2>3. g \in [0..(n + 1) -> T]
      BY <2>2
    <2>4. g[0] = c
      BY <2>1
    <2>5. ASSUME NEW i \in 1..(n + 1) PROVE g[i] = step[<<i, g[i - 1]>>]
      <3>1. CASE i = n + 1
        <4>1. g[n + 1] = step[<<n + 1, f[n]>>]
          OBVIOUS
        <4>2. i - 1 = n /\ n \in 0..n /\ n # n + 1
          BY <3>1
        <4>3. g[i - 1] = f[n]
          BY <4>2
        <4> QED
          BY <3>1, <4>1, <4>3
      <3>2. CASE i # n + 1
        <4>1. i \in 1..n /\ i - 1 \in 0..n /\ i - 1 # n + 1
          BY <3>2
        <4> QED
          BY <4>1, <2>1
      <3> QED
        BY <3>1, <3>2
    <2> HIDE DEF g
    <2> QED
      BY <2>3, <2>4, <2>5
  <1> HIDE DEF S, Upto
  <1>3. \A n \in Nat : n \in S
    <2>1. \A n \in Nat : n \in S => n + 1 \in S
      BY <1>2
    <2> QED
      BY <1>1, <2>1, Counting
  <1>4. Upto(N)
    BY <1>3 DEF S
  <1> QED
    BY <1>4 DEF Upto, Computes

LEMMA DivMod ==
  ASSUME NEW h \in Nat, NEW m \in Nat, m > 0
  PROVE  h % m \in 0..(m - 1) /\ h \div m \in Nat /\ h = m * (h \div m) + (h % m)
  BY SMT

LEMMA ModUnique ==
  ASSUME NEW h \in Nat, NEW m \in Nat, m > 0,
         NEW q \in Nat, NEW s \in 0..(m - 1), h = m * q + s
  PROVE  h % m = s
  BY SMT

(* The bucket of twice as many tells the bucket (src/uthash.h 441-444).    *)
LEMMA ModTwice ==
  ASSUME NEW h \in Nat, NEW m \in Nat, m > 0
  PROVE  (h % (2 * m)) % m = h % m
  <1> DEFINE q == h \div (2 * m)
             r == h % (2 * m)
             p == r \div m
             s == r % m
  <1>1. 2 * m \in Nat /\ 2 * m > 0
    OBVIOUS
  <1>2. q \in Nat /\ r \in Nat /\ h = 2 * m * q + r
    BY <1>1, DivMod
  <1>3. p \in Nat /\ s \in 0..(m - 1) /\ r = m * p + s
    <2> HIDE DEF r
    <2> QED
      BY <1>2, DivMod
  <1> HIDE DEF q, p, s, r
  <1>4. h = m * (2 * q + p) + s /\ 2 * q + p \in Nat
    BY <1>2, <1>3, SMT
  <1>5. h % m = s
    BY <1>3, <1>4, ModUnique
  <1> QED
    BY <1>5 DEF s, r

----------------------------------------------------------------------------
(* Lists. *)

(* The pointers to and back, from first on, link the elements s. *)
IsList(s, to, back, first) ==
  /\ s \in Seq(Elem)
  /\ \A i, j \in DOMAIN s : s[i] = s[j] => i = j
  /\ first = IF s = <<>> THEN NULL ELSE s[1]
  /\ \A i \in DOMAIN s :
       /\ s[i] \in DOMAIN to
       /\ to[s[i]] = IF i < Len(s) THEN s[i + 1] ELSE NULL
       /\ back[s[i]] = IF i > 1 THEN s[i - 1] ELSE NULL

(* at holds the first N elements that the pointers lead to from e on. *)
Follows(at, to, e, N) ==
  /\ at[0] = e
  /\ \A n \in 1..N : at[n] = IF at[n - 1] \in DOMAIN to THEN to[at[n - 1]] ELSE NULL

LEMMA PointersFollow ==
  ASSUME NEW D \in SUBSET Elem, NEW to \in [D -> Pointer], NEW e \in Pointer,
         NEW N \in Nat, N = Cardinality(Elem)
  PROVE  Follows(Pointers(to, e), to, e, N)
  <1> DEFINE step == [p \in (1..N) \X Pointer |-> IF p[2] \in D THEN to[p[2]] ELSE NULL]
             IsSo(f) == f = [n \in 0..N |-> IF n = 0 THEN e
                                 ELSE IF f[n - 1] \in DOMAIN to THEN to[f[n - 1]] ELSE NULL]
  <1>1. step \in [(1..N) \X Pointer -> Pointer]
    BY DEF Pointer
  <1>2. \E f : IsSo(f)
    <2>1. PICK f \in [0..N -> Pointer] : Computes(f, e, N, step)
      <3> HIDE DEF step
      <3> QED
        BY <1>1, StepByStep
    <2>2. ASSUME NEW i \in 1..N
          PROVE  f[i] = IF f[i - 1] \in D THEN to[f[i - 1]] ELSE NULL
      <3>1. f[i] = step[<<i, f[i - 1]>>] /\ f[i - 1] \in Pointer
        <4> HIDE DEF step
        <4> QED
          BY <2>1 DEF Computes
      <3> QED
        BY <3>1
    <2> HIDE DEF step
    <2>3. IsSo(f)
      BY <2>1, <2>2 DEF Computes
    <2> QED
      BY <2>3
  <1>3. Pointers(to, e) = CHOOSE f : IsSo(f)
    BY DEF Pointers
  <1>4. IsSo(Pointers(to, e))
    <2> HIDE DEF IsSo
    <2> QED
      BY <1>2, <1>3
  <1>5. 0 \in 0..N /\ \A n \in 1..N : n \in 0..N /\ n # 0
    OBVIOUS
  <1> QED
    BY <1>4, <1>5 DEF Follows

(* A list has no more elements than there are.                             *)
LEMMA ShortList ==
  ASSUME NEW s \in Seq(Elem), \A i, j \in DOMAIN s : s[i] = s[j] => i = j
  PROVE  Len(s) \in Nat /\ Len(s) <= Cardinality(Elem) /\ Cardinality(Elem) \in Nat
  <1>1. s \in Injection(1..Len(s), Elem)
    BY DEF Injection, IsInjective
  <1>2. Len(s) \in Nat /\ Cardinality(1..Len(s)) = Len(s)
    <2>1. Len(s) \in Nat /\ 1 \in Int
      OBVIOUS
    <2>2. Cardinality(1..Len(s)) = IF 1 > Len(s) THEN 0 ELSE Len(s) - 1 + 1
      BY <2>1, FS_Interval
    <2> QED
      BY <2>1, <2>2
  <1> QED
    BY <1>1, <1>2, FS_Injection, FS_CardinalityType, UtHashAssumption

(* Walking along the pointers of a list yields the list.                   *)
LEMMA WalkOfList ==
  ASSUME NEW D \in SUBSET Elem, NEW to \in [D -> Pointer], NEW back, NEW s, NEW first,
         IsList(s, to, back, first)
  PROVE  Walk(to, first) = s
  <1> DEFINE N == Cardinality(Elem)
             at == Pointers(to, first)
             L == Len(s)
             S == {n \in Nat : n <= N => at[n] = IF n < L THEN s[n + 1] ELSE NULL}
  <1>1. /\ s \in Seq(Elem) /\ L \in Nat /\ N \in Nat /\ L <= N
        /\ DOMAIN s = 1..L /\ NULL \notin D
    BY ShortList, UtHashAssumption DEF IsList
  <1>2. first \in Pointer /\ first = IF 0 < L THEN s[1] ELSE NULL
    BY <1>1 DEF IsList, Pointer
  <1>3. /\ at[0] = first
        /\ \A n \in 1..N : at[n] = IF at[n - 1] \in D THEN to[at[n - 1]] ELSE NULL
    <2>1. at = Pointers(to, first) /\ N = Cardinality(Elem)
      OBVIOUS
    <2> HIDE DEF at, N
    <2>2. Follows(at, to, first, N)
      BY <1>1, <1>2, <2>1, PointersFollow
    <2> QED
      BY <2>2 DEF Follows
  <1>4. \A i \in 1..L : s[i] \in D /\ to[s[i]] = IF i < L THEN s[i + 1] ELSE NULL
    BY <1>1 DEF IsList
  <1> HIDE DEF at, L, N
  <1>5. 0 \in S
    BY <1>2, <1>3
  <1>6. ASSUME NEW n \in Nat, n \in S PROVE n + 1 \in S
    <2> SUFFICES ASSUME n + 1 <= N PROVE at[n + 1] = IF n + 1 < L THEN s[n + 2] ELSE NULL
      BY <1>1
    <2>1. at[n] = IF n < L THEN s[n + 1] ELSE NULL
      BY <1>1, <1>6
    <2>2. at[n + 1] = IF at[n] \in D THEN to[at[n]] ELSE NULL
      <3>1. n + 1 \in 1..N /\ (n + 1) - 1 = n
        BY <1>1
      <3> QED
        BY <1>3, <3>1
    <2>3. CASE n < L
      <3>1. n + 1 \in 1..L /\ (n + 1) + 1 = n + 2
        BY <1>1, <2>3
      <3> QED
        BY <1>4, <2>1, <2>2, <2>3, <3>1
    <2>4. CASE ~(n < L)
      BY <1>1, <2>1, <2>2, <2>4
    <2> QED
      BY <2>3, <2>4
  <1>7. \A n \in Nat : n \in S
    <2>1. \A n \in Nat : n \in S => n + 1 \in S
      BY <1>6
    <2> HIDE DEF S
    <2> QED
      BY <1>5, <2>1, Counting
  <1>8. \A n \in 0..N : at[n] = IF n < L THEN s[n + 1] ELSE NULL
    BY <1>1, <1>7
  <1>9. {n \in 0..N : at[n] # NULL} = 0..(L - 1)
    <2>1. \A n \in 0..(L - 1) : n \in 0..N /\ n < L /\ s[n + 1] \in D
      BY <1>1, <1>4
    <2>2. \A n \in 0..N : n < L => n \in 0..(L - 1)
      BY <1>1
    <2> QED
      BY <1>1, <1>8, <2>1, <2>2
  <1>10. Cardinality(0..(L - 1)) = L
    BY <1>1, FS_Interval
  <1>11. Walk(to, first) = [n \in 1..L |-> at[n - 1]]
    BY <1>9, <1>10 DEF Walk, at, N
  <1>12. ASSUME NEW n \in 1..L PROVE at[n - 1] = s[n]
    <2>1. n - 1 \in 0..N /\ n - 1 < L /\ (n - 1) + 1 = n
      BY <1>1
    <2> QED
      BY <1>8, <2>1
  <1>13. s = [n \in 1..L |-> s[n]]
    BY <1>1
  <1> QED
    BY <1>11, <1>12, <1>13

LEMMA ListFrame ==
  ASSUME NEW s, NEW to, NEW back, NEW first, IsList(s, to, back, first),
         NEW to2, NEW back2,
         \A x \in Range(s) : x \in DOMAIN to2 /\ to2[x] = to[x] /\ back2[x] = back[x]
  PROVE  IsList(s, to2, back2, first)
  <1>1. \A i \in DOMAIN s : s[i] \in Range(s)
    BY DEF Range
  <1> QED
    BY <1>1 DEF IsList

(* The element i is taken out of s.                                        *)
SkipsOne(t, s, i) ==
  /\ Len(t) = Len(s) - 1
  /\ \A j \in 1..(Len(s) - 1) : t[j] = IF j < i THEN s[j] ELSE s[j + 1]

LEMMA RemoveAtProperties ==
  ASSUME NEW S, NEW s \in Seq(S), NEW i \in 1..Len(s)
  PROVE  RemoveAt(s, i) \in Seq(S) /\ SkipsOne(RemoveAt(s, i), s, i)
  <1> DEFINE t == RemoveAt(s, i)
             a == SubSeq(s, 1, i - 1)
             b == SubSeq(s, i + 1, Len(s))
  <1>1. a \in Seq(S) /\ Len(a) = i - 1 /\ \A j \in 1..(i - 1) : a[j] = s[j]
    <2>1. \A j \in 1..(i - 1) : s[j] \in S
      OBVIOUS
    <2>2. /\ a \in Seq(S)
          /\ Len(a) = IF 1 <= i - 1 THEN i - 1 - 1 + 1 ELSE 0
          /\ \A j \in 1..(i - 1 - 1 + 1) : a[j] = s[1 + j - 1]
      BY <2>1, SubSeqProperties
    <2> QED
      BY <2>2
  <1>2. b \in Seq(S) /\ Len(b) = Len(s) - i /\ \A j \in 1..(Len(s) - i) : b[j] = s[i + j]
    <2>1. \A j \in (i + 1)..Len(s) : s[j] \in S
      OBVIOUS
    <2>2. /\ b \in Seq(S)
          /\ Len(b) = IF i + 1 <= Len(s) THEN Len(s) - (i + 1) + 1 ELSE 0
          /\ \A j \in 1..(Len(s) - (i + 1) + 1) : b[j] = s[i + 1 + j - 1]
      BY <2>1, SubSeqProperties
    <2> QED
      BY <2>2
  <1>3. t = a \o b
    BY DEF RemoveAt
  <1> HIDE DEF a, b, t
  <1>4. /\ a \o b \in Seq(S)
        /\ Len(a \o b) = Len(a) + Len(b)
        /\ \A j \in 1..(Len(a) + Len(b)) :
             (a \o b)[j] = IF j <= Len(a) THEN a[j] ELSE b[j - Len(a)]
    BY <1>1, <1>2, ConcatProperties
  <1>5. Len(t) = Len(s) - 1
    BY <1>1, <1>2, <1>3, <1>4
  <1>6. ASSUME NEW j \in 1..(Len(s) - 1)
        PROVE  t[j] = IF j < i THEN s[j] ELSE s[j + 1]
    <2>1. t[j] = IF j <= i - 1 THEN a[j] ELSE b[j - (i - 1)]
      BY <1>1, <1>2, <1>3, <1>4
    <2>2. CASE j < i
      BY <2>1, <2>2, <1>1
    <2>3. CASE j >= i
      <3>1. j - (i - 1) \in 1..(Len(s) - i)
        BY <2>3
      <3> QED
        BY <2>1, <2>3, <3>1, <1>2
    <2> QED
      BY <2>2, <2>3
  <1> QED
    <2>1. t \in Seq(S) /\ SkipsOne(t, s, i)
      BY <1>3, <1>4, <1>5, <1>6 DEF SkipsOne
    <2> QED
      BY <2>1 DEF t

LEMMA ConcatOne ==
  ASSUME NEW S, NEW e \in S, NEW s \in Seq(S)
  PROVE  /\ <<e>> \o s \in Seq(S)
         /\ Len(<<e>> \o s) = Len(s) + 1
         /\ \A i \in 1..(Len(s) + 1) : (<<e>> \o s)[i] = IF i = 1 THEN e ELSE s[i - 1]
  <1>1. <<e>> \in Seq(S) /\ Len(<<e>>) = 1 /\ <<e>>[1] = e
    OBVIOUS
  <1> DEFINE t == <<e>>
  <1> HIDE DEF t
  <1>2. /\ t \o s \in Seq(S)
        /\ Len(t \o s) = Len(t) + Len(s)
        /\ \A i \in 1..(Len(t) + Len(s)) :
             (t \o s)[i] = IF i <= Len(t) THEN t[i] ELSE s[i - Len(t)]
    BY <1>1, ConcatProperties DEF t
  <1>3. Len(s) \in Nat /\ Len(t) = 1 /\ t[1] = e
    BY <1>1 DEF t
  <1>4. /\ t \o s \in Seq(S)
        /\ Len(t \o s) = Len(s) + 1
        /\ \A i \in 1..(Len(s) + 1) : (t \o s)[i] = IF i = 1 THEN e ELSE s[i - 1]
    BY <1>2, <1>3
  <1> QED
    BY <1>4 DEF t

(* An element is put in front of a list (src/uthash.h 783-789).            *)
LEMMA ListPush ==
  ASSUME NEW s, NEW to, NEW back, NEW first, IsList(s, to, back, first),
         NEW e \in Elem, e \notin Range(s), NEW to2, NEW back2,
         e \in DOMAIN to2, to2[e] = first, back2[e] = NULL,
         \A x \in Range(s) : /\ x \in DOMAIN to2 /\ to2[x] = to[x]
                             /\ back2[x] = IF x = first THEN e ELSE back[x]
  PROVE  IsList(<<e>> \o s, to2, back2, e) /\ Range(<<e>> \o s) = Range(s) \cup {e}
  <1> DEFINE t == <<e>> \o s
             L == Len(s)
  <1>1. /\ s \in Seq(Elem) /\ L \in Nat /\ DOMAIN s = 1..L
        /\ \A i \in 1..L : s[i] \in Range(s) /\ s[i] # e
    BY DEF IsList, Range
  <1>2. /\ t \in Seq(Elem) /\ Len(t) = L + 1 /\ DOMAIN t = 1..(L + 1)
        /\ t[1] = e /\ \A i \in 2..(L + 1) : t[i] = s[i - 1] /\ i - 1 \in 1..L
    BY <1>1, ConcatOne
  <1> HIDE DEF t, L
  <1>3. \A i, j \in 1..(L + 1) : t[i] = t[j] => i = j
    <2>1. ASSUME NEW i \in 2..(L + 1), NEW j \in 2..(L + 1), t[i] = t[j] PROVE i = j
      <3>1. i - 1 \in 1..L /\ j - 1 \in 1..L /\ s[i - 1] = s[j - 1]
        BY <1>2, <2>1
      <3>2. i - 1 = j - 1
        BY <1>1, <3>1 DEF IsList
      <3> QED
        BY <1>1, <3>2
    <2>2. \A i \in 2..(L + 1) : t[i] # e
      BY <1>1, <1>2
    <2>3. \A i \in 1..(L + 1) : i = 1 \/ i \in 2..(L + 1)
      BY <1>1
    <2> QED
      BY <1>2, <2>1, <2>2, <2>3
  <1>4. to2[t[1]] = IF 1 < L + 1 THEN t[2] ELSE NULL
    <2>1. first = IF L = 0 THEN NULL ELSE s[1]
      BY <1>1 DEF IsList, L
    <2>2. CASE L = 0
      BY <1>2, <2>1, <2>2
    <2>3. CASE L # 0
      <3>1. 2 \in 2..(L + 1) /\ 1 < L + 1
        BY <1>1, <2>3
      <3> QED
        BY <1>2, <2>1, <2>3, <3>1
    <2> QED
      BY <2>2, <2>3
  <1>5. ASSUME NEW i \in 2..(L + 1)
        PROVE  /\ t[i] \in DOMAIN to2
               /\ to2[t[i]] = IF i < L + 1 THEN t[i + 1] ELSE NULL
               /\ back2[t[i]] = t[i - 1]
    <2> DEFINE k == i - 1
    <2>1. k \in 1..L /\ i = k + 1 /\ t[i] = s[k] /\ s[k] \in Range(s) /\ s[k] \in DOMAIN to2
      BY <1>1, <1>2
    <2>2. /\ to2[s[k]] = IF k < L THEN s[k + 1] ELSE NULL
          /\ back2[s[k]] = IF s[k] = first THEN e ELSE IF k > 1 THEN s[k - 1] ELSE NULL
      BY <1>1, <2>1 DEF IsList, L
    <2>3. to2[t[i]] = IF i < L + 1 THEN t[i + 1] ELSE NULL
      <3>1. CASE k < L
        <4>1. i + 1 \in 2..(L + 1) /\ (i + 1) - 1 = k + 1
          BY <1>1, <2>1, <3>1
        <4> QED
          BY <1>1, <1>2, <2>1, <2>2, <3>1, <4>1
      <3>2. CASE ~(k < L)
        BY <1>1, <2>1, <2>2, <3>2
      <3> QED
        BY <3>1, <3>2
    <2>4. back2[t[i]] = t[i - 1]
      <3>1. first = s[1] /\ 1 \in 1..L
        BY <1>1, <2>1 DEF IsList
      <3>2. CASE k = 1
        BY <1>2, <2>1, <2>2, <3>1, <3>2
      <3>3. CASE k # 1
        <4>1. s[k] # first
          BY <1>1, <2>1, <3>1, <3>3 DEF IsList
        <4>2. k \in 2..(L + 1) /\ k > 1
          BY <1>1, <2>1, <3>3
        <4> QED
          BY <1>2, <2>1, <2>2, <4>1, <4>2
      <3> QED
        BY <3>2, <3>3
    <2> QED
      BY <2>1, <2>3, <2>4
  <1>6. /\ \A i \in 1..(L + 1) : i = 1 \/ i \in 2..(L + 1)
        /\ \A i \in 2..(L + 1) : i > 1
        /\ 1 \in 1..(L + 1) /\ ~(1 > 1)
    BY <1>1
  <1>7. t # <<>>
    BY <1>1, <1>2
  <1>8. ASSUME NEW i \in 1..(L + 1)
        PROVE  /\ t[i] \in DOMAIN to2
               /\ to2[t[i]] = IF i < L + 1 THEN t[i + 1] ELSE NULL
               /\ back2[t[i]] = IF i > 1 THEN t[i - 1] ELSE NULL
    BY <1>2, <1>4, <1>5, <1>6
  <1>9. IsList(t, to2, back2, e)
    BY <1>2, <1>3, <1>7, <1>8 DEF IsList
  <1>10. Range(t) = Range(s) \cup {e}
    <2>1. ASSUME NEW i \in 1..L PROVE s[i] = t[i + 1] /\ i + 1 \in DOMAIN t
      <3>1. i + 1 \in 2..(L + 1) /\ (i + 1) - 1 = i /\ i + 1 \in 1..(L + 1)
        BY <1>1
      <3> QED
        BY <1>2, <3>1
    <2>2. \A i \in DOMAIN t : t[i] = e \/ \E k \in 1..L : t[i] = s[k]
      BY <1>2, <1>6
    <2>3. 1 \in DOMAIN t /\ t[1] = e
      BY <1>2, <1>6
    <2> QED
      BY <1>1, <2>1, <2>2, <2>3 DEF Range
  <1> QED
    BY <1>9, <1>10 DEF t

(* The last element of a list, if there is one. *)
LastOf(s) == IF s = <<>> THEN NULL ELSE s[Len(s)]

(* An element is put behind a list (src/uthash.h 289-295).                 *)
LEMMA ListAppend ==
  ASSUME NEW s, NEW to, NEW back, NEW first, IsList(s, to, back, first),
         NEW e \in Elem, e \notin Range(s), NEW to2, NEW back2,
         e \in DOMAIN to2, to2[e] = NULL, back2[e] = LastOf(s),
         \A x \in Range(s) : /\ x \in DOMAIN to2 /\ back2[x] = back[x]
                             /\ to2[x] = IF x = LastOf(s) THEN e ELSE to[x]
  PROVE  /\ IsList(Append(s, e), to2, back2, IF s = <<>> THEN e ELSE first)
         /\ Range(Append(s, e)) = Range(s) \cup {e}
         /\ LastOf(Append(s, e)) = e
  <1> DEFINE t == Append(s, e)
             L == Len(s)
  <1>1. /\ s \in Seq(Elem) /\ L \in Nat /\ DOMAIN s = 1..L
        /\ \A i \in 1..L : s[i] \in Range(s) /\ s[i] # e
        /\ \A i, j \in 1..L : s[i] = s[j] => i = j
        /\ s = <<>> <=> L = 0
    BY DEF IsList, Range
  <1>2. /\ t \in Seq(Elem) /\ Len(t) = L + 1 /\ DOMAIN t = 1..(L + 1)
        /\ t[L + 1] = e /\ \A i \in 1..L : t[i] = s[i]
    BY <1>1
  <1> HIDE DEF t, L
  <1>3. \A i \in 1..(L + 1) : i = L + 1 \/ i \in 1..L
    BY <1>1
  <1>4. \A i, j \in 1..(L + 1) : t[i] = t[j] => i = j
    BY <1>1, <1>2, <1>3
  <1>5. t # <<>> /\ t[1] = IF s = <<>> THEN e ELSE first
    <2>1. t # <<>>
      BY <1>1, <1>2
    <2>2. CASE L = 0
      <3>1. L + 1 = 1 /\ s = <<>>
        BY <1>1, <2>2
      <3> QED
        BY <1>2, <2>1, <3>1
    <2>3. CASE L # 0
      <3>1. 1 \in 1..L /\ s # <<>>
        BY <1>1, <2>3
      <3>2. first = s[1]
        BY <3>1 DEF IsList
      <3> QED
        BY <1>2, <2>1, <3>1, <3>2
    <2> QED
      BY <2>2, <2>3
  <1>6. ASSUME NEW i \in 1..(L + 1)
        PROVE  /\ t[i] \in DOMAIN to2
               /\ to2[t[i]] = IF i < L + 1 THEN t[i + 1] ELSE NULL
               /\ back2[t[i]] = IF i > 1 THEN t[i - 1] ELSE NULL
    <2>1. CASE i = L + 1
      <3>1. L # 0 => L \in 1..L
        BY <1>1
      <3>2. back2[e] = IF i > 1 THEN t[i - 1] ELSE NULL
        BY <1>1, <1>2, <2>1, <3>1 DEF LastOf, L
      <3> QED
        BY <1>1, <1>2, <2>1, <3>2
    <2>2. CASE i \in 1..L
      <3>1. /\ t[i] = s[i] /\ s[i] \in Range(s) /\ s[i] \in DOMAIN to2
            /\ L # 0 /\ LastOf(s) = s[L] /\ L \in 1..L
        BY <1>1, <1>2, <2>2 DEF LastOf, L
      <3>2. /\ to[s[i]] = IF i < L THEN s[i + 1] ELSE NULL
            /\ back[s[i]] = IF i > 1 THEN s[i - 1] ELSE NULL
        BY <1>1, <2>2 DEF IsList, L
      <3>3. back2[t[i]] = IF i > 1 THEN t[i - 1] ELSE NULL
        <4>1. i > 1 => i - 1 \in 1..L
          BY <1>1, <2>2
        <4> QED
          BY <1>2, <3>1, <3>2, <4>1
      <3>4. to2[t[i]] = IF i < L + 1 THEN t[i + 1] ELSE NULL
        <4>1. CASE i = L
          BY <1>1, <1>2, <3>1, <4>1
        <4>2. CASE i # L
          <5>1. s[i] # s[L]
            BY <1>1, <2>2, <3>1, <4>2 DEF IsList
          <5>2. i < L /\ i + 1 \in 1..L /\ i < L + 1
            BY <1>1, <2>2, <4>2
          <5> QED
            BY <1>2, <3>1, <3>2, <5>1, <5>2
        <4> QED
          BY <4>1, <4>2
      <3> QED
        BY <3>1, <3>3, <3>4
    <2> QED
      BY <1>3, <2>1, <2>2
  <1>7. IsList(t, to2, back2, IF s = <<>> THEN e ELSE first)
    BY <1>2, <1>4, <1>5, <1>6 DEF IsList
  <1>8. Range(t) = Range(s) \cup {e}
    <2>1. \A i \in 1..L : i \in DOMAIN t
      BY <1>1, <1>2
    <2>2. L + 1 \in DOMAIN t
      BY <1>1, <1>2
    <2> QED
      BY <1>1, <1>2, <1>3, <2>1, <2>2 DEF Range
  <1>9. LastOf(t) = e
    BY <1>2, <1>5 DEF LastOf
  <1> QED
    BY <1>7, <1>8, <1>9 DEF t

(* The pointers of s lead around e. *)
Bypassed(s, e, to, back, to2, back2) ==
  \A x \in Range(s) \ {e} :
    /\ x \in DOMAIN to2
    /\ to2[x] = IF x = back[e] THEN to[e] ELSE to[x]
    /\ back2[x] = IF x = to[e] THEN back[e] ELSE back[x]

(* The list without the element e at m.                                    *)
ListWithout(s, m, e, to, back, first, to2, back2) ==
  /\ IsList(RemoveAt(s, m), to2, back2, IF first = e THEN to[e] ELSE first)
  /\ Range(RemoveAt(s, m)) = Range(s) \ {e}
  /\ Len(RemoveAt(s, m)) = Len(s) - 1
  /\ LastOf(RemoveAt(s, m)) = IF LastOf(s) = e THEN back[e] ELSE LastOf(s)

(* An element is patched out of a list (src/uthash.h 472-480, 802-815).    *)
LEMMA ListRemove ==
  ASSUME NEW s, NEW to, NEW back, NEW first, IsList(s, to, back, first),
         NEW m \in DOMAIN s, NEW e, e = s[m], NEW to2, NEW back2,
         Bypassed(s, e, to, back, to2, back2)
  PROVE  ListWithout(s, m, e, to, back, first, to2, back2)
  <1> DEFINE t == RemoveAt(s, m)
             L == Len(s)
             Old(j) == IF j < m THEN j ELSE j + 1
  <1>1. /\ s \in Seq(Elem) /\ L \in Nat /\ DOMAIN s = 1..L
        /\ m \in 1..L /\ s # <<>> /\ NULL \notin Elem
        /\ \A i \in 1..L : s[i] \in Range(s) /\ s[i] \in Elem
        /\ \A i, j \in 1..L : s[i] = s[j] => i = j
    BY UtHashAssumption DEF IsList, Range
  <1>2. /\ t \in Seq(Elem) /\ Len(t) = L - 1 /\ DOMAIN t = 1..(L - 1)
        /\ \A j \in 1..(L - 1) : t[j] = s[Old(j)]
    <2>1. /\ t \in Seq(Elem) /\ Len(t) = L - 1
          /\ \A j \in 1..(L - 1) : t[j] = IF j < m THEN s[j] ELSE s[j + 1]
      <3>1. t \in Seq(Elem) /\ SkipsOne(t, s, m)
        BY <1>1, RemoveAtProperties
      <3> HIDE DEF t
      <3> QED
        BY <3>1 DEF SkipsOne
    <2> QED
      BY <1>1, <2>1
  <1>3. \A j \in 1..(L - 1) : Old(j) \in 1..L /\ Old(j) # m
    BY <1>1
  <1>4. \A i, j \in 1..(L - 1) : Old(i) = Old(j) => i = j
    BY <1>1
  <1>5. \A i \in 1..L : /\ to[s[i]] = IF i < L THEN s[i + 1] ELSE NULL
                        /\ back[s[i]] = IF i > 1 THEN s[i - 1] ELSE NULL
    BY <1>1 DEF IsList
  <1> HIDE DEF t, L
  <1>6. ASSUME NEW i \in 1..L, NEW k \in 1..L
        PROVE  /\ to[s[i]] = s[k] <=> k = i + 1
               /\ back[s[i]] = s[k] <=> k = i - 1
    <2>1. /\ i < L => i + 1 \in 1..L
          /\ i > 1 => i - 1 \in 1..L
          /\ k = i + 1 => i < L
          /\ k = i - 1 => i > 1
      BY <1>1
    <2>2. s[k] # NULL
      BY <1>1
    <2>3. to[s[i]] = s[k] <=> k = i + 1
      BY <1>1, <1>5, <2>1, <2>2
    <2>4. back[s[i]] = s[k] <=> k = i - 1
      BY <1>1, <1>5, <2>1, <2>2
    <2> QED
      BY <2>3, <2>4
  <1>7. \A i, j \in 1..(L - 1) : t[i] = t[j] => i = j
    <2> HIDE DEF Old
    <2> QED
      BY <1>1, <1>2, <1>3, <1>4
  <1>8. ASSUME NEW j \in 1..(L - 1)
        PROVE  /\ t[j] \in DOMAIN to2
               /\ to2[t[j]] = IF j < L - 1 THEN t[j + 1] ELSE NULL
               /\ back2[t[j]] = IF j > 1 THEN t[j - 1] ELSE NULL
    <2> DEFINE i == Old(j)
    <2>1. i \in 1..L /\ i # m /\ t[j] = s[i] /\ s[i] # e /\ s[i] \in Range(s)
      <3> HIDE DEF Old
      <3> QED
        BY <1>1, <1>2, <1>3
    <2>2. /\ s[i] \in DOMAIN to2
          /\ to2[s[i]] = IF s[i] = back[e] THEN to[e] ELSE to[s[i]]
          /\ back2[s[i]] = IF s[i] = to[e] THEN back[e] ELSE back[s[i]]
      <3> HIDE DEF i
      <3> QED
        BY <2>1 DEF Bypassed
    <2>3. s[i] = back[e] <=> i = m - 1
      <3> HIDE DEF i
      <3> QED
        BY <1>1, <1>6, <2>1
    <2>4. s[i] = to[e] <=> i = m + 1
      <3> HIDE DEF i
      <3> QED
        BY <1>1, <1>6, <2>1
    <2>5. /\ to[s[i]] = IF i < L THEN s[i + 1] ELSE NULL
          /\ back[s[i]] = IF i > 1 THEN s[i - 1] ELSE NULL
          /\ to[e] = IF m < L THEN s[m + 1] ELSE NULL
          /\ back[e] = IF m > 1 THEN s[m - 1] ELSE NULL
      <3> HIDE DEF i
      <3> QED
        BY <1>1, <1>5, <2>1
    <2>6. to2[t[j]] = IF j < L - 1 THEN t[j + 1] ELSE NULL
      <3>1. j < L - 1 => t[j + 1] = s[Old(j + 1)]
        <4>1. j < L - 1 => j + 1 \in 1..(L - 1)
          BY <1>1
        <4> HIDE DEF Old
        <4> QED
          BY <1>2, <4>1
      <3>2. CASE i = m - 1
        <4>1. j = m - 1 /\ (j < L - 1 <=> m < L) /\ Old(j + 1) = m + 1
          BY <1>1, <3>2
        <4> HIDE DEF i, Old
        <4> QED
          BY <2>1, <2>2, <2>3, <2>5, <3>1, <3>2, <4>1
      <3>3. CASE i # m - 1
        <4>1. (j < L - 1 <=> i < L) /\ Old(j + 1) = i + 1
          BY <1>1, <3>3
        <4> HIDE DEF i, Old
        <4> QED
          BY <2>1, <2>2, <2>3, <2>5, <3>1, <3>3, <4>1
      <3> QED
        BY <3>2, <3>3
    <2>7. back2[t[j]] = IF j > 1 THEN t[j - 1] ELSE NULL
      <3>1. j > 1 => t[j - 1] = s[Old(j - 1)]
        <4>1. j > 1 => j - 1 \in 1..(L - 1)
          BY <1>1
        <4> HIDE DEF Old
        <4> QED
          BY <1>2, <4>1
      <3>2. CASE i = m + 1
        <4>1. j = m /\ (j > 1 <=> m > 1) /\ (j > 1 => Old(j - 1) = m - 1)
          BY <1>1, <3>2
        <4> HIDE DEF i, Old
        <4> QED
          BY <2>1, <2>2, <2>4, <2>5, <3>1, <3>2, <4>1
      <3>3. CASE i # m + 1
        <4>1. (j > 1 <=> i > 1) /\ (j > 1 => Old(j - 1) = i - 1)
          BY <1>1, <2>1, <3>3
        <4> HIDE DEF i, Old
        <4> QED
          BY <2>1, <2>2, <2>4, <2>5, <3>1, <3>3, <4>1
      <3> QED
        BY <3>2, <3>3
    <2> HIDE DEF i
    <2> QED
      BY <2>1, <2>2, <2>6, <2>7
  <1>9. (IF first = e THEN to[e] ELSE first) = IF t = <<>> THEN NULL ELSE t[1]
    <2>1. first = s[1] /\ 1 \in 1..L
      BY <1>1 DEF IsList
    <2>2. first = e <=> m = 1
      BY <1>1, <2>1
    <2>3. t = <<>> <=> L = 1
      BY <1>1, <1>2
    <2>4. L # 1 => 1 \in 1..(L - 1) /\ t[1] = s[Old(1)]
      <3>1. L # 1 => 1 \in 1..(L - 1)
        BY <1>1
      <3> HIDE DEF Old
      <3> QED
        BY <1>2, <3>1
    <2>5. to[e] = IF m < L THEN s[m + 1] ELSE NULL
      BY <1>1, <1>5
    <2> QED
      BY <1>1, <2>1, <2>2, <2>3, <2>4, <2>5
  <1>10. IsList(t, to2, back2, IF first = e THEN to[e] ELSE first)
    BY <1>2, <1>7, <1>8, <1>9 DEF IsList
  <1>11. Range(t) = Range(s) \ {e}
    <2>1. \A i \in 1..L : i # m => \E j \in 1..(L - 1) : Old(j) = i
      <3>1. ASSUME NEW i \in 1..L, i # m PROVE \E j \in 1..(L - 1) : Old(j) = i
        <4>1. CASE i < m
          BY <1>1, <4>1
        <4>2. CASE i > m
          <5>1. i - 1 \in 1..(L - 1) /\ Old(i - 1) = i
            BY <1>1, <4>2
          <5> HIDE DEF Old
          <5> QED
            BY <5>1
        <4> QED
          BY <1>1, <3>1, <4>1, <4>2
      <3> QED
        BY <3>1
    <2> HIDE DEF Old
    <2>2. ASSUME NEW x \in Range(t) PROVE x \in Range(s) /\ x # e
      BY <1>1, <1>2, <1>3 DEF Range
    <2>3. ASSUME NEW x \in Range(s), x # e PROVE x \in Range(t)
      <3>1. PICK i \in 1..L : x = s[i]
        BY <1>1 DEF Range
      <3>2. PICK j \in 1..(L - 1) : Old(j) = i
        BY <2>1, <2>3, <3>1
      <3> QED
        BY <1>2, <3>1, <3>2 DEF Range
    <2> QED
      BY <2>2, <2>3
  <1>12. LastOf(t) = IF LastOf(s) = e THEN back[e] ELSE LastOf(s)
    <2>1. LastOf(s) = s[L] /\ L \in 1..L
      BY <1>1 DEF LastOf, L
    <2>2. s[L] = e <=> m = L
      BY <1>1, <2>1
    <2>3. t = <<>> <=> L = 1
      BY <1>1, <1>2
    <2>4. L # 1 => L - 1 \in 1..(L - 1) /\ t[L - 1] = s[Old(L - 1)]
      <3>1. L # 1 => L - 1 \in 1..(L - 1)
        BY <1>1
      <3> HIDE DEF Old
      <3> QED
        BY <1>2, <3>1
    <2>5. back[e] = IF m > 1 THEN s[m - 1] ELSE NULL
      BY <1>1, <1>5
    <2>6. LastOf(t) = IF L = 1 THEN NULL ELSE t[L - 1]
      BY <1>2, <2>3 DEF LastOf
    <2> QED
      BY <1>1, <2>1, <2>2, <2>4, <2>5, <2>6
  <1> QED
    BY <1>2, <1>10, <1>11, <1>12 DEF ListWithout, t, L

----------------------------------------------------------------------------
(* Dealing a chain out to new buckets. *)

(* q holds what s has of the bucket b of n, without repetition. *)
IsDealt(q, s, n, b) ==
  /\ q \in Seq(Elem)
  /\ \A i, j \in DOMAIN q : q[i] = q[j] => i = j
  /\ Range(q) = {e \in Range(s) : ToBkt(e, n) = b}

(* The chain that expansion makes out of another (src/uthash.h 863-883).   *)
LEMMA RehashDeals ==
  ASSUME NEW s \in Seq(Elem), \A i, j \in DOMAIN s : s[i] = s[j] => i = j,
         NEW n, NEW b
  PROVE  IsDealt(Rehash(s, n, b), s, n, b)
  <1> DEFINE L == Len(s)
             step == [p \in (1..L) \X Seq(Elem) |->
                        IF ToBkt(s[p[1]], n) = b THEN <<s[p[1]]>> \o p[2] ELSE p[2]]
             IsSo(f) == f = [i \in 0..L |-> IF i = 0 THEN <<>>
                              ELSE IF ToBkt(s[i], n) = b THEN <<s[i]>> \o f[i - 1]
                              ELSE f[i - 1]]
             new == CHOOSE f : IsSo(f)
  <1>1. L \in Nat /\ DOMAIN s = 1..L /\ \A i \in 1..L : s[i] \in Elem
    OBVIOUS
  <1>2. step \in [(1..L) \X Seq(Elem) -> Seq(Elem)]
    <2>1. ASSUME NEW p \in (1..L) \X Seq(Elem)
          PROVE  (IF ToBkt(s[p[1]], n) = b THEN <<s[p[1]]>> \o p[2] ELSE p[2]) \in Seq(Elem)
      <3>1. p[1] \in 1..L /\ s[p[1]] \in Elem /\ p[2] \in Seq(Elem)
        BY <1>1
      <3>2. <<s[p[1]]>> \o p[2] \in Seq(Elem)
        BY <3>1, ConcatOne
      <3> QED
        BY <3>1, <3>2
    <2> QED
      BY <2>1
  <1> HIDE DEF L
  <1>3. \E f : IsSo(f)
    <2>1. PICK f \in [0..L -> Seq(Elem)] : Computes(f, <<>>, L, step)
      <3> HIDE DEF step
      <3>1. <<>> \in Seq(Elem)
        OBVIOUS
      <3> QED
        BY <1>1, <1>2, <3>1, StepByStep
    <2>2. ASSUME NEW i \in 1..L
          PROVE  f[i] = IF ToBkt(s[i], n) = b THEN <<s[i]>> \o f[i - 1] ELSE f[i - 1]
      <3>1. f[i] = step[<<i, f[i - 1]>>] /\ f[i - 1] \in Seq(Elem)
        <4> HIDE DEF step
        <4>1. i - 1 \in 0..L
          BY <1>1
        <4>2. f[i - 1] \in Seq(Elem)
          BY <2>1, <4>1
        <4> QED
          BY <2>1, <4>2 DEF Computes
      <3> QED
        BY <3>1
    <2> HIDE DEF step
    <2>3. f = [i \in 0..L |-> f[i]] /\ f[0] = <<>>
      BY <2>1 DEF Computes
    <2>4. \A i \in 0..L : i = 0 \/ i \in 1..L
      BY <1>1
    <2>5. IsSo(f)
      BY <2>2, <2>3, <2>4
    <2> QED
      BY <2>5
  <1>4. IsSo(new)
    <2> HIDE DEF IsSo
    <2> QED
      BY <1>3
  <1>5. Rehash(s, n, b) = new[L]
    BY DEF Rehash, L
  <1> HIDE DEF new
  <1>6. /\ new[0] = <<>>
        /\ \A i \in 1..L : new[i] = IF ToBkt(s[i], n) = b THEN <<s[i]>> \o new[i - 1]
                             ELSE new[i - 1]
    <2>1. 0 \in 0..L /\ \A i \in 1..L : i \in 0..L /\ i # 0
      BY <1>1
    <2> QED
      BY <1>4, <2>1
  <1> DEFINE Good(q, i) == /\ q \in Seq(Elem)
                           /\ \A j, k \in DOMAIN q : q[j] = q[k] => j = k
                           /\ \A e : e \in Range(q) <=>
                                \E j \in 1..i : e = s[j] /\ ToBkt(s[j], n) = b
             S == {i \in Nat : i <= L => Good(new[i], i)}
  <1>7. 0 \in S
    <2>1. Good(<<>>, 0)
      BY DEF Range
    <2> HIDE DEF Good
    <2> QED
      BY <1>6, <2>1
  <1>8. ASSUME NEW i \in Nat, i \in S PROVE i + 1 \in S
    <2> SUFFICES ASSUME i + 1 <= L PROVE Good(new[i + 1], i + 1)
      OBVIOUS
    <2> DEFINE q == new[i]
               e == s[i + 1]
    <2>1. Good(q, i)
      BY <1>1, <1>8
    <2>2. i + 1 \in 1..L /\ (i + 1) - 1 = i /\ e \in Elem
      BY <1>1
    <2>3. new[i + 1] = IF ToBkt(e, n) = b THEN <<e>> \o q ELSE q
      BY <1>6, <2>2
    <2> HIDE DEF q
    <2>4. CASE ToBkt(e, n) = b
      <3> DEFINE r == <<e>> \o q
                 M == Len(q)
      <3>1. M \in Nat /\ DOMAIN q = 1..M
        BY <2>1
      <3>2. /\ r \in Seq(Elem) /\ DOMAIN r = 1..(M + 1)
            /\ r[1] = e /\ \A j \in 2..(M + 1) : r[j] = q[j - 1] /\ j - 1 \in 1..M
        <4>1. /\ r \in Seq(Elem) /\ Len(r) = M + 1
              /\ \A j \in 1..(M + 1) : r[j] = IF j = 1 THEN e ELSE q[j - 1]
          BY <2>1, <2>2, ConcatOne
        <4> HIDE DEF r, M, e
        <4> QED
          BY <3>1, <4>1
      <3> HIDE DEF r, M
      <3>3. e \notin Range(q)
        <4>1. ASSUME NEW j \in 1..i PROVE s[j] # e
          BY <1>1, <2>2
        <4> QED
          BY <2>1, <4>1
      <3>4. \A j \in 1..(M + 1) : j = 1 \/ j \in 2..(M + 1)
        BY <3>1
      <3>5. \A j \in 2..(M + 1) : r[j] # e
        BY <3>1, <3>2, <3>3 DEF Range
      <3>6. ASSUME NEW j \in DOMAIN r, NEW k \in DOMAIN r, r[j] = r[k] PROVE j = k
        <4>1. CASE j \in 2..(M + 1) /\ k \in 2..(M + 1)
          <5>1. /\ j - 1 \in DOMAIN q /\ k - 1 \in DOMAIN q
                /\ r[j] = q[j - 1] /\ r[k] = q[k - 1]
            BY <3>1, <3>2, <4>1
          <5>2. j - 1 = k - 1
            BY <2>1, <3>6, <5>1
          <5> QED
            BY <3>1, <4>1, <5>2
        <4> QED
          BY <3>2, <3>4, <3>5, <3>6, <4>1
      <3>7. \A x : x \in Range(r) <=> x = e \/ x \in Range(q)
        <4>1. ASSUME NEW j \in 1..M PROVE q[j] = r[j + 1] /\ j + 1 \in DOMAIN r
          <5>1. j + 1 \in 2..(M + 1) /\ (j + 1) - 1 = j /\ j + 1 \in 1..(M + 1)
            BY <3>1
          <5> QED
            BY <3>2, <5>1
        <4>2. 1 \in DOMAIN r /\ r[1] = e
          BY <3>1, <3>2
        <4>3. \A j \in DOMAIN r : r[j] = e \/ \E k \in DOMAIN q : r[j] = q[k]
          BY <3>1, <3>2, <3>4
        <4> QED
          BY <3>1, <4>1, <4>2, <4>3 DEF Range
      <3>8. \A x : x \in Range(r) <=> \E j \in 1..(i + 1) : x = s[j] /\ ToBkt(s[j], n) = b
        <4>1. \A j \in 1..(i + 1) : j = i + 1 \/ j \in 1..i
          OBVIOUS
        <4>2. i + 1 \in 1..(i + 1) /\ \A j \in 1..i : j \in 1..(i + 1)
          OBVIOUS
        <4> QED
          BY <2>1, <2>4, <3>7, <4>1, <4>2
      <3> QED
        BY <2>3, <2>4, <3>2, <3>6, <3>8 DEF r
    <2>5. CASE ToBkt(e, n) # b
      <3>1. \A x : x \in Range(q) <=> \E j \in 1..(i + 1) : x = s[j] /\ ToBkt(s[j], n) = b
        <4>1. \A j \in 1..(i + 1) : j = i + 1 \/ j \in 1..i
          OBVIOUS
        <4>2. \A j \in 1..i : j \in 1..(i + 1)
          OBVIOUS
        <4> QED
          BY <2>1, <2>5, <4>1, <4>2
      <3> QED
        BY <2>1, <2>3, <2>5, <3>1
    <2> QED
      BY <2>4, <2>5
  <1>9. Good(new[L], L)
    <2>1. \A i \in Nat : i \in S => i + 1 \in S
      BY <1>8
    <2>2. \A i \in Nat : i \in S
      <3> HIDE DEF S
      <3> QED
        BY <1>7, <2>1, Counting
    <2> HIDE DEF Good
    <2> QED
      BY <1>1, <2>2
  <1>10. Range(new[L]) = {e \in Range(s) : ToBkt(e, n) = b}
    <2>1. \A e : e \in Range(new[L]) <=> \E j \in 1..L : e = s[j] /\ ToBkt(s[j], n) = b
      BY <1>9
    <2>2. \A e : e \in Range(s) <=> \E j \in 1..L : e = s[j]
      BY <1>1 DEF Range
    <2> QED
      BY <2>1, <2>2
  <1> QED
    BY <1>5, <1>9, <1>10 DEF IsDealt

----------------------------------------------------------------------------
(* The multiplier of a new bucket. *)

LEMMA OneMore ==
  ASSUME NEW i \in Nat, NEW m \in Nat, NEW ideal \in Nat, ideal > 0, i <= (m + 1) * ideal
  PROVE  i + 1 <= (m + 1 + 1) * ideal
  BY SMT

(* It covers the length of the chain (src/uthash.h 869-874).               *)
LEMMA MultCovers ==
  ASSUME NEW n \in Nat, NEW ideal \in Nat, ideal > 0
  PROVE  /\ ExpandMult(n, ideal) \in Nat
         /\ n <= (ExpandMult(n, ideal) + 1) * ideal
  <1> DEFINE Turn(i, m) == IF i > ideal /\ i > m * ideal THEN m + 1 ELSE m
             step == [p \in (1..n) \X Nat |-> Turn(p[1], p[2])]
             IsSo(f) == f = [i \in 0..n |-> IF i = 0 THEN 0
                              ELSE LET m == f[i - 1]
                                   IN  IF i > ideal /\ i > m * ideal THEN m + 1 ELSE m]
             mult == CHOOSE f : IsSo(f)
  <1>1. step \in [(1..n) \X Nat -> Nat]
    OBVIOUS
  <1>2. \E f : IsSo(f)
    <2>1. PICK f \in [0..n -> Nat] : Computes(f, 0, n, step)
      <3> HIDE DEF step
      <3> QED
        BY <1>1, StepByStep
    <2>2. ASSUME NEW i \in 1..n PROVE f[i] = Turn(i, f[i - 1])
      <3>1. f[i] = step[<<i, f[i - 1]>>] /\ f[i - 1] \in Nat
        <4> HIDE DEF step
        <4> QED
          BY <2>1 DEF Computes
      <3> QED
        BY <3>1
    <2> HIDE DEF step
    <2>3. f = [i \in 0..n |-> f[i]] /\ f[0] = 0
      BY <2>1 DEF Computes
    <2>4. \A i \in 0..n : i = 0 \/ i \in 1..n
      OBVIOUS
    <2>5. IsSo(f)
      BY <2>2, <2>3, <2>4
    <2> QED
      BY <2>5
  <1>3. IsSo(mult)
    <2> HIDE DEF IsSo
    <2> QED
      BY <1>2
  <1>4. ExpandMult(n, ideal) = mult[n]
    BY DEF ExpandMult
  <1> HIDE DEF mult
  <1>5. mult[0] = 0 /\ \A i \in 1..n : mult[i] = Turn(i, mult[i - 1])
    <2>1. 0 \in 0..n /\ \A i \in 1..n : i \in 0..n /\ i # 0
      OBVIOUS
    <2> QED
      BY <1>3, <2>1
  <1> DEFINE Good(m, i) == m \in Nat /\ i <= (m + 1) * ideal
             S == {i \in Nat : i <= n => Good(mult[i], i)}
  <1>6. 0 \in S
    BY <1>5
  <1>7. ASSUME NEW i \in Nat, i \in S PROVE i + 1 \in S
    <2> SUFFICES ASSUME i + 1 <= n PROVE Good(mult[i + 1], i + 1)
      OBVIOUS
    <2> DEFINE m == mult[i]
    <2>1. Good(m, i)
      BY <1>7
    <2>2. mult[i + 1] = Turn(i + 1, m)
      <3>1. i + 1 \in 1..n /\ (i + 1) - 1 = i
        OBVIOUS
      <3> HIDE DEF Turn
      <3> QED
        BY <1>5, <3>1
    <2> HIDE DEF m
    <2>3. CASE i + 1 > ideal /\ i + 1 > m * ideal
      BY <2>1, <2>2, <2>3, OneMore
    <2>4. CASE ~(i + 1 > ideal /\ i + 1 > m * ideal)
      <3>1. m * ideal \in Nat /\ (m + 1) * ideal = m * ideal + ideal
        BY <2>1, SMT
      <3>2. i + 1 <= (m + 1) * ideal
        BY <3>1, <2>4, SMT
      <3> QED
        BY <2>1, <2>2, <2>4, <3>2
    <2> QED
      BY <2>3, <2>4
  <1>8. Good(mult[n], n)
    <2>1. \A i \in Nat : i \in S => i + 1 \in S
      BY <1>7
    <2>2. \A i \in Nat : i \in S
      <3> HIDE DEF S
      <3> QED
        BY <1>6, <2>1, Counting
    <2> HIDE DEF Good
    <2> QED
      BY <2>2
  <1> QED
    BY <1>4, <1>8

----------------------------------------------------------------------------
(* Handles. *)

LEMMA FieldsOf ==
  ASSUME NEW D \in SUBSET Elem, NEW links \in [D -> Handle]
  PROVE  /\ Field(links, "next") \in [D -> Pointer]
         /\ Field(links, "hh_next") \in [D -> Pointer]
         /\ \A e \in D : /\ Field(links, "prev")[e] = links[e].prev
                         /\ Field(links, "next")[e] = links[e].next
                         /\ Field(links, "hh_prev")[e] = links[e].hh_prev
                         /\ Field(links, "hh_next")[e] = links[e].hh_next
                         /\ links[e] \in Handle
  <1>1. \A e \in D : links[e] \in Handle
    OBVIOUS
  <1>2. \A e \in D : /\ links[e]["prev"] = links[e].prev
                     /\ links[e]["next"] = links[e].next
                     /\ links[e]["hh_prev"] = links[e].hh_prev
                     /\ links[e]["hh_next"] = links[e].hh_next
    BY <1>1 DEF Handle
  <1>3. \A e \in D : links[e].next \in Pointer /\ links[e].hh_next \in Pointer
    BY <1>1 DEF Handle
  <1> QED
    BY <1>1, <1>2, <1>3 DEF Field

(* The elements s are linked, from first on, in the order of insertion.    *)
IsOrder(s, links, first) == IsList(s, Field(links, "next"), Field(links, "prev"), first)

(* They are linked as the chain of a bucket.                               *)
IsChain(s, links, first) == IsList(s, Field(links, "hh_next"), Field(links, "hh_prev"), first)

First(s) == IF s = <<>> THEN NULL ELSE s[1]

LEMMA ElementsOfRange ==
  ASSUME NEW s, NEW x, x \in Range(s) PROVE \E i \in DOMAIN s : x = s[i]
  BY DEF Range

(* The chain c is what the elements D have of bucket b of n. *)
IsShare(c, D, n, b) ==
  /\ c \in Seq(Elem)
  /\ \A i, j \in DOMAIN c : c[i] = c[j] => i = j
  /\ Range(c) = {e \in D : ToBkt(e, n) = b}

(* The links l2 are the links l of the handles D, chained anew. *)
Relinked(l2, l, D, chain, B) ==
  /\ l2 \in [D -> Handle]
  /\ \A e \in D : l2[e].prev = l[e].prev /\ l2[e].next = l[e].next
  /\ \A b \in B : IsChain(chain[b], l2, First(chain[b]))

(* Rechaining links every chain and leaves the order of insertion          *)
(* (src/uthash.h 875-881).                                                 *)
LEMMA RechainLinks ==
  ASSUME NEW D \in SUBSET Elem, NEW l \in [D -> Handle], NEW B, NEW chain, NEW n,
         \A b \in B : IsShare(chain[b], D, n, b),
         \A e \in D : ToBkt(e, n) \in B
  PROVE  Relinked(Rechain(l, chain, n), l, D, chain, B)
  <1> DEFINE l2 == Rechain(l, chain, n)
             At(c, e) == CHOOSE j \in DOMAIN c : c[j] = e
             Links(e, c, i) == [l[e] EXCEPT !.hh_prev = IF i > 1 THEN c[i - 1] ELSE NULL,
                                            !.hh_next = IF i < Len(c) THEN c[i + 1] ELSE NULL]
  <1>1. l2 = [e \in D |-> Links(e, chain[ToBkt(e, n)], At(chain[ToBkt(e, n)], e))]
    BY DEF Rechain
  <1> HIDE DEF l2
  <1>2. ASSUME NEW b \in B, NEW i \in DOMAIN chain[b]
        PROVE  /\ chain[b][i] \in D /\ ToBkt(chain[b][i], n) = b
               /\ At(chain[b], chain[b][i]) = i
               /\ l2[chain[b][i]] = Links(chain[b][i], chain[b], i)
    <2>1. chain[b][i] \in Range(chain[b])
      BY DEF Range
    <2>2. chain[b][i] \in D /\ ToBkt(chain[b][i], n) = b
      BY <2>1 DEF IsShare
    <2>3. At(chain[b], chain[b][i]) = i
      BY DEF IsShare
    <2> HIDE DEF At, Links
    <2> QED
      BY <1>1, <2>2, <2>3
  <1>3. ASSUME NEW e \in D
        PROVE  \E b \in B : \E i \in DOMAIN chain[b] : e = chain[b][i]
    <2>1. e \in Range(chain[ToBkt(e, n)])
      BY DEF IsShare
    <2> QED
      BY <2>1, ElementsOfRange
  <1>4. ASSUME NEW b \in B, NEW i \in DOMAIN chain[b]
        PROVE  /\ i \in 1..Len(chain[b]) /\ Len(chain[b]) \in Nat
               /\ i > 1 => chain[b][i - 1] \in Elem
               /\ i < Len(chain[b]) => chain[b][i + 1] \in Elem
    BY DEF IsShare
  <1>5. ASSUME NEW b \in B, NEW i \in DOMAIN chain[b], NEW e \in D, e = chain[b][i]
        PROVE  /\ l2[e] \in Handle
               /\ l2[e].prev = l[e].prev /\ l2[e].next = l[e].next
               /\ l2[e].hh_prev = IF i > 1 THEN chain[b][i - 1] ELSE NULL
               /\ l2[e].hh_next = IF i < Len(chain[b]) THEN chain[b][i + 1] ELSE NULL
    <2> DEFINE p == IF i > 1 THEN chain[b][i - 1] ELSE NULL
               q == IF i < Len(chain[b]) THEN chain[b][i + 1] ELSE NULL
    <2>1. p \in Pointer /\ q \in Pointer
      BY <1>4 DEF Pointer
    <2>2. l2[e] = [l[e] EXCEPT !.hh_prev = p, !.hh_next = q]
      BY <1>2, <1>5
    <2> HIDE DEF p, q
    <2>3. l[e] \in Handle
      OBVIOUS
    <2>4. /\ l2[e] \in Handle
          /\ l2[e].prev = l[e].prev /\ l2[e].next = l[e].next
          /\ l2[e].hh_prev = p /\ l2[e].hh_next = q
      BY <2>1, <2>2, <2>3 DEF Handle
    <2> QED
      BY <2>4 DEF p, q
  <1>6. l2 \in [D -> Handle]
    <2>1. \A e \in D : l2[e] \in Handle
      BY <1>3, <1>5
    <2>2. DOMAIN l2 = D /\ l2 = [e \in D |-> l2[e]]
      <3> HIDE DEF At, Links
      <3> QED
        BY <1>1
    <2> QED
      BY <2>1, <2>2
  <1>7. \A e \in D : l2[e].prev = l[e].prev /\ l2[e].next = l[e].next
    BY <1>3, <1>5
  <1>8. ASSUME NEW b \in B PROVE IsChain(chain[b], l2, First(chain[b]))
    <2> DEFINE to == Field(l2, "hh_next")
               back == Field(l2, "hh_prev")
    <2>1. /\ DOMAIN to = D
          /\ \A e \in D : to[e] = l2[e].hh_next /\ back[e] = l2[e].hh_prev
      BY <1>6, FieldsOf
    <2> HIDE DEF to, back
    <2>2. ASSUME NEW i \in DOMAIN chain[b]
          PROVE  /\ chain[b][i] \in DOMAIN to
                 /\ to[chain[b][i]] = IF i < Len(chain[b]) THEN chain[b][i + 1] ELSE NULL
                 /\ back[chain[b][i]] = IF i > 1 THEN chain[b][i - 1] ELSE NULL
      <3> DEFINE e == chain[b][i]
      <3>1. e \in D
        BY <1>2
      <3>2. /\ l2[e].hh_prev = IF i > 1 THEN chain[b][i - 1] ELSE NULL
            /\ l2[e].hh_next = IF i < Len(chain[b]) THEN chain[b][i + 1] ELSE NULL
        BY <3>1, <1>5
      <3> HIDE DEF e
      <3>3. /\ e \in DOMAIN to
            /\ to[e] = IF i < Len(chain[b]) THEN chain[b][i + 1] ELSE NULL
            /\ back[e] = IF i > 1 THEN chain[b][i - 1] ELSE NULL
        BY <2>1, <3>1, <3>2
      <3> QED
        BY <3>3 DEF e
    <2>3. IsList(chain[b], to, back, First(chain[b]))
      BY <2>2 DEF IsList, IsShare, First
    <2> QED
      BY <2>3 DEF IsChain, to, back
  <1> QED
    BY <1>6, <1>7, <1>8 DEF Relinked, l2

----------------------------------------------------------------------------
(* Buckets. *)

(* The handles of D and of no other element are linked in bucket b as the  *)
(* chain c.                                                                *)
BucketHolds(c, t, links, D, b) ==
  /\ IsShare(c, D, t.num_buckets, b)
  /\ IsChain(c, links, t.buckets[b].hh_head)
  /\ t.buckets[b].count = Len(c)

Chained(t, links, D) ==
  \A b \in DOMAIN t.buckets : BucketHolds(Chain(t, links, b), t, links, D, b)

Bounded(t) ==
  t.noexpand = 0 =>
    \A b \in DOMAIN t.buckets :
      LET bucket == t.buckets[b]
      IN  \/ bucket.count < (bucket.expand_mult + 1) * HASH_BKT_CAPACITY_THRESH
          \/ bucket.count <= (bucket.expand_mult + 1) * t.ideal_chain_maxlen

LEMMA ChainIs ==
  ASSUME NEW D \in SUBSET Elem, NEW links \in [D -> Handle], NEW t, NEW E, NEW b, NEW c,
         BucketHolds(c, t, links, E, b)
  PROVE  Chain(t, links, b) = c /\ BucketHolds(Chain(t, links, b), t, links, E, b)
  <1>1. Field(links, "hh_next") \in [D -> Pointer]
    BY FieldsOf
  <1>2. Chain(t, links, b) = c
    BY <1>1, WalkOfList DEF BucketHolds, IsChain, Chain
  <1> QED
    BY <1>2

LEMMA KeyHashed ==
  ASSUME hash \in [Key -> Nat], NEW e \in Elem, NEW n \in Nat, n > 0
  PROVE  /\ ToBkt(e, n) \in 0..(n - 1)
         /\ ToBkt(e, 2 * n) \in 0..(2 * n - 1)
         /\ ToBkt(e, 2 * n) % n = ToBkt(e, n)
  <1> DEFINE h == hash[KeyOf[e]]
  <1>1. h \in Nat /\ 2 * n \in Nat /\ 2 * n > 0
    BY UtHashAssumption
  <1> HIDE DEF h
  <1>2. h % n \in 0..(n - 1) /\ h % (2 * n) \in 0..(2 * n - 1)
    BY <1>1, DivMod
  <1>3. (h % (2 * n)) % n = h % n
    BY <1>1, ModTwice
  <1> QED
    BY <1>2, <1>3 DEF ToBkt, h

LEMMA IdealPositive ==
  ASSUME NEW items \in Nat, items > 0, NEW m \in Nat, m > 0
  PROVE  LET ideal == items \div m + (IF items % m # 0 THEN 1 ELSE 0)
         IN  ideal \in Nat /\ ideal > 0
  <1>1. items % m \in 0..(m - 1) /\ items \div m \in Nat /\ items = m * (items \div m) + (items % m)
    BY DivMod
  <1>2. items % m = 0 => items \div m # 0
    <2> DEFINE q == items \div m
               r == items % m
    <2>1. q \in Nat /\ items = m * q + r
      BY <1>1
    <2> HIDE DEF q, r
    <2>2. r = 0 => q # 0
      BY <2>1, SMT
    <2> QED
      BY <2>2 DEF q, r
  <1> QED
    BY <1>1, <1>2

(* The chains of twice as many buckets (src/uthash.h 863-883).             *)
LEMMA NewChainHolds ==
  ASSUME NEW D \in SUBSET Elem, NEW links \in [D -> Handle],
         NEW n \in Nat, n > 0, NEW t \in Table(n), hash \in [Key -> Nat],
         Chained(t, links, D), NEW b \in 0..(2 * n - 1)
  PROVE  IsShare(NewChain(t, links, b), D, 2 * n, b)
  <1> DEFINE a == b % n
             c == Chain(t, links, a)
             d == NewChain(t, links, b)
  <1>1. t.num_buckets = n /\ DOMAIN t.buckets = 0..(n - 1)
    BY DEF Table
  <1>2. a \in 0..(n - 1)
    <2>1. b \in Nat
      OBVIOUS
    <2> QED
      BY <2>1, DivMod
  <1>3. d = Rehash(c, 2 * n, b)
    BY <1>1 DEF NewChain
  <1> HIDE DEF a, c, d
  <1>4. IsShare(c, D, n, a)
    BY <1>1, <1>2 DEF Chained, BucketHolds, c
  <1>5. IsDealt(d, c, 2 * n, b)
    BY <1>3, <1>4, RehashDeals DEF IsShare
  <1>6. \A e \in D : ToBkt(e, 2 * n) = b => ToBkt(e, n) = a
    BY KeyHashed DEF a
  <1>7. Range(d) = {e \in D : ToBkt(e, 2 * n) = b}
    BY <1>4, <1>5, <1>6 DEF IsShare, IsDealt
  <1>8. IsShare(d, D, 2 * n, b)
    BY <1>5, <1>7 DEF IsShare, IsDealt
  <1> QED
    BY <1>8 DEF d

(* The buckets are right and in their bounds, and the order of insertion   *)
(* is the one of the handles l, the table otherwise t.                     *)
BucketsRight(t2, l2, t, l, D) ==
  /\ t2.num_buckets \in Nat /\ t2.num_buckets > 0 /\ t2 \in Table(t2.num_buckets)
  /\ l2 \in [D -> Handle]
  /\ \A x \in D : l2[x].prev = l[x].prev /\ l2[x].next = l[x].next
  /\ Chained(t2, l2, D)
  /\ Bounded(t2)
  /\ t2.num_items = t.num_items /\ t2.tail = t.tail

(* Expansion keeps what the buckets hold (src/uthash.h 846-896).           *)
LEMMA Expanded ==
  ASSUME NEW D \in SUBSET Elem, NEW links \in [D -> Handle],
         NEW n \in Nat, n > 0, NEW t \in Table(n), hash \in [Key -> Nat],
         t.num_items > 0, Chained(t, links, D), ExpandBuckets(t, links)
  PROVE  BucketsRight(tbl', hh', t, links, D)
  <1> DEFINE m == 2 * n
             chain == [b \in 0..(m - 1) |-> NewChain(t, links, b)]
             ideal == t.num_items \div m + (IF t.num_items % m # 0 THEN 1 ELSE 0)
             ineff == IF NonidealItems(chain, ideal) > t.num_items \div 2
                        THEN t.ineff_expands + 1 ELSE 0
             fresh == [b \in 0..(m - 1) |->
                         [hh_head |-> IF chain[b] = <<>> THEN NULL ELSE chain[b][1],
                          count |-> Len(chain[b]),
                          expand_mult |-> ExpandMult(Len(chain[b]), ideal)]]
  <1>1. m \in Nat /\ m > 0 /\ t.num_buckets = n /\ t.num_items \in Nat
    BY DEF Table
  <1>2. ideal \in Nat /\ ideal > 0
    BY <1>1, IdealPositive
  <1>3. /\ tbl' = [t EXCEPT !.num_buckets = m, !.ideal_chain_maxlen = ideal,
                            !.ineff_expands = ineff,
                            !.noexpand = IF ineff > 1 THEN 1 ELSE @,
                            !.buckets = fresh]
        /\ hh' = Rechain(links, chain, m)
    BY <1>1 DEF ExpandBuckets
  <1>4. \A b \in 0..(m - 1) : IsShare(chain[b], D, m, b)
    BY NewChainHolds
  <1>5. \A e \in D : ToBkt(e, m) \in 0..(m - 1)
    BY KeyHashed
  <1>6. ineff \in Nat
    BY DEF Table
  <1> HIDE DEF chain, ideal, ineff, m
  <1>7. /\ hh' \in [D -> Handle]
        /\ \A e \in D : hh'[e].prev = links[e].prev /\ hh'[e].next = links[e].next
        /\ \A b \in 0..(m - 1) : IsChain(chain[b], hh', First(chain[b]))
    <2>1. Relinked(Rechain(links, chain, m), links, D, chain, 0..(m - 1))
      BY <1>4, <1>5, RechainLinks
    <2> QED
      BY <1>3, <2>1 DEF Relinked
  <1>8. ASSUME NEW b \in 0..(m - 1)
        PROVE  /\ fresh[b] \in Bucket
               /\ fresh[b].hh_head = First(chain[b])
               /\ fresh[b].count = Len(chain[b])
               /\ fresh[b].count <= (fresh[b].expand_mult + 1) * ideal
    <2>1. chain[b] \in Seq(Elem)
      BY <1>4 DEF IsShare
    <2>2. First(chain[b]) \in Pointer /\ Len(chain[b]) \in Nat
      BY <2>1 DEF First, Pointer
    <2>3. /\ ExpandMult(Len(chain[b]), ideal) \in Nat
          /\ Len(chain[b]) <= (ExpandMult(Len(chain[b]), ideal) + 1) * ideal
      BY <1>2, <2>2, MultCovers
    <2>4. /\ fresh[b].hh_head = First(chain[b])
          /\ fresh[b].count = Len(chain[b])
          /\ fresh[b].expand_mult = ExpandMult(Len(chain[b]), ideal)
      BY DEF First
    <2>5. fresh[b] \in Bucket
      BY <2>2, <2>3 DEF Bucket, First
    <2> HIDE DEF fresh
    <2> QED
      BY <2>3, <2>4, <2>5
  <1>9. DOMAIN fresh = 0..(m - 1) /\ fresh \in [0..(m - 1) -> Bucket]
    <2>1. fresh = [b \in 0..(m - 1) |-> fresh[b]]
      OBVIOUS
    <2> HIDE DEF fresh
    <2> QED
      BY <1>8, <2>1
  <1> HIDE DEF fresh
  <1>10. /\ tbl' \in Table(m)
         /\ tbl'.num_buckets = m /\ tbl'.buckets = fresh /\ tbl'.ideal_chain_maxlen = ideal
         /\ tbl'.num_items = t.num_items /\ tbl'.tail = t.tail
    BY <1>1, <1>2, <1>3, <1>6, <1>9 DEF Table
  <1>11. ASSUME NEW b \in 0..(m - 1) PROVE BucketHolds(chain[b], tbl', hh', D, b)
    BY <1>4, <1>7, <1>8, <1>10 DEF BucketHolds
  <1>12. Chained(tbl', hh', D)
    BY <1>7, <1>9, <1>10, <1>11, ChainIs DEF Chained
  <1>13. Bounded(tbl')
    BY <1>8, <1>9, <1>10 DEF Bounded
  <1> QED
    BY <1>1, <1>7, <1>10, <1>12, <1>13 DEF BucketsRight

----------------------------------------------------------------------------
(* Adding. *)

(* t1 and l1 are the table t and the handles l of D once e is first in its *)
(* chain.                                                                  *)
PutInFront(t1, l1, t, l, D, e, n) ==
  LET b == ToBkt(e, n)
      first == t.buckets[b].hh_head
  IN  /\ t1 \in Table(n)
      /\ t1.num_items = t.num_items /\ t1.tail = t.tail
      /\ t1.noexpand = t.noexpand /\ t1.ideal_chain_maxlen = t.ideal_chain_maxlen
      /\ t1.buckets[b].hh_head = e
      /\ t1.buckets[b].count = t.buckets[b].count + 1
      /\ \A a \in 0..(n - 1) : a # b => t1.buckets[a] = t.buckets[a]
      /\ l1 \in [D -> Handle]
      /\ \A x \in D :
           /\ l1[x].prev = l[x].prev /\ l1[x].next = l[x].next
           /\ l1[x].hh_next = IF x = e THEN first ELSE l[x].hh_next
           /\ l1[x].hh_prev = IF x # e /\ x = first THEN e ELSE l[x].hh_prev

LEMMA InFront ==
  ASSUME NEW D \in SUBSET Elem, NEW l \in [D -> Handle], NEW e \in D,
         NEW n \in Nat, n > 0, NEW t \in Table(n), hash \in [Key -> Nat],
         NEW b, b = ToBkt(e, n), NEW first, first = t.buckets[b].hh_head,
         NEW t1, t1 = [t EXCEPT !.buckets[b].hh_head = e, !.buckets[b].count = @ + 1],
         NEW l1, l1 = [x \in DOMAIN l |->
                         IF x = e THEN [l[x] EXCEPT !.hh_next = first]
                         ELSE IF x = first THEN [l[x] EXCEPT !.hh_prev = e] ELSE l[x]]
  PROVE  PutInFront(t1, l1, t, l, D, e, n)
  <1>1. b \in 0..(n - 1)
    BY KeyHashed
  <1>2. t.buckets \in [0..(n - 1) -> Bucket] /\ t.buckets[b] \in Bucket
    BY <1>1 DEF Table
  <1>3. first \in Pointer /\ e \in Pointer /\ t.buckets[b].count + 1 \in Nat
    BY <1>2 DEF Bucket, Pointer
  <1> DEFINE bk == [t.buckets[b] EXCEPT !.hh_head = e, !.count = @ + 1]
             bs == [t.buckets EXCEPT ![b] = bk]
  <1>4. bk \in Bucket /\ bk.hh_head = e /\ bk.count = t.buckets[b].count + 1
    BY <1>2, <1>3 DEF Bucket
  <1>5. t1 = [t EXCEPT !.buckets = bs]
    BY <1>1, <1>2 DEF Table, Bucket
  <1> HIDE DEF bk
  <1>6. /\ bs \in [0..(n - 1) -> Bucket] /\ bs[b] = bk
        /\ \A a \in 0..(n - 1) : a # b => bs[a] = t.buckets[a]
    BY <1>1, <1>2, <1>4
  <1> HIDE DEF bs
  <1>7. /\ t1 \in Table(n) /\ t1.buckets = bs
        /\ t1.num_items = t.num_items /\ t1.tail = t.tail
        /\ t1.noexpand = t.noexpand /\ t1.ideal_chain_maxlen = t.ideal_chain_maxlen
    BY <1>5, <1>6 DEF Table
  <1>8. ASSUME NEW x \in D
        PROVE  /\ l1[x] \in Handle
               /\ l1[x].prev = l[x].prev /\ l1[x].next = l[x].next
               /\ l1[x].hh_next = IF x = e THEN first ELSE l[x].hh_next
               /\ l1[x].hh_prev = IF x # e /\ x = first THEN e ELSE l[x].hh_prev
    <2>1. l[x] \in Handle
      OBVIOUS
    <2>2. l1[x] = IF x = e THEN [l[x] EXCEPT !.hh_next = first]
                  ELSE IF x = first THEN [l[x] EXCEPT !.hh_prev = e] ELSE l[x]
      OBVIOUS
    <2> QED
      BY <1>3, <2>1, <2>2 DEF Handle
  <1>9. l1 \in [D -> Handle]
    <2>1. DOMAIN l1 = D /\ l1 = [x \in D |-> l1[x]]
      OBVIOUS
    <2> QED
      BY <1>8, <2>1
  <1>10. /\ t1.buckets[b].hh_head = e
         /\ t1.buckets[b].count = t.buckets[b].count + 1
         /\ \A a \in 0..(n - 1) : a # b => t1.buckets[a] = t.buckets[a]
    BY <1>4, <1>6, <1>7
  <1>11. \A x \in D :
           /\ l1[x].prev = l[x].prev /\ l1[x].next = l[x].next
           /\ l1[x].hh_next = IF x = e THEN first ELSE l[x].hh_next
           /\ l1[x].hh_prev = IF x # e /\ x = first THEN e ELSE l[x].hh_prev
    BY <1>8
  <1>12. ToBkt(e, n) = b /\ t.buckets[b].hh_head = first
    OBVIOUS
  <1> QED
    BY ONLY <1>7, <1>9, <1>10, <1>11, <1>12 DEF PutInFront

LEMMA FrontChained ==
  ASSUME NEW D \in SUBSET Elem, NEW l \in [D -> Handle], NEW e \in D, l[e].hh_prev = NULL,
         NEW n \in Nat, n > 0, NEW t \in Table(n), hash \in [Key -> Nat],
         Chained(t, l, D \ {e}), NEW t1, NEW l1, PutInFront(t1, l1, t, l, D, e, n)
  PROVE  Chained(t1, l1, D)
  <1> DEFINE b == ToBkt(e, n)
             first == t.buckets[b].hh_head
             c(a) == Chain(t, l, a)
  <1>1. /\ b \in 0..(n - 1) /\ t.num_buckets = n /\ DOMAIN t.buckets = 0..(n - 1)
        /\ t1.num_buckets = n /\ DOMAIN t1.buckets = 0..(n - 1)
    BY KeyHashed DEF Table, PutInFront
  <1>2. \A a \in 0..(n - 1) : BucketHolds(c(a), t, l, D \ {e}, a)
    BY <1>1 DEF Chained
  <1>3. /\ t1.buckets[b].hh_head = e
        /\ t1.buckets[b].count = t.buckets[b].count + 1
        /\ \A a \in 0..(n - 1) : a # b => t1.buckets[a] = t.buckets[a]
        /\ l1 \in [D -> Handle]
        /\ \A x \in D :
             /\ l1[x].hh_next = IF x = e THEN first ELSE l[x].hh_next
             /\ l1[x].hh_prev = IF x # e /\ x = first THEN e ELSE l[x].hh_prev
    BY DEF PutInFront
  <1> DEFINE to == Field(l, "hh_next")
             back == Field(l, "hh_prev")
             to1 == Field(l1, "hh_next")
             back1 == Field(l1, "hh_prev")
  <1> HIDE DEF b, first, c
  <1>4. /\ DOMAIN to1 = D
        /\ \A x \in D : to[x] = l[x].hh_next /\ back[x] = l[x].hh_prev
        /\ \A x \in D : to1[x] = l1[x].hh_next /\ back1[x] = l1[x].hh_prev
    BY <1>3, FieldsOf
  <1> HIDE DEF to, back, to1, back1
  <1>5. ASSUME NEW a \in 0..(n - 1)
        PROVE  /\ IsShare(c(a), D \ {e}, n, a)
               /\ IsList(c(a), to, back, t.buckets[a].hh_head)
               /\ t.buckets[a].count = Len(c(a)) /\ Len(c(a)) \in Nat
               /\ Range(c(a)) = {x \in D \ {e} : ToBkt(x, n) = a}
    BY <1>1, <1>2 DEF BucketHolds, IsChain, IsShare, to, back
  <1>6. BucketHolds(<<e>> \o c(b), t1, l1, D, b)
    <2>1. IsList(c(b), to, back, first)
      BY <1>1, <1>5 DEF first
    <2>2. \A x \in Range(c(b)) : x \in D /\ x # e
      BY <1>1, <1>5
    <2>3. to1[e] = first /\ back1[e] = NULL /\ e \in DOMAIN to1
      BY <1>3, <1>4
    <2>4. \A x \in Range(c(b)) : /\ x \in DOMAIN to1 /\ to1[x] = to[x]
                                 /\ back1[x] = IF x = first THEN e ELSE back[x]
      BY <1>3, <1>4, <2>2
    <2>5. /\ IsList(<<e>> \o c(b), to1, back1, e)
          /\ Range(<<e>> \o c(b)) = Range(c(b)) \cup {e}
      BY <2>1, <2>2, <2>3, <2>4, ListPush
    <2>6. c(b) \in Seq(Elem) /\ Len(<<e>> \o c(b)) = Len(c(b)) + 1
      BY <1>1, <1>5, ConcatOne DEF IsShare
    <2>7. Range(<<e>> \o c(b)) = {x \in D : ToBkt(x, n) = b}
      BY <1>1, <1>5, <2>5 DEF b
    <2>8. IsShare(<<e>> \o c(b), D, n, b)
      BY <2>5, <2>7 DEF IsShare, IsList
    <2>9. IsChain(<<e>> \o c(b), l1, e)
      BY <2>5 DEF IsChain, to1, back1
    <2> QED
      BY <1>1, <1>3, <1>5, <2>6, <2>8, <2>9 DEF BucketHolds
  <1>7. ASSUME NEW a \in 0..(n - 1), a # b PROVE BucketHolds(c(a), t1, l1, D, a)
    <2>1. IsList(c(a), to, back, t.buckets[a].hh_head)
      BY <1>5
    <2>2. \A x \in Range(c(a)) : x \in D /\ x # e /\ x # first
      <3>1. ASSUME first # NULL PROVE first \in Range(c(b))
        <4>1. IsList(c(b), to, back, first)
          BY <1>1, <1>5 DEF first
        <4>2. c(b) # <<>> /\ first = c(b)[1] /\ 1 \in DOMAIN c(b)
          BY <3>1, <4>1 DEF IsList
        <4> QED
          BY <4>2 DEF Range
      <3>2. \A x \in Range(c(b)) : ToBkt(x, n) = b
        BY <1>1, <1>5
      <3> QED
        BY <1>5, <1>7, <3>1, <3>2, UtHashAssumption
    <2>3. \A x \in Range(c(a)) : /\ x \in DOMAIN to1
                                 /\ to1[x] = to[x] /\ back1[x] = back[x]
      BY <1>3, <1>4, <2>2
    <2>4. IsList(c(a), to1, back1, t.buckets[a].hh_head)
      BY <2>1, <2>3, ListFrame
    <2>5. Range(c(a)) = {x \in D : ToBkt(x, n) = a}
      BY <1>5, <1>7 DEF b
    <2>6. IsShare(c(a), D, n, a)
      BY <1>5, <2>5 DEF IsShare
    <2>7. IsChain(c(a), l1, t1.buckets[a].hh_head)
      BY <1>3, <1>7, <2>4 DEF IsChain, to1, back1
    <2> QED
      BY <1>1, <1>3, <1>5, <1>7, <2>6, <2>7 DEF BucketHolds
  <1> QED
    <2>1. ASSUME NEW a \in 0..(n - 1) PROVE BucketHolds(Chain(t1, l1, a), t1, l1, D, a)
      <3>1. CASE a = b
        BY <1>3, <1>6, <3>1, ChainIs
      <3>2. CASE a # b
        <4>1. BucketHolds(c(a), t1, l1, D, a)
          BY <1>7, <3>2
        <4> QED
          BY <1>3, <4>1, ChainIs
      <3> QED
        BY <3>1, <3>2
    <2> QED
      BY <1>1, <2>1 DEF Chained

LEMMA AddedToBkt ==
  ASSUME NEW D \in SUBSET Elem, NEW l \in [D -> Handle], NEW e \in D, l[e].hh_prev = NULL,
         NEW n \in Nat, n > 0, NEW t \in Table(n), hash \in [Key -> Nat],
         Chained(t, l, D \ {e}), Bounded(t), t.num_items > 0, AddToBkt(t, l, e)
  PROVE  BucketsRight(tbl', hh', t, l, D)
  <1> DEFINE b == ToBkt(e, n)
             first == t.buckets[b].hh_head
             t1 == [t EXCEPT !.buckets[b].hh_head = e, !.buckets[b].count = @ + 1]
             l1 == [x \in DOMAIN l |->
                      IF x = e THEN [l[x] EXCEPT !.hh_next = first]
                      ELSE IF x = first THEN [l[x] EXCEPT !.hh_prev = e] ELSE l[x]]
             full == t1.buckets[b].count
                       >= (t1.buckets[b].expand_mult + 1) * HASH_BKT_CAPACITY_THRESH
  <1>1. /\ t.num_buckets = n /\ DOMAIN t.buckets = 0..(n - 1)
        /\ t.buckets \in [0..(n - 1) -> Bucket]
    BY DEF Table
  <1>2. IF full /\ t.noexpand = 0 THEN ExpandBuckets(t1, l1) ELSE tbl' = t1 /\ hh' = l1
    BY <1>1 DEF AddToBkt
  <1>3. PutInFront(t1, l1, t, l, D, e, n)
    BY InFront
  <1> HIDE DEF t1, l1
  <1>4. Chained(t1, l1, D)
    BY <1>3, FrontChained
  <1>5. /\ t1 \in Table(n) /\ l1 \in [D -> Handle]
        /\ t1.num_items = t.num_items /\ t1.tail = t.tail
        /\ t1.noexpand = t.noexpand /\ t1.ideal_chain_maxlen = t.ideal_chain_maxlen
        /\ \A x \in D : l1[x].prev = l[x].prev /\ l1[x].next = l[x].next
        /\ \A a \in 0..(n - 1) : a # b => t1.buckets[a] = t.buckets[a]
        /\ t1.num_buckets = n /\ DOMAIN t1.buckets = 0..(n - 1)
        /\ t1.buckets \in [0..(n - 1) -> Bucket]
    BY <1>3 DEF PutInFront, Table
  <1>6. CASE full /\ t.noexpand = 0
    <2>1. ExpandBuckets(t1, l1)
      BY <1>2, <1>6
    <2>2. t1 \in Table(n) /\ l1 \in [D -> Handle] /\ t1.num_items > 0
      BY <1>5
    <2> HIDE DEF full, first, b
    <2>3. BucketsRight(tbl', hh', t1, l1, D)
      BY <1>4, <2>1, <2>2, Expanded
    <2> QED
      BY <1>5, <2>3 DEF BucketsRight
  <1>7. CASE ~(full /\ t.noexpand = 0)
    <2>1. tbl' = t1 /\ hh' = l1
      BY <1>2, <1>7
    <2>2. Bounded(t1)
      <3> SUFFICES ASSUME t.noexpand = 0, NEW a \in 0..(n - 1)
                   PROVE \/ t1.buckets[a].count < (t1.buckets[a].expand_mult + 1) * HASH_BKT_CAPACITY_THRESH
                         \/ t1.buckets[a].count <= (t1.buckets[a].expand_mult + 1) * t1.ideal_chain_maxlen
        BY <1>5 DEF Bounded
      <3>1. CASE a = b
        <4>1. ~(t1.buckets[b].count >= (t1.buckets[b].expand_mult + 1) * HASH_BKT_CAPACITY_THRESH)
          BY <1>7
        <4>2. t1.buckets[b].count \in Nat /\ t1.buckets[b].expand_mult \in Nat
          BY <1>5, <3>1 DEF Bucket
        <4>3. (t1.buckets[b].expand_mult + 1) * HASH_BKT_CAPACITY_THRESH \in Nat
          BY <4>2, UtHashAssumption
        <4> HIDE DEF b
        <4> QED
          BY <3>1, <4>1, <4>2, <4>3
      <3>2. CASE a # b
        BY <1>1, <1>5, <3>2 DEF Bounded
      <3> QED
        BY <3>1, <3>2
    <2> QED
      BY <1>4, <1>5, <2>1, <2>2 DEF BucketsRight
  <1> QED
    BY <1>6, <1>7

(* The elements s, from first on, are those with a handle, in the order in *)
(* which the table t was given them.                                       *)
OrderHolds(s, t, links, first) ==
  /\ IsOrder(s, links, first)
  /\ Range(s) = DOMAIN links
  /\ t.tail = LastOf(s)
  /\ t.num_items = Len(s)

LEMMA OrderFrame ==
  ASSUME NEW D \in SUBSET Elem, NEW l \in [D -> Handle], NEW l2 \in [D -> Handle],
         \A x \in D : l2[x].prev = l[x].prev /\ l2[x].next = l[x].next,
         NEW s, NEW t, NEW t2, t2.tail = t.tail, t2.num_items = t.num_items,
         NEW first, OrderHolds(s, t, l, first)
  PROVE  OrderHolds(s, t2, l2, first)
  <1> DEFINE to == Field(l, "next")
             back == Field(l, "prev")
             to2 == Field(l2, "next")
             back2 == Field(l2, "prev")
  <1>1. /\ DOMAIN to2 = D
        /\ \A x \in D : to2[x] = to[x] /\ back2[x] = back[x]
    BY FieldsOf
  <1>2. IsList(s, to, back, first) /\ Range(s) = D
    BY DEF OrderHolds, IsOrder
  <1> HIDE DEF to, back, to2, back2
  <1>3. IsList(s, to2, back2, first)
    BY <1>1, <1>2, ListFrame
  <1> QED
    BY <1>2, <1>3 DEF OrderHolds, IsOrder, to2, back2

LEMMA OrderIs ==
  ASSUME NEW D \in SUBSET Elem, NEW l \in [D -> Handle], NEW s, NEW t, NEW first,
         OrderHolds(s, t, l, first)
  PROVE  Walk(Field(l, "next"), first) = s
  <1>1. Field(l, "next") \in [D -> Pointer]
    BY FieldsOf
  <1> QED
    BY <1>1, WalkOfList DEF OrderHolds, IsOrder

LEMMA ChainedFrame ==
  ASSUME NEW D \in SUBSET Elem, NEW l, NEW D2 \in SUBSET Elem, NEW l2 \in [D2 -> Handle],
         D \subseteq D2, l \in [D -> Handle],
         \A x \in D : l2[x].hh_prev = l[x].hh_prev /\ l2[x].hh_next = l[x].hh_next,
         NEW t, NEW t2, t2.buckets = t.buckets, t2.num_buckets = t.num_buckets,
         Chained(t, l, D)
  PROVE  Chained(t2, l2, D)
  <1> DEFINE to == Field(l, "hh_next")
             back == Field(l, "hh_prev")
             to2 == Field(l2, "hh_next")
             back2 == Field(l2, "hh_prev")
  <1>1. /\ DOMAIN to2 = D2
        /\ \A x \in D : to2[x] = to[x] /\ back2[x] = back[x]
    BY FieldsOf
  <1>2. ASSUME NEW b \in DOMAIN t.buckets
        PROVE  BucketHolds(Chain(t2, l2, b), t2, l2, D, b)
    <2> DEFINE c == Chain(t, l, b)
    <2>1. BucketHolds(c, t, l, D, b)
      BY DEF Chained
    <2> HIDE DEF c
    <2>2. IsList(c, to, back, t.buckets[b].hh_head) /\ Range(c) \subseteq D
      BY <2>1 DEF BucketHolds, IsChain, IsShare
    <2> HIDE DEF to, back, to2, back2
    <2>3. IsList(c, to2, back2, t.buckets[b].hh_head)
      <3>1. \A x \in Range(c) : x \in DOMAIN to2 /\ to2[x] = to[x] /\ back2[x] = back[x]
        BY <1>1, <2>2
      <3> QED
        BY <2>2, <3>1, ListFrame
    <2>4. BucketHolds(c, t2, l2, D, b)
      BY <2>1, <2>3 DEF BucketHolds, IsChain, to2, back2
    <2> QED
      BY <2>4, ChainIs
  <1> QED
    BY <1>2 DEF Chained

(* The handles once e is behind the others (src/uthash.h 289-295).         *)
LEMMA Appended ==
  ASSUME DOMAIN hh \in SUBSET Elem, hh \in [DOMAIN hh -> Handle],
         OrderHolds(AppOrder, tbl, hh, head), NEW e \in Elem, e \notin DOMAIN hh,
         NEW t, t.tail = e, t.num_items = tbl.num_items + 1
  PROVE  /\ AppendList(e) \in [DOMAIN hh \cup {e} -> Handle]
         /\ AppendList(e)[e].hh_prev = NULL
         /\ \A x \in DOMAIN hh : /\ AppendList(e)[x].hh_prev = hh[x].hh_prev
                                 /\ AppendList(e)[x].hh_next = hh[x].hh_next
         /\ OrderHolds(Append(AppOrder, e), t, AppendList(e), IF head = NULL THEN e ELSE head)
  <1> DEFINE s == AppOrder
             D == DOMAIN hh \cup {e}
             l == AppendList(e)
             to == Field(hh, "next")
             back == Field(hh, "prev")
             to2 == Field(l, "next")
             back2 == Field(l, "prev")
  <1>1. /\ IsList(s, to, back, head) /\ s \in Seq(Elem) /\ Range(s) = DOMAIN hh
        /\ tbl.tail = LastOf(s) /\ tbl.num_items = Len(s)
    BY DEF OrderHolds, IsOrder, IsList
  <1> HIDE DEF s
  <1>2. tbl.tail \in Pointer
    <2>1. s # <<>> => s[Len(s)] \in Elem
      BY <1>1
    <2> QED
      BY <1>1, <2>1 DEF LastOf, Pointer
  <1>3. /\ l[e] \in Handle
        /\ l[e].prev = tbl.tail /\ l[e].next = NULL /\ l[e].hh_prev = NULL
    <2>1. l[e] = [NoHandle EXCEPT !.prev = tbl.tail]
      BY DEF AppendList
    <2> HIDE DEF l
    <2> QED
      BY <1>2, <2>1 DEF NoHandle, Handle, Pointer
  <1>4. ASSUME NEW x \in DOMAIN hh
        PROVE  /\ l[x] \in Handle /\ l[x].prev = hh[x].prev
               /\ l[x].hh_prev = hh[x].hh_prev /\ l[x].hh_next = hh[x].hh_next
               /\ l[x].next = IF x = tbl.tail THEN e ELSE hh[x].next
    <2>1. l[x] = IF x = tbl.tail THEN [hh[x] EXCEPT !.next = e] ELSE hh[x]
      BY DEF AppendList
    <2>2. hh[x] \in Handle /\ e \in Pointer
      BY DEF Pointer
    <2> HIDE DEF l
    <2> QED
      BY <2>1, <2>2 DEF Handle
  <1>5. l \in [D -> Handle]
    <2>1. DOMAIN l = D /\ l = [x \in D |-> l[x]]
      BY DEF AppendList
    <2> HIDE DEF l
    <2> QED
      BY <1>3, <1>4, <2>1
  <1> HIDE DEF l
  <1>6. /\ DOMAIN to2 = D
        /\ \A x \in D : to2[x] = l[x].next /\ back2[x] = l[x].prev
        /\ \A x \in DOMAIN hh : to[x] = hh[x].next /\ back[x] = hh[x].prev
    BY <1>5, FieldsOf
  <1> HIDE DEF to, back, to2, back2
  <1>7. /\ IsList(Append(s, e), to2, back2, IF s = <<>> THEN e ELSE head)
        /\ Range(Append(s, e)) = Range(s) \cup {e}
        /\ LastOf(Append(s, e)) = e
    <2>1. \A x \in Range(s) : /\ x \in DOMAIN to2 /\ back2[x] = back[x]
                              /\ to2[x] = IF x = LastOf(s) THEN e ELSE to[x]
      BY <1>1, <1>4, <1>6
    <2>2. e \in DOMAIN to2 /\ to2[e] = NULL /\ back2[e] = LastOf(s)
      BY <1>1, <1>3, <1>6
    <2>3. e \notin Range(s)
      BY <1>1
    <2> QED
      BY <1>1, <2>1, <2>2, <2>3, ListAppend
  <1>8. s = <<>> <=> head = NULL
    <2>1. s # <<>> => s[1] \in Elem
      BY <1>1
    <2> QED
      BY <1>1, <2>1, UtHashAssumption DEF IsList
  <1>9. Len(Append(s, e)) = Len(s) + 1
    BY <1>1
  <1>10. IsOrder(Append(s, e), l, IF head = NULL THEN e ELSE head)
    BY <1>7, <1>8 DEF IsOrder, to2, back2
  <1>11. OrderHolds(Append(s, e), t, l, IF head = NULL THEN e ELSE head)
    BY <1>1, <1>5, <1>7, <1>9, <1>10 DEF OrderHolds
  <1> QED
    BY <1>3, <1>4, <1>5, <1>11 DEF l, s

(* The table u once an item more is counted. *)
OneMoreItem(u) == [u EXCEPT !.num_items = @ + 1]

LEMMA TableCounts ==
  ASSUME NEW n, NEW u \in Table(n), NEW v, v = OneMoreItem(u)
  PROVE  /\ v \in Table(n) /\ v.num_items = u.num_items + 1 /\ u.num_items \in Nat
         /\ v.num_buckets = n /\ v.tail = u.tail /\ v.buckets = u.buckets
         /\ v.noexpand = u.noexpand /\ v.ideal_chain_maxlen = u.ideal_chain_maxlen
  BY DEF Table, OneMoreItem

(* A new table (src/uthash.h 223-253) holds nothing.                       *)
LEMMA TableMade ==
  ASSUME NEW e \in Elem, NEW D \in SUBSET Elem, NEW l \in [D -> Handle],
         NEW t, t = OneMoreItem(MakeTable(e))
  PROVE  /\ t \in Table(HASH_INITIAL_NUM_BUCKETS)
         /\ t.tail = e /\ t.num_items = 1
         /\ Chained(t, l, {})
         /\ Bounded(t)
  <1> DEFINE n == HASH_INITIAL_NUM_BUCKETS
             bs == [b \in 0..(n - 1) |-> EmptyBucket]
  <1>1. n \in Nat /\ n > 0 /\ e \in Pointer
    BY UtHashAssumption DEF Pointer
  <1>2. EmptyBucket \in Bucket /\ EmptyBucket.hh_head = NULL
        /\ EmptyBucket.count = 0 /\ EmptyBucket.expand_mult = 0
    BY DEF EmptyBucket, Bucket, Pointer
  <1>3. bs \in [0..(n - 1) -> Bucket] /\ \A b \in 0..(n - 1) : bs[b] = EmptyBucket
    BY <1>2
  <1>4. t = OneMoreItem([NoTable EXCEPT !.num_buckets = n, !.tail = e, !.buckets = bs])
    BY DEF MakeTable
  <1> HIDE DEF n, bs
  <1>5. /\ t \in Table(n) /\ t.tail = e /\ t.num_items = 1
        /\ t.buckets = bs /\ t.num_buckets = n /\ DOMAIN bs = 0..(n - 1)
        /\ t.noexpand = 0
    <2>0. PICK u : u = [NoTable EXCEPT !.num_buckets = n, !.tail = e, !.buckets = bs]
      OBVIOUS
    <2>1. u \in Table(n)
      BY <1>1, <1>3, <2>0 DEF NoTable, Table
    <2>2. /\ u.tail = e /\ u.num_items = 0 /\ u.buckets = bs
          /\ u.num_buckets = n /\ u.noexpand = 0
      BY <2>0 DEF NoTable
    <2>3. t = OneMoreItem(u)
      BY <1>4, <2>0
    <2>4. DOMAIN bs = 0..(n - 1)
      BY <1>3
    <2>5. /\ t \in Table(n) /\ t.num_items = u.num_items + 1
          /\ t.num_buckets = n /\ t.tail = u.tail /\ t.buckets = u.buckets
          /\ t.noexpand = u.noexpand
      BY <2>1, <2>3, TableCounts
    <2> QED
      BY <2>2, <2>4, <2>5
  <1>6. ASSUME NEW b \in 0..(n - 1) PROVE BucketHolds(Chain(t, l, b), t, l, {}, b)
    <2>1. IsList(<<>>, Field(l, "hh_next"), Field(l, "hh_prev"), NULL)
      BY DEF IsList
    <2>2. IsShare(<<>>, {}, n, b)
      <3>1. DOMAIN <<>> = {} /\ <<>> \in Seq(Elem) /\ Range(<<>>) = {}
        BY DEF Range
      <3> QED
        BY <3>1 DEF IsShare
    <2>3. BucketHolds(<<>>, t, l, {}, b)
      BY <1>2, <1>3, <1>5, <2>1, <2>2 DEF BucketHolds, IsChain
    <2> QED
      BY <2>3, ChainIs
  <1>7. Chained(t, l, {})
    BY <1>5, <1>6 DEF Chained
  <1>8. Bounded(t)
    <2> SUFFICES ASSUME NEW b \in 0..(n - 1)
                 PROVE  t.buckets[b].count < (t.buckets[b].expand_mult + 1) * HASH_BKT_CAPACITY_THRESH
      BY <1>5 DEF Bounded
    <2>1. 0 < (0 + 1) * HASH_BKT_CAPACITY_THRESH
      BY UtHashAssumption
    <2> QED
      BY <1>2, <1>3, <1>5, <2>1
  <1> QED
    BY <1>5, <1>7, <1>8 DEF n

LEMMA NoTableIs ==
  /\ NoTable.num_buckets = 0 /\ NoTable.tail = NULL /\ NoTable.num_items = 0
  /\ DOMAIN NoTable.buckets = {}
  /\ NoTable.num_buckets \in Nat /\ NoTable \in Table(NoTable.num_buckets)
  <1>1. /\ NoTable.num_buckets = 0 /\ NoTable.tail = NULL /\ NoTable.num_items = 0
        /\ DOMAIN NoTable.buckets = {}
    BY DEF NoTable
  <1>2. NoTable \in Table(0)
    <2>1. [b \in {} |-> EmptyBucket] \in [0..(0 - 1) -> Bucket] /\ NULL \in Pointer
      BY DEF Pointer
    <2> QED
      BY <2>1 DEF NoTable, Table
  <1> QED
    BY <1>1, <1>2

(* What the table and the handles are between two calls. *)
TableRight ==
  /\ OrderHolds(AppOrder, tbl, hh, head)
  /\ Chained(tbl, hh, DOMAIN hh)
  /\ Bounded(tbl)
  /\ head = NULL => tbl = NoTable
  /\ head # NULL => tbl.num_buckets > 0

TableTyped ==
  /\ hash \in HashFunction /\ head \in Pointer
  /\ DOMAIN hh \subseteq Elem /\ hh \in [DOMAIN hh -> Handle]
  /\ tbl.num_buckets \in Nat /\ tbl \in Table(tbl.num_buckets)

(* The loop of remove_all_streams goes on at the head of the list, and has *)
(* the successor of that element by heart.                                 *)
CursorsRight ==
  /\ el = NULL => tmp = NULL
  /\ el # NULL => el = head /\ tmp = hh[head].next

(* The inductive invariant. *)
IInv == TypeOK /\ TableRight /\ CursorsRight

LEMMA HeadOfOrder ==
  ASSUME NEW s, NEW t, NEW links, NEW first, OrderHolds(s, t, links, first)
  PROVE  /\ s = <<>> <=> first = NULL
         /\ first = NULL => DOMAIN links = {} /\ t.num_items = 0 /\ t.tail = NULL
         /\ first # NULL => first \in DOMAIN links /\ first = s[1]
  <1>1. /\ s \in Seq(Elem) /\ first = (IF s = <<>> THEN NULL ELSE s[1])
        /\ Range(s) = DOMAIN links /\ t.tail = LastOf(s) /\ t.num_items = Len(s)
    BY DEF OrderHolds, IsOrder, IsList
  <1>2. s # <<>> => 1 \in DOMAIN s /\ s[1] \in Elem /\ s[1] \in Range(s)
    BY <1>1 DEF Range
  <1>3. s = <<>> => Range(s) = {} /\ Len(s) = 0
    BY DEF Range
  <1> QED
    BY <1>1, <1>2, <1>3, UtHashAssumption DEF LastOf

(* add_stream (src/provider.c 323-336) puts the stream last.               *)
LEMMA AddKeeps ==
  ASSUME IInv, NEW e \in Elem, Add(e)
  PROVE  IInv' /\ AppOrder' = Append(AppOrder, e)
  <1> DEFINE D == DOMAIN hh \cup {e}
             l == AppendList(e)
             t0 == IF head = NULL THEN MakeTable(e) ELSE [tbl EXCEPT !.tail = e]
             t == OneMoreItem(t0)
             n == t.num_buckets
  <1>1. /\ DOMAIN hh \in SUBSET Elem /\ hh \in [DOMAIN hh -> Handle]
        /\ tbl \in Table(tbl.num_buckets) /\ tbl.num_buckets \in Nat
        /\ hash \in [Key -> Nat] /\ hash \in HashFunction /\ head \in Pointer
        /\ OrderHolds(AppOrder, tbl, hh, head)
        /\ e \notin DOMAIN hh /\ e \in Pointer /\ e # NULL
    BY UtHashAssumption DEF IInv, TypeOK, TableRight, Add, Pointer
  <1>2. AddToBkt(t, l, e)
    BY DEF Add, AddToTable, OneMoreItem
  <1>3. /\ head' = IF head = NULL THEN e ELSE head
        /\ el = NULL /\ tmp = NULL /\ hash' = hash /\ el' = el /\ tmp' = tmp
    BY DEF Add, IInv, CursorsRight
  <1>4. ASSUME head # NULL
        PROVE  /\ t \in Table(tbl.num_buckets) /\ t.num_buckets = tbl.num_buckets
               /\ t.tail = e /\ t.num_items = tbl.num_items + 1
               /\ t.noexpand = tbl.noexpand /\ t.ideal_chain_maxlen = tbl.ideal_chain_maxlen
               /\ t.buckets = tbl.buckets /\ tbl.num_items \in Nat
    <2>0. PICK u : u = [tbl EXCEPT !.tail = e]
      OBVIOUS
    <2>1. t = OneMoreItem(u)
      BY <1>4, <2>0
    <2> HIDE DEF t
    <2>2. /\ u \in Table(tbl.num_buckets) /\ u.tail = e
          /\ u.num_items = tbl.num_items /\ u.buckets = tbl.buckets
          /\ u.noexpand = tbl.noexpand /\ u.ideal_chain_maxlen = tbl.ideal_chain_maxlen
      BY <1>1, <2>0 DEF Table
    <2> QED
      BY <2>1, <2>2, TableCounts
  <1>5. /\ n \in Nat /\ n > 0 /\ t \in Table(n)
        /\ t.tail = e /\ t.num_items = tbl.num_items + 1 /\ t.num_items > 0
        /\ Bounded(t)
    <2>1. CASE head = NULL
      <3>1. t = OneMoreItem(MakeTable(e))
        BY <2>1
      <3>2. tbl.num_items = 0
        BY <1>1, <2>1, HeadOfOrder
      <3> HIDE DEF t
      <3>3. /\ t \in Table(HASH_INITIAL_NUM_BUCKETS)
            /\ t.tail = e /\ t.num_items = 1 /\ Bounded(t)
        BY <1>1, <3>1, TableMade
      <3>4. n = HASH_INITIAL_NUM_BUCKETS
        BY <3>3 DEF Table
      <3> QED
        BY <3>2, <3>3, <3>4, UtHashAssumption
    <2>2. CASE head # NULL
      <3> HIDE DEF t
      <3>1. Bounded(t)
        BY <1>4, <2>2 DEF IInv, TableRight, Bounded
      <3> QED
        BY <1>1, <1>4, <2>2, <3>1 DEF IInv, TableRight
    <2> QED
      BY <2>1, <2>2
  <1>6. /\ l \in [D -> Handle]
        /\ l[e].hh_prev = NULL
        /\ \A x \in DOMAIN hh : l[x].hh_prev = hh[x].hh_prev /\ l[x].hh_next = hh[x].hh_next
        /\ OrderHolds(Append(AppOrder, e), t, l, IF head = NULL THEN e ELSE head)
    <2> HIDE DEF t
    <2> QED
      BY <1>1, <1>5, Appended
  <1> HIDE DEF l
  <1>7. Chained(t, l, DOMAIN hh)
    <2>1. CASE head = NULL
      <3>1. t = OneMoreItem(MakeTable(e))
        BY <2>1
      <3>2. DOMAIN hh = {} /\ D \in SUBSET Elem
        BY <1>1, <2>1, HeadOfOrder
      <3> HIDE DEF t
      <3> QED
        BY <1>6, <3>1, <3>2, TableMade
    <2>2. CASE head # NULL
      <3>1. t.num_buckets = tbl.num_buckets /\ t.buckets = tbl.buckets
        BY <1>4, <2>2
      <3> HIDE DEF t, D
      <3>2. D \in SUBSET Elem /\ DOMAIN hh \subseteq D
        BY <1>1 DEF D
      <3>3. Chained(tbl, hh, DOMAIN hh)
        BY DEF IInv, TableRight
      <3> QED
        BY <1>1, <1>6, <3>1, <3>2, <3>3, ChainedFrame
    <2> QED
      BY <2>1, <2>2
  <1> HIDE DEF t
  <1>8. BucketsRight(tbl', hh', t, l, D)
    <2>1. D \ {e} = DOMAIN hh /\ D \in SUBSET Elem /\ e \in D
      BY <1>1
    <2> HIDE DEF D
    <2>2. Chained(t, l, D \ {e})
      BY <1>7, <2>1
    <2> HIDE DEF n
    <2> QED
      BY <1>1, <1>2, <1>5, <1>6, <2>1, <2>2, AddedToBkt
  <1>9. D \in SUBSET Elem
    BY <1>1
  <1> HIDE DEF D
  <1>10. /\ hh' \in [D -> Handle] /\ DOMAIN hh' = D
         /\ \A x \in D : hh'[x].prev = l[x].prev /\ hh'[x].next = l[x].next
         /\ tbl'.num_items = t.num_items /\ tbl'.tail = t.tail
         /\ tbl'.num_buckets \in Nat /\ tbl'.num_buckets > 0 /\ tbl' \in Table(tbl'.num_buckets)
         /\ Bounded(tbl') /\ Chained(tbl', hh', D)
    BY <1>8 DEF BucketsRight
  <1>11. OrderHolds(Append(AppOrder, e), tbl', hh', head')
    BY <1>3, <1>6, <1>9, <1>10, OrderFrame
  <1>12. AppOrder' = Append(AppOrder, e)
    <2>1. AppOrder' = Walk(Field(hh', "next"), head')
      BY DEF AppOrder
    <2> QED
      BY <1>9, <1>10, <1>11, <2>1, OrderIs
  <1>13. TypeOK'
    BY <1>1, <1>3, <1>9, <1>10 DEF TypeOK, Pointer
  <1>14. OrderHolds(AppOrder, tbl, hh, head)'
    <2>1. OrderHolds(AppOrder', tbl', hh', head')
      BY <1>11, <1>12
    <2> QED
      BY <2>1 DEF OrderHolds, IsOrder, IsList, LastOf
  <1>15. Chained(tbl, hh, DOMAIN hh)'
    BY <1>3, <1>10 DEF Chained, BucketHolds, IsShare, ToBkt
  <1>16. Bounded(tbl)'
    BY <1>10 DEF Bounded
  <1>17. TableRight' /\ CursorsRight'
    BY <1>1, <1>3, <1>10, <1>14, <1>15, <1>16 DEF TableRight, CursorsRight
  <1> QED
    BY <1>12, <1>13, <1>17 DEF IInv

----------------------------------------------------------------------------
(* Deleting. *)

(* The handles l2 are those of D without e, patched on both sides of it. *)
PatchedOut(l2, l, D, e) ==
  /\ l2 \in [D \ {e} -> Handle]
  /\ \A x \in D \ {e} :
       /\ l2[x].next = IF x = l[e].prev THEN l[e].next ELSE l[x].next
       /\ l2[x].prev = IF x = l[e].next THEN l[e].prev ELSE l[x].prev
       /\ l2[x].hh_next = IF x = l[e].hh_prev THEN l[e].hh_next ELSE l[x].hh_next
       /\ l2[x].hh_prev = IF x = l[e].hh_next THEN l[e].hh_prev ELSE l[x].hh_prev

LEMMA WithoutLinks ==
  ASSUME DOMAIN hh \in SUBSET Elem, hh \in [DOMAIN hh -> Handle], NEW e \in DOMAIN hh
  PROVE  PatchedOut(Without(e), hh, DOMAIN hh, e)
  <1> DEFINE l2 == Without(e)
             D2 == DOMAIN hh \ {e}
  <1>1. /\ hh[e] \in Handle
        /\ hh[e].prev \in Pointer /\ hh[e].next \in Pointer
        /\ hh[e].hh_prev \in Pointer /\ hh[e].hh_next \in Pointer
    <2>1. hh[e] \in Handle
      OBVIOUS
    <2> QED
      BY <2>1 DEF Handle
  <1>2. ASSUME NEW x \in D2
        PROVE  /\ l2[x] \in Handle
               /\ l2[x].next = IF x = hh[e].prev THEN hh[e].next ELSE hh[x].next
               /\ l2[x].prev = IF x = hh[e].next THEN hh[e].prev ELSE hh[x].prev
               /\ l2[x].hh_next = IF x = hh[e].hh_prev THEN hh[e].hh_next ELSE hh[x].hh_next
               /\ l2[x].hh_prev = IF x = hh[e].hh_next THEN hh[e].hh_prev ELSE hh[x].hh_prev
    <2>1. hh[x] \in Handle
      OBVIOUS
    <2>2. l2[x] =
            [hh[x] EXCEPT !.next = IF x = hh[e].prev THEN hh[e].next ELSE @,
                          !.prev = IF x = hh[e].next THEN hh[e].prev ELSE @,
                          !.hh_next = IF x = hh[e].hh_prev THEN hh[e].hh_next ELSE @,
                          !.hh_prev = IF x = hh[e].hh_next THEN hh[e].hh_prev ELSE @]
      BY DEF Without
    <2> HIDE DEF l2
    <2> QED
      BY <1>1, <2>1, <2>2 DEF Handle
  <1>3. l2 \in [D2 -> Handle]
    <2>1. DOMAIN l2 = D2 /\ l2 = [x \in D2 |-> l2[x]]
      BY DEF Without
    <2> HIDE DEF l2
    <2> QED
      BY <1>2, <2>1
  <1> QED
    BY <1>2, <1>3 DEF PatchedOut

(* The order of insertion without the element at m.                        *)
LEMMA OrderWithout ==
  ASSUME NEW D \in SUBSET Elem, NEW l \in [D -> Handle], NEW t, NEW first, NEW s,
         OrderHolds(s, t, l, first), NEW m \in DOMAIN s, NEW e, e = s[m],
         NEW l2, PatchedOut(l2, l, D, e), NEW t2,
         t2.tail = IF t.tail = e THEN l[e].prev ELSE t.tail,
         t2.num_items = t.num_items - 1
  PROVE  /\ OrderHolds(RemoveAt(s, m), t2, l2, IF l[e].prev = NULL THEN l[e].next ELSE first)
         /\ l[e].prev = NULL <=> first = e
         /\ l[e].prev = NULL /\ l[e].next = NULL <=> D = {e}
         /\ t.num_items \in Nat \ {0}
         /\ D = {e} => t.num_items = 1
  <1> DEFINE to == Field(l, "next")
             back == Field(l, "prev")
             to2 == Field(l2, "next")
             back2 == Field(l2, "prev")
             first2 == IF first = e THEN to[e] ELSE first
             L == Len(s)
  <1>1. /\ IsList(s, to, back, first) /\ s \in Seq(Elem) /\ Range(s) = D
        /\ t.tail = LastOf(s) /\ t.num_items = L
        /\ L \in Nat /\ DOMAIN s = 1..L /\ m \in 1..L
        /\ \A i, j \in 1..L : s[i] = s[j] => i = j
    BY DEF OrderHolds, IsOrder, IsList
  <1>2. e \in D /\ NULL \notin D
    BY <1>1, UtHashAssumption DEF Range
  <1>3. l2 \in [D \ {e} -> Handle]
    BY DEF PatchedOut
  <1>4. /\ DOMAIN to2 = D \ {e}
        /\ \A x \in D \ {e} : to2[x] = l2[x].next /\ back2[x] = l2[x].prev
        /\ \A x \in D : to[x] = l[x].next /\ back[x] = l[x].prev
    <2>1. PICK D2 \in SUBSET Elem : D2 = D \ {e}
      OBVIOUS
    <2>2. l2 \in [D2 -> Handle]
      BY <1>3, <2>1
    <2>3. DOMAIN to2 = D2 /\ \A x \in D2 : to2[x] = l2[x].next /\ back2[x] = l2[x].prev
      BY <2>2, FieldsOf
    <2>4. \A x \in D : to[x] = l[x].next /\ back[x] = l[x].prev
      BY FieldsOf
    <2> QED
      BY <2>1, <2>3, <2>4
  <1> HIDE DEF to, back, to2, back2
  <1>5. /\ IsList(RemoveAt(s, m), to2, back2, first2)
        /\ Range(RemoveAt(s, m)) = Range(s) \ {e}
        /\ Len(RemoveAt(s, m)) = L - 1
        /\ LastOf(RemoveAt(s, m)) = IF LastOf(s) = e THEN back[e] ELSE LastOf(s)
    <2>1. Bypassed(s, e, to, back, to2, back2)
      BY <1>1, <1>2, <1>4 DEF PatchedOut, Bypassed
    <2>2. ListWithout(s, m, e, to, back, first, to2, back2)
      BY <1>1, <2>1, ListRemove
    <2> QED
      BY <2>2 DEF ListWithout
  <1>6. /\ to[e] = IF m < L THEN s[m + 1] ELSE NULL
        /\ back[e] = IF m > 1 THEN s[m - 1] ELSE NULL
        /\ first = s[1]
    BY <1>1 DEF IsList
  <1>7. back[e] = NULL <=> m = 1
    <2>1. m > 1 => m - 1 \in 1..L /\ s[m - 1] \in Elem
      BY <1>1
    <2> QED
      BY <1>1, <1>6, <2>1, UtHashAssumption
  <1>8. to[e] = NULL <=> m = L
    <2>1. m < L => m + 1 \in 1..L /\ s[m + 1] \in Elem
      BY <1>1
    <2> QED
      BY <1>1, <1>6, <2>1, UtHashAssumption
  <1>9. first = e <=> m = 1
    <2>1. 1 \in 1..L
      BY <1>1
    <2> QED
      BY <1>1, <1>6, <2>1
  <1>10. D = {e} <=> L = 1
    <2>1. ASSUME L # 1 PROVE \E x \in D : x # e
      <3>1. PICK j \in 1..L : j # m
        <4>1. 1 \in 1..L /\ L \in 1..L
          BY <1>1
        <4> QED
          BY <1>1, <2>1, <4>1
      <3>2. s[j] # s[m]
        BY <1>1, <3>1
      <3>3. s[j] \in D
        BY <1>1 DEF Range
      <3> QED
        BY <3>2, <3>3
    <2>2. ASSUME L = 1, NEW x \in D PROVE x = e
      <3>1. PICK j \in 1..L : x = s[j]
        BY <1>1 DEF Range
      <3> QED
        BY <1>1, <2>2, <3>1
    <2> QED
      BY <1>2, <2>1, <2>2
  <1>11. l[e].prev = back[e] /\ l[e].next = to[e]
    BY <1>2, <1>4
  <1>12. OrderHolds(RemoveAt(s, m), t2, l2, first2)
    <2>1. IsOrder(RemoveAt(s, m), l2, first2)
      BY <1>5 DEF IsOrder, to2, back2
    <2> HIDE DEF first2
    <2> QED
      BY <1>1, <1>3, <1>5, <1>11, <2>1 DEF OrderHolds
  <1>13. first2 = IF l[e].prev = NULL THEN l[e].next ELSE first
    BY <1>7, <1>9, <1>11
  <1> HIDE DEF first2
  <1> QED
    BY <1>1, <1>7, <1>8, <1>9, <1>10, <1>11, <1>12, <1>13

(* Of the n buckets of t the bucket k of t2 has lost e, the others nothing. *)
BucketLoses(t2, t, l, e, n, k) ==
  /\ t2.num_buckets = n /\ DOMAIN t2.buckets = 0..(n - 1)
  /\ t2.buckets[k].count = t.buckets[k].count - 1
  /\ t2.buckets[k].expand_mult = t.buckets[k].expand_mult
  /\ t2.buckets[k].hh_head = IF t.buckets[k].hh_head = e THEN l[e].hh_next
                             ELSE t.buckets[k].hh_head
  /\ \A b \in 0..(n - 1) : b # k => t2.buckets[b] = t.buckets[b]

(* The chains without e.                                                   *)
LEMMA ChainsWithout ==
  ASSUME NEW D \in SUBSET Elem, NEW l \in [D -> Handle], NEW e \in D,
         NEW n \in Nat, n > 0, NEW t \in Table(n), hash \in [Key -> Nat],
         Chained(t, l, D), NEW l2, PatchedOut(l2, l, D, e),
         NEW t2, NEW k, k = ToBkt(e, n), BucketLoses(t2, t, l, e, n, k)
  PROVE  Chained(t2, l2, D \ {e})
  <1> DEFINE c(b) == Chain(t, l, b)
             to == Field(l, "hh_next")
             back == Field(l, "hh_prev")
             to2 == Field(l2, "hh_next")
             back2 == Field(l2, "hh_prev")
  <1>1. /\ k \in 0..(n - 1) /\ t.num_buckets = n /\ DOMAIN t.buckets = 0..(n - 1)
        /\ D \ {e} \in SUBSET Elem /\ NULL \notin D
    BY KeyHashed, UtHashAssumption DEF Table
  <1>2. l2 \in [D \ {e} -> Handle]
    BY DEF PatchedOut
  <1>3. /\ t2.num_buckets = n /\ DOMAIN t2.buckets = 0..(n - 1)
        /\ t2.buckets[k].count = t.buckets[k].count - 1
        /\ t2.buckets[k].hh_head = IF t.buckets[k].hh_head = e THEN l[e].hh_next
                                   ELSE t.buckets[k].hh_head
        /\ \A b \in 0..(n - 1) : b # k => t2.buckets[b] = t.buckets[b]
    BY DEF BucketLoses
  <1>4. /\ DOMAIN to2 = D \ {e}
        /\ \A x \in D \ {e} : to2[x] = l2[x].hh_next /\ back2[x] = l2[x].hh_prev
        /\ \A x \in D : to[x] = l[x].hh_next /\ back[x] = l[x].hh_prev
    <2>1. PICK D2 \in SUBSET Elem : D2 = D \ {e}
      OBVIOUS
    <2>2. l2 \in [D2 -> Handle]
      BY <1>2, <2>1
    <2>3. DOMAIN to2 = D2 /\ \A x \in D2 : to2[x] = l2[x].hh_next /\ back2[x] = l2[x].hh_prev
      BY <2>2, FieldsOf
    <2>4. \A x \in D : to[x] = l[x].hh_next /\ back[x] = l[x].hh_prev
      BY FieldsOf
    <2> QED
      BY <2>1, <2>3, <2>4
  <1> HIDE DEF c
  <1>5. ASSUME NEW b \in 0..(n - 1)
        PROVE  /\ IsShare(c(b), D, n, b)
               /\ IsList(c(b), to, back, t.buckets[b].hh_head)
               /\ t.buckets[b].count = Len(c(b)) /\ Len(c(b)) \in Nat
               /\ DOMAIN c(b) = 1..Len(c(b)) /\ c(b) \in Seq(Elem)
               /\ Range(c(b)) = {x \in D : ToBkt(x, n) = b}
    <2>1. BucketHolds(c(b), t, l, D, b)
      BY <1>1 DEF Chained, c
    <2> QED
      BY <1>1, <2>1 DEF BucketHolds, IsChain, IsShare
  <1>6. e \in Range(c(k))
    BY <1>1, <1>5
  <1>7. PICK m \in DOMAIN c(k) : e = c(k)[m]
    BY <1>6, ElementsOfRange
  <1>8. \A x \in D \ {e} :
          /\ to2[x] = IF x = back[e] THEN to[e] ELSE to[x]
          /\ back2[x] = IF x = to[e] THEN back[e] ELSE back[x]
    <2> HIDE DEF to, back, to2, back2
    <2> QED
      BY <1>4 DEF PatchedOut
  <1> HIDE DEF to, back, to2, back2
  <1>9. BucketHolds(RemoveAt(c(k), m), t2, l2, D \ {e}, k)
    <2> DEFINE r == RemoveAt(c(k), m)
               f == t.buckets[k].hh_head
    <2>1. /\ IsList(r, to2, back2, IF f = e THEN to[e] ELSE f)
          /\ Range(r) = Range(c(k)) \ {e}
          /\ Len(r) = Len(c(k)) - 1
      <3>1. Bypassed(c(k), e, to, back, to2, back2)
        BY <1>1, <1>4, <1>5, <1>8 DEF Bypassed
      <3>2. IsList(c(k), to, back, f)
        BY <1>1, <1>5
      <3> HIDE DEF f
      <3>3. ListWithout(c(k), m, e, to, back, f, to2, back2)
        BY <1>7, <3>1, <3>2, ListRemove
      <3> QED
        BY <3>3 DEF ListWithout
    <2>2. t2.buckets[k].hh_head = IF f = e THEN to[e] ELSE f
      BY <1>4, <1>3
    <2> HIDE DEF r, f
    <2>3. Range(r) = {x \in D \ {e} : ToBkt(x, n) = k}
      BY <1>1, <1>5, <2>1
    <2>4. IsShare(r, D \ {e}, n, k)
      BY <2>1, <2>3 DEF IsShare, IsList
    <2>5. IsChain(r, l2, t2.buckets[k].hh_head)
      BY <2>1, <2>2 DEF IsChain, to2, back2
    <2>6. t2.buckets[k].count = Len(r)
      BY <1>1, <1>5, <1>3, <2>1
    <2>7. BucketHolds(r, t2, l2, D \ {e}, k)
      BY <1>3, <2>4, <2>5, <2>6 DEF BucketHolds
    <2> QED
      BY <2>7 DEF r
  <1>10. \A x \in {to[e], back[e]} : x = NULL \/ x \in Range(c(k))
    <2>1. IsList(c(k), to, back, t.buckets[k].hh_head) /\ DOMAIN c(k) = 1..Len(c(k))
          /\ Len(c(k)) \in Nat
      BY <1>1, <1>5
    <2>2. /\ to[e] = IF m < Len(c(k)) THEN c(k)[m + 1] ELSE NULL
          /\ back[e] = IF m > 1 THEN c(k)[m - 1] ELSE NULL
      <3> DEFINE d == c(k)
      <3>1. d[m] = e /\ m \in DOMAIN d /\ IsList(d, to, back, t.buckets[k].hh_head)
        BY <1>7, <2>1
      <3> HIDE DEF d
      <3>2. /\ to[e] = IF m < Len(d) THEN d[m + 1] ELSE NULL
            /\ back[e] = IF m > 1 THEN d[m - 1] ELSE NULL
        BY <3>1 DEF IsList
      <3> QED
        BY <3>2 DEF d
    <2>3. /\ m < Len(c(k)) => m + 1 \in DOMAIN c(k)
          /\ m > 1 => m - 1 \in DOMAIN c(k)
      BY <2>1
    <2>4. \A i \in DOMAIN c(k) : c(k)[i] \in Range(c(k))
      BY DEF Range
    <2> QED
      BY <2>2, <2>3, <2>4
  <1>11. ASSUME NEW b \in 0..(n - 1), b # k PROVE BucketHolds(c(b), t2, l2, D \ {e}, b)
    <2>1. \A x \in Range(c(b)) : x \in D \ {e} /\ x \notin Range(c(k)) /\ x # NULL
      BY <1>1, <1>5, <1>11
    <2>2. \A x \in Range(c(b)) : x \in DOMAIN to2 /\ to2[x] = to[x] /\ back2[x] = back[x]
      BY <1>4, <1>8, <1>10, <2>1
    <2>3. IsList(c(b), to2, back2, t.buckets[b].hh_head)
      BY <1>5, <2>2, ListFrame
    <2>4. Range(c(b)) = {x \in D \ {e} : ToBkt(x, n) = b}
      BY <1>5, <1>11
    <2>5. IsShare(c(b), D \ {e}, n, b)
      BY <1>5, <2>4 DEF IsShare
    <2>6. IsChain(c(b), l2, t2.buckets[b].hh_head)
      BY <1>11, <1>3, <2>3 DEF IsChain, to2, back2
    <2> QED
      BY <1>5, <1>11, <1>3, <2>5, <2>6 DEF BucketHolds
  <1>12. ASSUME NEW b \in 0..(n - 1)
         PROVE  BucketHolds(Chain(t2, l2, b), t2, l2, D \ {e}, b)
    <2>1. CASE b = k
      BY <1>1, <1>2, <1>9, <2>1, ChainIs
    <2>2. CASE b # k
      <3>1. BucketHolds(c(b), t2, l2, D \ {e}, b)
        BY <1>11, <2>2
      <3> QED
        BY <1>1, <1>2, <3>1, ChainIs
    <2> QED
      BY <2>1, <2>2
  <1> QED
    BY <1>12, <1>3 DEF Chained

(* The table t once e, of bucket k, is out of it. *)
LessOne(t, k, e) ==
  [t EXCEPT !.tail = IF @ = e THEN hh[e].prev ELSE @,
            !.num_items = @ - 1,
            !.buckets[k] = DelInBkt(@, e)]

LEMMA TableLoses ==
  ASSUME NEW n \in Nat, NEW t \in Table(n), NEW k \in 0..(n - 1), NEW e,
         hh[e].prev \in Pointer, hh[e].hh_next \in Pointer,
         t.num_items \in Nat \ {0}, t.buckets[k].count \in Nat \ {0},
         NEW t2, t2 = LessOne(t, k, e)
  PROVE  /\ t2 \in Table(n) /\ t2.num_buckets = n /\ BucketLoses(t2, t, hh, e, n, k)
         /\ t2.tail = IF t.tail = e THEN hh[e].prev ELSE t.tail
         /\ t2.num_items = t.num_items - 1
         /\ t2.noexpand = t.noexpand /\ t2.ideal_chain_maxlen = t.ideal_chain_maxlen
         /\ t2.buckets \in [0..(n - 1) -> Bucket] /\ t.buckets \in [0..(n - 1) -> Bucket]
  <1>1. t.buckets \in [0..(n - 1) -> Bucket] /\ t.buckets[k] \in Bucket
    BY DEF Table
  <1>2. PICK bk : bk = DelInBkt(t.buckets[k], e)
    OBVIOUS
  <1>3. /\ bk \in Bucket
        /\ bk.count = t.buckets[k].count - 1
        /\ bk.expand_mult = t.buckets[k].expand_mult
        /\ bk.hh_head = IF t.buckets[k].hh_head = e THEN hh[e].hh_next
                        ELSE t.buckets[k].hh_head
    <2>1. PICK f : f = IF t.buckets[k].hh_head = e THEN hh[e].hh_next
                       ELSE t.buckets[k].hh_head
      OBVIOUS
    <2>2. f \in Pointer /\ t.buckets[k].count - 1 \in Nat
      BY <1>1, <2>1 DEF Bucket
    <2>3. bk = [t.buckets[k] EXCEPT !.count = t.buckets[k].count - 1, !.hh_head = f]
      BY <1>1, <1>2, <2>1 DEF DelInBkt, Bucket
    <2> QED
      BY <1>1, <2>1, <2>2, <2>3 DEF Bucket
  <1>4. PICK bs : bs = [t.buckets EXCEPT ![k] = bk]
    OBVIOUS
  <1>5. /\ bs \in [0..(n - 1) -> Bucket] /\ bs[k] = bk
        /\ \A b \in 0..(n - 1) : b # k => bs[b] = t.buckets[b]
    BY <1>1, <1>3, <1>4
  <1>6. PICK last : last = IF t.tail = e THEN hh[e].prev ELSE t.tail
    OBVIOUS
  <1>7. last \in Pointer /\ t.num_items - 1 \in Nat
    BY <1>6 DEF Table
  <1>8. t2 = [t EXCEPT !.tail = last, !.num_items = t.num_items - 1, !.buckets = bs]
    BY <1>2, <1>4, <1>6 DEF LessOne, Table
  <1>9. /\ t2 \in Table(n) /\ t2.num_buckets = n /\ t2.buckets = bs
        /\ t2.tail = last /\ t2.num_items = t.num_items - 1
        /\ t2.noexpand = t.noexpand /\ t2.ideal_chain_maxlen = t.ideal_chain_maxlen
    BY <1>5, <1>7, <1>8 DEF Table
  <1>10. DOMAIN t2.buckets = 0..(n - 1)
    BY <1>5, <1>9
  <1>11. BucketLoses(t2, t, hh, e, n, k)
    BY <1>3, <1>5, <1>9, <1>10 DEF BucketLoses
  <1> QED
    BY <1>1, <1>5, <1>6, <1>9, <1>11

(* e is the one element that the order of insertion loses. *)
TakenOut(e) ==
  \E i \in DOMAIN AppOrder : AppOrder[i] = e /\ AppOrder' = RemoveAt(AppOrder, i)

(* HASH_DELETE_HH and the free of the element (src/uthash.h 461-488).      *)
LEMMA DeleteKeeps ==
  ASSUME TypeOK, TableRight, NEW e \in DOMAIN hh, Delete(e), hash' = hash
  PROVE  /\ TableTyped' /\ TableRight' /\ TakenOut(e)
         /\ head = e => head' = hh[e].next
  <1> DEFINE D == DOMAIN hh
             n == tbl.num_buckets
             k == ToBkt(e, n)
             l2 == Without(e)
             t2 == LessOne(tbl, k, e)
             s == AppOrder
  <1>1. /\ D \in SUBSET Elem /\ hh \in [D -> Handle]
        /\ n \in Nat /\ n > 0 /\ tbl \in Table(n)
        /\ hash \in [Key -> Nat] /\ hash \in HashFunction /\ head \in Pointer
        /\ OrderHolds(s, tbl, hh, head) /\ Chained(tbl, hh, D) /\ Bounded(tbl)
        /\ head # NULL
    BY UtHashAssumption, HeadOfOrder DEF TypeOK, TableRight
  <1>2. /\ hh[e] \in Handle
        /\ hh[e].prev \in Pointer /\ hh[e].next \in Pointer
        /\ hh[e].hh_prev \in Pointer /\ hh[e].hh_next \in Pointer
    <2>1. hh[e] \in Handle
      BY <1>1
    <2> QED
      BY <2>1 DEF Handle
  <1>3. PatchedOut(l2, hh, D, e) /\ l2 \in [D \ {e} -> Handle]
    <2>1. PatchedOut(l2, hh, D, e)
      BY <1>1, WithoutLinks
    <2> QED
      BY <2>1 DEF PatchedOut
  <1>4. IF hh[e].prev = NULL /\ hh[e].next = NULL
          THEN head' = NULL /\ tbl' = NoTable /\ hh' = l2
          ELSE /\ head' = IF hh[e].prev = NULL THEN hh[e].next ELSE head
               /\ tbl' = t2
               /\ hh' = l2
    BY DEF Delete, LessOne
  <1>5. hh' = l2
    BY <1>4
  <1>6. head' = IF hh[e].prev = NULL THEN hh[e].next ELSE head
    BY <1>4
  <1>7. PICK m \in DOMAIN s : e = s[m]
    <2>1. e \in Range(s)
      BY <1>1 DEF OrderHolds
    <2> QED
      BY <2>1, ElementsOfRange
  <1>8. PICK r : r = [tail |-> IF tbl.tail = e THEN hh[e].prev ELSE tbl.tail,
                      num_items |-> tbl.num_items - 1]
    OBVIOUS
  <1> HIDE DEF s, l2, t2, n, k
  <1>9. /\ OrderHolds(RemoveAt(s, m), r, l2, IF hh[e].prev = NULL THEN hh[e].next ELSE head)
        /\ hh[e].prev = NULL <=> head = e
        /\ hh[e].prev = NULL /\ hh[e].next = NULL <=> D = {e}
        /\ tbl.num_items \in Nat \ {0}
        /\ D = {e} => tbl.num_items = 1
    <2>1. /\ r.tail = IF tbl.tail = e THEN hh[e].prev ELSE tbl.tail
          /\ r.num_items = tbl.num_items - 1
      BY <1>8
    <2> HIDE DEF D
    <2> QED
      BY <1>1, <1>3, <1>7, <2>1, OrderWithout
  <1>10. PICK D2 \in SUBSET Elem : D2 = D \ {e}
    BY <1>1
  <1>11. l2 \in [D2 -> Handle] /\ DOMAIN l2 = D2
    BY <1>3, <1>10
  <1>12. head' # NULL => head' \in D2
    <2>1. OrderHolds(RemoveAt(s, m), r, l2, head')
      BY <1>6, <1>9
    <2> QED
      BY <1>11, <2>1, HeadOfOrder
  <1>13. /\ tbl'.num_buckets \in Nat /\ tbl' \in Table(tbl'.num_buckets)
         /\ tbl'.tail = r.tail /\ tbl'.num_items = r.num_items
         /\ Chained(tbl', hh', D2) /\ Bounded(tbl')
         /\ head' = NULL => tbl' = NoTable
         /\ head' # NULL => tbl'.num_buckets > 0
    <2>1. CASE D = {e}
      <3>1. head' = NULL /\ tbl' = NoTable
        BY <1>4, <1>9, <2>1
      <3>2. /\ NoTable.num_buckets = 0 /\ NoTable.tail = NULL /\ NoTable.num_items = 0
            /\ DOMAIN NoTable.buckets = {}
            /\ NoTable.num_buckets \in Nat /\ NoTable \in Table(NoTable.num_buckets)
        BY NoTableIs
      <3>3. r.tail = NULL /\ r.num_items = 0
        <4>1. tbl.tail = e
          <5>1. LastOf(s) = tbl.tail /\ s # <<>> /\ s \in Seq(Elem) /\ Range(s) = D
            BY <1>1, HeadOfOrder DEF OrderHolds, IsOrder, IsList
          <5>2. s[Len(s)] \in Range(s)
            BY <5>1 DEF Range
          <5> QED
            BY <2>1, <5>1, <5>2 DEF LastOf
        <4> QED
          BY <1>8, <1>9, <2>1, <4>1
      <3>4. Chained(NoTable, hh', D2) /\ Bounded(NoTable)
        BY <3>2 DEF Chained, Bounded
      <3> QED
        BY <3>1, <3>2, <3>3, <3>4
    <2>2. CASE D # {e}
      <3>1. tbl' = t2
        BY <1>4, <1>9, <2>2
      <3>2. k \in 0..(n - 1)
        <4>1. e \in Elem
          BY <1>1
        <4> QED
          BY <1>1, <4>1, KeyHashed DEF k
      <3>3. tbl.buckets[k].count \in Nat \ {0}
        <4>1. BucketHolds(Chain(tbl, hh, k), tbl, hh, D, k)
          BY <1>1, <3>2 DEF Chained, Table
        <4> DEFINE c == Chain(tbl, hh, k)
        <4> HIDE DEF c
        <4>2. /\ c \in Seq(Elem) /\ e \in Range(c) /\ tbl.buckets[k].count = Len(c)
          BY <4>1 DEF BucketHolds, IsShare, k, n, c
        <4>3. Len(c) # 0
          BY <4>2 DEF Range
        <4> QED
          BY <4>2, <4>3
      <3>4. /\ t2 \in Table(n) /\ t2.num_buckets = n /\ BucketLoses(t2, tbl, hh, e, n, k)
            /\ t2.tail = IF tbl.tail = e THEN hh[e].prev ELSE tbl.tail
            /\ t2.num_items = tbl.num_items - 1
            /\ t2.noexpand = tbl.noexpand /\ t2.ideal_chain_maxlen = tbl.ideal_chain_maxlen
            /\ t2.buckets \in [0..(n - 1) -> Bucket] /\ tbl.buckets \in [0..(n - 1) -> Bucket]
        BY <1>1, <1>2, <1>9, <3>2, <3>3, TableLoses DEF t2
      <3>5. Chained(t2, l2, D2)
        <4>1. k = ToBkt(e, n)
          BY DEF k
        <4>2. Chained(t2, l2, D \ {e})
          <5> HIDE DEF D
          <5>1. e \in D
            BY DEF D
          <5> QED
            BY <1>1, <1>3, <3>4, <4>1, <5>1, ChainsWithout
        <4> QED
          BY <1>10, <4>2
      <3>6. Bounded(t2)
        <4> SUFFICES ASSUME tbl.noexpand = 0, NEW b \in 0..(n - 1)
                     PROVE  \/ t2.buckets[b].count
                                 < (t2.buckets[b].expand_mult + 1) * HASH_BKT_CAPACITY_THRESH
                            \/ t2.buckets[b].count
                                 <= (t2.buckets[b].expand_mult + 1) * tbl.ideal_chain_maxlen
          BY <3>4 DEF Bounded
        <4>1. \/ tbl.buckets[b].count
                   < (tbl.buckets[b].expand_mult + 1) * HASH_BKT_CAPACITY_THRESH
              \/ tbl.buckets[b].count
                   <= (tbl.buckets[b].expand_mult + 1) * tbl.ideal_chain_maxlen
          BY <1>1, <3>4 DEF Bounded
        <4>2. CASE b # k
          BY <3>4, <4>1, <4>2 DEF BucketLoses
        <4>3. CASE b = k
          <5> DEFINE c == tbl.buckets[k].count
                     p == (tbl.buckets[k].expand_mult + 1) * HASH_BKT_CAPACITY_THRESH
                     q == (tbl.buckets[k].expand_mult + 1) * tbl.ideal_chain_maxlen
          <5>1. c \in Nat /\ p \in Nat /\ q \in Nat
            <6>1. tbl.buckets[k].expand_mult \in Nat /\ tbl.ideal_chain_maxlen \in Nat
              BY <1>1, <3>2, <3>4 DEF Table, Bucket
            <6> QED
              BY <3>3, <6>1, UtHashAssumption
          <5>2. c < p \/ c <= q
            BY <4>1, <4>3
          <5>3. /\ t2.buckets[b].count = c - 1
                /\ (t2.buckets[b].expand_mult + 1) * HASH_BKT_CAPACITY_THRESH = p
                /\ (t2.buckets[b].expand_mult + 1) * tbl.ideal_chain_maxlen = q
            BY <3>4, <4>3 DEF BucketLoses
          <5> HIDE DEF c, p, q
          <5>4. c - 1 < p \/ c - 1 <= q
            BY <5>1, <5>2
          <5> QED
            BY <5>3, <5>4
        <4> QED
          BY <4>2, <4>3
      <3>7. head' # NULL
        <4>1. OrderHolds(RemoveAt(s, m), r, l2, head')
          BY <1>6, <1>9
        <4>2. head' = NULL => D2 = {}
          BY <1>11, <4>1, HeadOfOrder
        <4> QED
          BY <1>10, <2>2, <4>2
      <3> QED
        BY <1>1, <1>5, <1>8, <3>1, <3>4, <3>5, <3>6, <3>7
    <2> QED
      BY <2>1, <2>2
  <1>14. OrderHolds(RemoveAt(s, m), tbl', hh', head')
    BY <1>5, <1>6, <1>9, <1>13 DEF OrderHolds
  <1>15. AppOrder' = RemoveAt(s, m)
    <2>1. AppOrder' = Walk(Field(hh', "next"), head')
      BY DEF AppOrder
    <2> QED
      BY <1>5, <1>11, <1>14, <2>1, OrderIs
  <1>16. TableTyped'
    BY <1>1, <1>5, <1>10, <1>11, <1>12, <1>13 DEF TableTyped, Pointer
  <1>17. OrderHolds(AppOrder, tbl, hh, head)'
    <2>1. OrderHolds(AppOrder', tbl', hh', head')
      BY <1>14, <1>15
    <2> QED
      BY <2>1 DEF OrderHolds, IsOrder, IsList, LastOf
  <1>18. Chained(tbl, hh, DOMAIN hh)'
    BY <1>5, <1>11, <1>13 DEF Chained, BucketHolds, IsShare, ToBkt
  <1>19. Bounded(tbl)'
    BY <1>13 DEF Bounded
  <1>20. TableRight'
    BY <1>13, <1>17, <1>18, <1>19 DEF TableRight
  <1>21. TakenOut(e)
    BY <1>7, <1>15 DEF TakenOut, s
  <1>22. head = e => head' = hh[e].next
    BY <1>6, <1>9
  <1> QED
    BY <1>16, <1>20, <1>21, <1>22

----------------------------------------------------------------------------
(* Finding. *)

(* The search of the one chain (src/uthash.h 758-777) meets every element  *)
(* with the key k.                                                         *)
Found(k) ==
  IF \E e \in DOMAIN hh : KeyOf[e] = k
    THEN Find(k) \in DOMAIN hh /\ KeyOf[Find(k)] = k
    ELSE Find(k) = NULL

LEMMA FindsKey ==
  ASSUME IInv, NEW k \in Key
  PROVE  Found(k)
  <1> DEFINE D == DOMAIN hh
             n == tbl.num_buckets
             b == hash[k] % n
             c == Chain(tbl, hh, b)
             hits == {i \in DOMAIN c : KeyOf[c[i]] = k}
  <1>1. /\ D \in SUBSET Elem /\ hh \in [D -> Handle]
        /\ n \in Nat /\ tbl \in Table(n) /\ hash \in [Key -> Nat]
        /\ OrderHolds(AppOrder, tbl, hh, head) /\ Chained(tbl, hh, D)
        /\ head # NULL => n > 0
    BY UtHashAssumption DEF IInv, TypeOK, TableRight
  <1>2. CASE head = NULL
    <2>1. D = {}
      BY <1>1, <1>2, HeadOfOrder
    <2> QED
      BY <1>2, <2>1 DEF Found, Find
  <1>3. CASE head # NULL
    <2>1. Find(k) = IF hits = {} THEN NULL ELSE c[Min(hits)]
      BY <1>3 DEF Find, FindInBkt
    <2>2. b \in 0..(n - 1)
      <3>1. hash[k] \in Nat
        BY <1>1
      <3> QED
        BY <1>1, <1>3, <3>1, DivMod
    <2>3. BucketHolds(c, tbl, hh, D, b)
      BY <1>1, <2>2 DEF Chained, Table
    <2>4. \A e \in D : KeyOf[e] = k => ToBkt(e, n) = b
      BY DEF ToBkt
    <2> HIDE DEF c, b
    <2>5. c \in Seq(Elem) /\ Range(c) = {e \in D : ToBkt(e, n) = b}
      BY <2>3 DEF BucketHolds, IsShare
    <2>6. CASE \E e \in D : KeyOf[e] = k
      <3>1. PICK e \in D : KeyOf[e] = k
        BY <2>6
      <3>2. e \in Range(c)
        BY <2>4, <2>5, <3>1
      <3>3. PICK i \in DOMAIN c : e = c[i]
        BY <3>2, ElementsOfRange
      <3>4. hits # {} /\ hits \in SUBSET Nat
        BY <2>5, <3>1, <3>3
      <3>5. Min(hits) \in hits
        <4> HIDE DEF hits
        <4> QED
          BY <3>4, NatMin
      <3>6. Min(hits) \in DOMAIN c /\ KeyOf[c[Min(hits)]] = k
        BY <3>5
      <3>7. c[Min(hits)] \in D
        <4> HIDE DEF hits
        <4>1. c[Min(hits)] \in Range(c)
          BY <3>6 DEF Range
        <4> QED
          BY <2>5, <4>1
      <3> HIDE DEF hits
      <3> QED
        BY <2>1, <2>6, <3>4, <3>6, <3>7 DEF Found
    <2>7. CASE ~\E e \in D : KeyOf[e] = k
      <3>1. hits = {}
        <4>1. \A i \in DOMAIN c : c[i] \in D
          BY <2>5 DEF Range
        <4> QED
          BY <2>7, <4>1
      <3> HIDE DEF hits
      <3> QED
        BY <2>1, <2>7, <3>1 DEF Found
    <2> QED
      BY <2>6, <2>7
  <1> QED
    BY <1>2, <1>3

----------------------------------------------------------------------------
(* The invariant. *)

LEMMA InitRight == Init => IInv
  <1> SUFFICES ASSUME Init PROVE IInv
    OBVIOUS
  <1>1. DOMAIN hh = {} /\ hh \in [{} -> Handle]
    BY DEF Init
  <1>2. head = NULL /\ el = NULL /\ tmp = NULL /\ hash \in HashFunction /\ tbl = NoTable
    BY DEF Init
  <1>3. OrderHolds(<<>>, tbl, hh, head)
    <2>1. IsOrder(<<>>, hh, NULL)
      BY DEF IsOrder, IsList
    <2>2. Range(<<>>) = {} /\ Len(<<>>) = 0
      BY DEF Range
    <2> QED
      BY <1>1, <1>2, <2>1, <2>2, NoTableIs DEF OrderHolds, LastOf
  <1>4. AppOrder = <<>>
    BY <1>1, <1>3, OrderIs DEF AppOrder
  <1>5. Chained(tbl, hh, DOMAIN hh) /\ Bounded(tbl)
    BY <1>2, NoTableIs DEF Chained, Bounded
  <1>6. TypeOK
    BY <1>1, <1>2, NoTableIs DEF TypeOK, Pointer
  <1> QED
    BY <1>2, <1>3, <1>4, <1>5, <1>6 DEF IInv, TableRight, CursorsRight

(* What does not touch the table keeps it right.                           *)
LEMMA TableFrame ==
  ASSUME TypeOK, TableRight, UNCHANGED <<hash, head, tbl, hh>>
  PROVE  TableTyped' /\ TableRight' /\ AppOrder' = AppOrder
  <1>1. hash' = hash /\ head' = head /\ tbl' = tbl /\ hh' = hh
    OBVIOUS
  <1>2. AppOrder' = AppOrder
    <2>1. AppOrder' = Walk(Field(hh', "next"), head')
      BY DEF AppOrder
    <2> QED
      BY <1>1, <2>1 DEF AppOrder
  <1>3. OrderHolds(AppOrder, tbl, hh, head)'
    <2>1. OrderHolds(AppOrder', tbl', hh', head')
      BY <1>1, <1>2 DEF TableRight
    <2> QED
      BY <2>1 DEF OrderHolds, IsOrder, IsList, LastOf
  <1>4. Chained(tbl, hh, DOMAIN hh)'
    BY <1>1 DEF TableRight, Chained, BucketHolds, IsShare, ToBkt
  <1>5. Bounded(tbl)'
    BY <1>1 DEF TableRight, Bounded
  <1> QED
    BY <1>1, <1>2, <1>3, <1>4, <1>5 DEF TableRight, TypeOK, TableTyped

(* remove_stream (src/provider.c 338-351).                                 *)
LEMMA RemoveKeyKeeps ==
  ASSUME IInv, NEW k \in Key, RemoveKey(k)
  PROVE  IInv' /\ Find(k) \in DOMAIN hh /\ KeyOf[Find(k)] = k /\ TakenOut(Find(k))
  <1>1. /\ Find(k) # NULL /\ Delete(Find(k))
        /\ hash' = hash /\ el = NULL /\ el' = NULL /\ tmp' = tmp /\ tmp = NULL
    BY DEF RemoveKey, IInv, CursorsRight
  <1>2. Find(k) \in DOMAIN hh /\ KeyOf[Find(k)] = k
    BY <1>1, FindsKey DEF Found
  <1>3. TableTyped' /\ TableRight' /\ TakenOut(Find(k))
    BY <1>1, <1>2, DeleteKeeps DEF IInv
  <1>4. TypeOK' /\ CursorsRight'
    BY <1>1, <1>3 DEF TypeOK, TableTyped, CursorsRight, Pointer
  <1> QED
    BY <1>2, <1>3, <1>4 DEF IInv

(* The loop of remove_all_streams begins (src/provider.c 353-362).         *)
LEMMA RemoveAllKeeps ==
  ASSUME IInv, RemoveAll
  PROVE  IInv'
  <1>1. /\ head # NULL /\ el' = head /\ tmp' = hh[head].next
        /\ UNCHANGED <<hash, head, tbl, hh>>
    BY DEF RemoveAll
  <1>2. TableTyped' /\ TableRight'
    BY <1>1, TableFrame DEF IInv
  <1>3. head \in DOMAIN hh /\ hh \in [DOMAIN hh -> Handle] /\ head \in Pointer
    BY <1>1, HeadOfOrder DEF IInv, TableRight, TypeOK
  <1>4. hh[head].next \in Pointer
    <2>1. hh[head] \in Handle
      BY <1>3
    <2> QED
      BY <2>1 DEF Handle
  <1>5. TypeOK' /\ CursorsRight'
    BY <1>1, <1>2, <1>3, <1>4 DEF TypeOK, TableTyped, CursorsRight
  <1> QED
    BY <1>2, <1>5 DEF IInv

(* It goes on.                                                             *)
LEMMA RemoveNextKeeps ==
  ASSUME IInv, RemoveNext
  PROVE  IInv' /\ (el' = NULL => head' = NULL)
  <1>1. /\ el # NULL /\ Delete(el) /\ el' = tmp /\ hash' = hash
        /\ tmp' = IF tmp = NULL THEN NULL ELSE hh'[tmp].next
        /\ el = head /\ tmp = hh[head].next
        /\ tmp \in Pointer
    BY DEF RemoveNext, IInv, CursorsRight, TypeOK
  <1>2. el \in DOMAIN hh
    BY <1>1, HeadOfOrder DEF IInv, TableRight
  <1>3. TableTyped' /\ TableRight' /\ head' = tmp
    BY <1>1, <1>2, DeleteKeeps DEF IInv
  <1>4. tmp # NULL => hh'[tmp].next \in Pointer
    <2>1. ASSUME tmp # NULL PROVE tmp \in DOMAIN hh'
      <3>1. OrderHolds(AppOrder', tbl', hh', head')
        BY <1>3 DEF TableRight, OrderHolds, IsOrder, IsList, LastOf
      <3> QED
        BY <1>3, <2>1, <3>1, HeadOfOrder
    <2>2. tmp # NULL => hh'[tmp] \in Handle
      BY <1>3, <2>1 DEF TableTyped
    <2> QED
      BY <2>2 DEF Handle
  <1>5. TypeOK'
    <2>1. tmp' \in Pointer
      BY <1>1, <1>4 DEF Pointer
    <2> QED
      BY <1>1, <1>3, <2>1 DEF TypeOK, TableTyped
  <1>6. CursorsRight'
    BY <1>1, <1>3 DEF CursorsRight
  <1> QED
    BY <1>1, <1>3, <1>5, <1>6 DEF IInv

LEMMA NextKeeps == IInv /\ [Next]_vars => IInv'
  <1> SUFFICES ASSUME IInv, [Next]_vars PROVE IInv'
    OBVIOUS
  <1>1. ASSUME NEW e \in Elem, Add(e) PROVE IInv'
    BY <1>1, AddKeeps
  <1>2. ASSUME NEW k \in Key, RemoveKey(k) PROVE IInv'
    BY <1>2, RemoveKeyKeeps
  <1>3. CASE RemoveAll
    BY <1>3, RemoveAllKeeps
  <1>4. CASE RemoveNext
    BY <1>4, RemoveNextKeeps
  <1>5. CASE UNCHANGED vars
    <2>1. UNCHANGED <<hash, head, tbl, hh>> /\ el' = el /\ tmp' = tmp
      BY <1>5 DEF vars
    <2>2. TableTyped' /\ TableRight'
      BY <2>1, TableFrame DEF IInv
    <2>3. TypeOK' /\ CursorsRight'
      BY <2>1, <2>2 DEF IInv, TypeOK, TableTyped, CursorsRight
    <2> QED
      BY <2>2, <2>3 DEF IInv
  <1> QED
    BY <1>1, <1>2, <1>3, <1>4, <1>5 DEF Next

(* The inductive invariant: the lists of the table, forward and backward,  *)
(* and its counts, whatever was added and deleted (src/uthash.h 223-896).  *)
THEOREM Invariance == Spec => []IInv
  BY InitRight, NextKeeps, PTL DEF Spec

(* Every handle is that of an element, and a table has one bucket for each *)
(* value of its mask.                                                      *)
THEOREM TypeCorrect == Spec => []TypeOK
  <1>1. IInv => TypeOK
    BY DEF IInv
  <1> QED
    BY <1>1, Invariance, PTL

(* HASH_FIND (src/uthash.h 164-184) finds every element that is in the     *)
(* table under its key and no other.                                       *)
THEOREM FindsRight == Spec => []FindsExactly
  <1>1. IInv => FindsExactly
    BY FindsKey DEF FindsExactly, Found
  <1> QED
    BY <1>1, Invariance, PTL

(* Until expansion is given up no chain is longer than its threshold or    *)
(* than the ideal the last expansion aimed at (src/uthash.h 790-793).      *)
THEOREM ChainsStayBounded == Spec => []ChainsBounded
  <1>1. IInv => ChainsBounded
    BY DEF IInv, TableRight, Bounded, ChainsBounded
  <1> QED
    BY <1>1, Invariance, PTL

----------------------------------------------------------------------------
(* No dangling pointer. *)

(* The pointers of a list stay in it.                                      *)
LEMMA ListClosed ==
  ASSUME NEW s, NEW to, NEW back, NEW first, IsList(s, to, back, first)
  PROVE  /\ first \in Range(s) \cup {NULL}
         /\ \A x \in Range(s) : /\ to[x] \in Range(s) \cup {NULL}
                                /\ back[x] \in Range(s) \cup {NULL}
  <1>1. /\ s \in Seq(Elem) /\ DOMAIN s = 1..Len(s) /\ Len(s) \in Nat
        /\ \A i \in 1..Len(s) : s[i] \in Range(s)
        /\ first = IF s = <<>> THEN NULL ELSE s[1]
    BY DEF IsList, Range
  <1>2. s # <<>> => 1 \in 1..Len(s)
    BY <1>1
  <1>3. ASSUME NEW x \in Range(s)
        PROVE  to[x] \in Range(s) \cup {NULL} /\ back[x] \in Range(s) \cup {NULL}
    <2>1. PICK i \in DOMAIN s : x = s[i]
      BY ElementsOfRange
    <2>2. /\ to[x] = IF i < Len(s) THEN s[i + 1] ELSE NULL
          /\ back[x] = IF i > 1 THEN s[i - 1] ELSE NULL
      BY <2>1 DEF IsList
    <2>3. (i < Len(s) => i + 1 \in 1..Len(s)) /\ (i > 1 => i - 1 \in 1..Len(s))
      BY <1>1, <2>1
    <2> QED
      BY <1>1, <2>2, <2>3
  <1> QED
    BY <1>1, <1>2, <1>3

LEMMA LivePointers == IInv => PointersLive
  <1> SUFFICES ASSUME IInv PROVE PointersLive
    OBVIOUS
  <1> DEFINE D == DOMAIN hh
             n == tbl.num_buckets
             s == AppOrder
  <1>1. /\ D \in SUBSET Elem /\ hh \in [D -> Handle]
        /\ n \in Nat /\ tbl \in Table(n) /\ hash \in [Key -> Nat]
        /\ DOMAIN tbl.buckets = 0..(n - 1)
        /\ OrderHolds(s, tbl, hh, head) /\ Chained(tbl, hh, D)
        /\ head # NULL => n > 0
    BY UtHashAssumption DEF IInv, TypeOK, TableRight, Table
  <1> HIDE DEF s
  <1>2. /\ Range(s) = D /\ tbl.tail = LastOf(s) /\ s \in Seq(Elem)
        /\ IsList(s, Field(hh, "next"), Field(hh, "prev"), head)
    BY <1>1 DEF OrderHolds, IsOrder, IsList
  <1>3. ASSUME NEW b \in 0..(n - 1)
        PROVE  /\ Range(Chain(tbl, hh, b)) = {x \in D : ToBkt(x, n) = b}
               /\ IsList(Chain(tbl, hh, b), Field(hh, "hh_next"), Field(hh, "hh_prev"),
                         tbl.buckets[b].hh_head)
    <2>1. BucketHolds(Chain(tbl, hh, b), tbl, hh, D, b)
      BY <1>1 DEF Chained
    <2> QED
      BY <2>1 DEF BucketHolds, IsShare, IsChain
  <1>4. ASSUME NEW x \in D PROVE Range(hh[x]) \subseteq D \cup {NULL}
    <2>1. hh[x].next \in D \cup {NULL} /\ hh[x].prev \in D \cup {NULL}
      <3>1. /\ Field(hh, "next")[x] \in D \cup {NULL}
            /\ Field(hh, "prev")[x] \in D \cup {NULL}
        BY <1>2, ListClosed
      <3> QED
        BY <1>1, <3>1, FieldsOf
    <2>2. hh[x].hh_next \in D \cup {NULL} /\ hh[x].hh_prev \in D \cup {NULL}
      <3> DEFINE b == ToBkt(x, n)
                 c == Chain(tbl, hh, b)
      <3>1. b \in 0..(n - 1)
        <4>1. head # NULL
          BY <1>1, HeadOfOrder
        <4>2. x \in Elem
          BY <1>1
        <4> HIDE DEF n
        <4> QED
          BY <1>1, <4>1, <4>2, KeyHashed
      <3> HIDE DEF b
      <3>2. /\ Range(c) = {y \in D : ToBkt(y, n) = b}
            /\ IsList(c, Field(hh, "hh_next"), Field(hh, "hh_prev"), tbl.buckets[b].hh_head)
        BY <1>3, <3>1
      <3> HIDE DEF c
      <3>3. x \in Range(c)
        BY <3>2 DEF b
      <3>4. /\ Field(hh, "hh_next")[x] \in Range(c) \cup {NULL}
            /\ Field(hh, "hh_prev")[x] \in Range(c) \cup {NULL}
        BY <3>2, <3>3, ListClosed
      <3>5. Range(c) \subseteq D
        BY <3>2
      <3>6. /\ Field(hh, "hh_next")[x] = hh[x].hh_next
            /\ Field(hh, "hh_prev")[x] = hh[x].hh_prev
        BY <1>1, FieldsOf
      <3> QED
        BY <3>4, <3>5, <3>6
    <2>3. DOMAIN hh[x] = {"prev", "next", "hh_prev", "hh_next"}
      BY <1>1 DEF Handle
    <2>4. \A f \in DOMAIN hh[x] : hh[x][f] \in D \cup {NULL}
      BY <2>1, <2>2, <2>3
    <2> QED
      BY <2>4 DEF Range
  <1>5. ASSUME NEW b \in DOMAIN tbl.buckets PROVE tbl.buckets[b].hh_head \in D \cup {NULL}
    <2>1. b \in 0..(n - 1)
      BY <1>1
    <2> QED
      BY <2>1, <1>3, ListClosed
  <1>6. head \in D \cup {NULL}
    BY <1>2, ListClosed
  <1>7. tbl.tail \in D \cup {NULL}
    <2>1. s # <<>> => s[Len(s)] \in Range(s)
      BY <1>2 DEF Range
    <2> QED
      BY <1>2, <2>1 DEF LastOf
  <1>8. el \in D \cup {NULL} /\ tmp \in D \cup {NULL}
    <2>1. CASE el = NULL
      BY <2>1 DEF IInv, CursorsRight
    <2>2. CASE el # NULL
      <3>1. el = head /\ tmp = hh[head].next
        BY <2>2 DEF IInv, CursorsRight
      <3>2. head \in D
        BY <1>6, <2>2, <3>1
      <3>3. Field(hh, "next")[head] \in D \cup {NULL}
        BY <1>2, <3>2, ListClosed
      <3>4. Field(hh, "next")[head] = hh[head].next
        BY <1>1, <3>2, FieldsOf
      <3> QED
        BY <3>1, <3>2, <3>3, <3>4
    <2> QED
      BY <2>1, <2>2
  <1>9. head # NULL => tbl.tail = Last(s)
    BY <1>1, <1>2, HeadOfOrder DEF LastOf, Last
  <1> QED
    BY <1>4, <1>5, <1>6, <1>7, <1>8, <1>9 DEF PointersLive, s

(* No pointer of the table, of a handle or of the loop leads to an element *)
(* that was freed (src/uthash.h 461-488, 1069-1076).                       *)
THEOREM PointersStayLive == Spec => []PointersLive
  BY LivePointers, Invariance, PTL

----------------------------------------------------------------------------
(* The counts. *)

(* A list has as many elements as places.                                  *)
LEMMA ListCounts ==
  ASSUME NEW s \in Seq(Elem), \A i, j \in DOMAIN s : s[i] = s[j] => i = j
  PROVE  IsFiniteSet(Range(s)) /\ Cardinality(Range(s)) = Len(s)
  <1>1. Len(s) \in Nat /\ DOMAIN s = 1..Len(s)
    OBVIOUS
  <1>2. s \in [1..Len(s) -> Range(s)]
    <2>1. s = [i \in 1..Len(s) |-> s[i]] /\ \A i \in 1..Len(s) : s[i] \in Range(s)
      BY <1>1 DEF Range
    <2> QED
      BY <2>1
  <1>3. s \in Bijection(1..Len(s), Range(s))
    <2>1. \A x \in Range(s) : \E i \in 1..Len(s) : s[i] = x
      BY <1>1 DEF Range
    <2>2. IsInjective(s)
      BY DEF IsInjective
    <2> QED
      BY <1>2, <2>1, <2>2 DEF Bijection, Injection, Surjection
  <1>4. IsFiniteSet(1..Len(s)) /\ Cardinality(1..Len(s)) = Len(s)
    <2>1. 1 \in Int /\ Len(s) \in Int
      BY <1>1
    <2>2. /\ IsFiniteSet(1..Len(s))
          /\ Cardinality(1..Len(s)) = IF 1 > Len(s) THEN 0 ELSE Len(s) - 1 + 1
      BY <2>1, FS_Interval
    <2> QED
      BY <1>1, <2>2
  <1>5. ExistsBijection(1..Len(s), Range(s))
    BY <1>3 DEF ExistsBijection
  <1> QED
    BY <1>4, <1>5, FS_Bijection

(* The places of the buckets and the elements of the table correspond.     *)
LEMMA PlacesCount ==
  ASSUME IInv
  PROVE  Cardinality(Places) = Cardinality(DOMAIN hh)
  <1> DEFINE D == DOMAIN hh
             n == tbl.num_buckets
             c(b) == Chain(tbl, hh, b)
             f == [p \in Places |-> c(p[1])[p[2]]]
  <1>1. /\ D \in SUBSET Elem /\ hh \in [D -> Handle]
        /\ n \in Nat /\ tbl \in Table(n) /\ hash \in [Key -> Nat]
        /\ DOMAIN tbl.buckets = 0..(n - 1)
        /\ OrderHolds(AppOrder, tbl, hh, head) /\ Chained(tbl, hh, D)
        /\ head # NULL => n > 0
    BY UtHashAssumption DEF IInv, TypeOK, TableRight, Table
  <1> HIDE DEF n, D
  <1>2. ASSUME NEW b \in 0..(n - 1)
        PROVE  /\ c(b) \in Seq(Elem) /\ tbl.buckets[b].count = Len(c(b))
               /\ DOMAIN c(b) = 1..Len(c(b))
               /\ \A i, j \in DOMAIN c(b) : c(b)[i] = c(b)[j] => i = j
               /\ Range(c(b)) = {x \in D : ToBkt(x, n) = b}
    <2>1. BucketHolds(c(b), tbl, hh, D, b)
      BY <1>1 DEF Chained
    <2> HIDE DEF c
    <2> QED
      BY <2>1 DEF BucketHolds, IsShare, n
  <1> HIDE DEF c
  <1>3. \A p : p \in Places <=>
          \E b \in 0..(n - 1) : \E i \in DOMAIN c(b) : p = <<b, i>>
    <2>1. \A b \in 0..(n - 1) : 1..tbl.buckets[b].count = DOMAIN c(b)
      BY <1>2
    <2>2. Places = UNION {{b} \X (1..tbl.buckets[b].count) : b \in 0..(n - 1)}
      BY <1>1 DEF Places
    <2>3. \A p : p \in Places <=>
            \E b \in 0..(n - 1) : p \in {b} \X (1..tbl.buckets[b].count)
      BY <2>2
    <2>4. \A b, S, p : p \in {b} \X S <=> \E i \in S : p = <<b, i>>
      OBVIOUS
    <2>5. ASSUME NEW p, NEW b \in 0..(n - 1)
          PROVE  p \in {b} \X (1..tbl.buckets[b].count) <=> \E i \in DOMAIN c(b) : p = <<b, i>>
      <3>1. PICK S : S = DOMAIN c(b)
        OBVIOUS
      <3>2. PICK T : T = 1..tbl.buckets[b].count
        OBVIOUS
      <3>3. S = T
        BY <2>1, <3>1, <3>2
      <3>4. p \in {b} \X T <=> \E i \in S : p = <<b, i>>
        BY <2>4, <3>3
      <3> QED
        BY <3>1, <3>2, <3>4
    <2> QED
      BY <2>3, <2>5
  <1>4. ASSUME NEW b \in 0..(n - 1), NEW i \in DOMAIN c(b)
        PROVE  /\ <<b, i>> \in Places /\ f[<<b, i>>] = c(b)[i]
               /\ c(b)[i] \in D /\ ToBkt(c(b)[i], n) = b
    <2>1. <<b, i>> \in Places
      BY <1>3
    <2>2. f[<<b, i>>] = c(b)[i]
      BY <2>1
    <2>3. c(b)[i] \in Range(c(b))
      BY DEF Range
    <2> HIDE DEF f
    <2> QED
      BY <1>2, <2>1, <2>2, <2>3
  <1>5. f \in [Places -> D]
    <2>1. \A p \in Places : f[p] \in D
      <3> HIDE DEF f
      <3> QED
        BY <1>3, <1>4
    <2>2. f = [p \in Places |-> f[p]]
      OBVIOUS
    <2> HIDE DEF f
    <2> QED
      BY <2>1, <2>2
  <1> HIDE DEF f
  <1>6. ASSUME NEW p \in Places, NEW q \in Places, f[p] = f[q] PROVE p = q
    <2>1. PICK b \in 0..(n - 1) : \E i \in DOMAIN c(b) : p = <<b, i>>
      BY <1>3
    <2>2. PICK i \in DOMAIN c(b) : p = <<b, i>>
      BY <2>1
    <2>3. PICK a \in 0..(n - 1) : \E j \in DOMAIN c(a) : q = <<a, j>>
      BY <1>3
    <2>4. PICK j \in DOMAIN c(a) : q = <<a, j>>
      BY <2>3
    <2>5. c(b)[i] = c(a)[j] /\ ToBkt(c(b)[i], n) = b /\ ToBkt(c(a)[j], n) = a
      BY <1>4, <1>6, <2>2, <2>4
    <2>6. a = b
      BY <2>5
    <2>7. i = j
      BY <1>2, <2>5, <2>6
    <2> QED
      BY <2>2, <2>4, <2>6, <2>7
  <1>7. ASSUME NEW x \in D PROVE \E p \in Places : f[p] = x
    <2>1. PICK b : b = ToBkt(x, n)
      OBVIOUS
    <2>2. b \in 0..(n - 1)
      <3>1. head # NULL
        BY <1>1, HeadOfOrder DEF D
      <3>2. x \in Elem
        BY <1>1
      <3> QED
        BY <1>1, <2>1, <3>1, <3>2, KeyHashed
    <2>3. x \in Range(c(b))
      BY <1>2, <2>1, <2>2
    <2>4. PICK i \in DOMAIN c(b) : x = c(b)[i]
      BY <2>3, ElementsOfRange
    <2> QED
      BY <1>4, <2>2, <2>4
  <1>8. f \in Bijection(Places, D)
    BY <1>5, <1>6, <1>7 DEF Bijection, Injection, Surjection, IsInjective
  <1>9. ExistsBijection(D, Places)
    <2>1. ExistsBijection(Places, D)
      BY <1>8 DEF ExistsBijection
    <2> QED
      BY <2>1, Fun_ExistsBijSymmetric
  <1>10. IsFiniteSet(D)
    BY <1>1, FS_Subset, UtHashAssumption
  <1> QED
    BY <1>9, <1>10, FS_Bijection DEF D

LEMMA CountsAgree == IInv => Fsck
  <1> SUFFICES ASSUME IInv PROVE Fsck
    OBVIOUS
  <1>1. /\ DOMAIN hh \in SUBSET Elem /\ hh \in [DOMAIN hh -> Handle]
        /\ OrderHolds(AppOrder, tbl, hh, head) /\ Chained(tbl, hh, DOMAIN hh)
    BY DEF IInv, TypeOK, TableRight
  <1>2. ASSUME NEW b \in DOMAIN tbl.buckets
        PROVE  /\ tbl.buckets[b].count = Len(Chain(tbl, hh, b))
               /\ Backward(Chain(tbl, hh, b), Field(hh, "hh_prev"))
    <2>1. BucketHolds(Chain(tbl, hh, b), tbl, hh, DOMAIN hh, b)
      BY <1>1 DEF Chained
    <2> QED
      BY <2>1 DEF BucketHolds, IsChain, IsList, Backward
  <1>3. /\ Len(AppOrder) = tbl.num_items
        /\ Backward(AppOrder, Field(hh, "prev"))
    BY <1>1 DEF OrderHolds, IsOrder, IsList, Backward
  <1>4. Cardinality(DOMAIN hh) = Len(AppOrder)
    BY <1>1, ListCounts DEF OrderHolds, IsOrder, IsList
  <1>5. Cardinality(Places) = tbl.num_items
    BY <1>3, <1>4, PlacesCount
  <1> QED
    BY <1>2, <1>3, <1>5 DEF Fsck

(* What HASH_FSCK looks for (src/uthash.h 527-573) is so after every call, *)
(* whatever the table has grown through.                                   *)
THEOREM FsckPasses == Spec => []Fsck
  BY CountsAgree, Invariance, PTL

----------------------------------------------------------------------------
(* The refinement. *)

Entry == [elem : Elem, key : Key]

(* What the abstract registry holds when the elements are s. *)
Entries(s) == [i \in DOMAIN s |-> [elem |-> s[i], key |-> KeyOf[s[i]]]]

Mapped == IF el # NULL THEN <<>> ELSE Entries(AppOrder)

LEMMA EntriesShape ==
  ASSUME NEW s \in Seq(Elem)
  PROVE  /\ Entries(s) \in Seq(Entry) /\ Len(Entries(s)) = Len(s)
         /\ DOMAIN Entries(s) = 1..Len(s)
         /\ \A i \in 1..Len(s) : /\ Entries(s)[i].elem = s[i]
                                 /\ Entries(s)[i].key = KeyOf[s[i]]
                                 /\ Entries(s)[i] = [elem |-> s[i], key |-> KeyOf[s[i]]]
  <1>1. DOMAIN s = 1..Len(s) /\ Len(s) \in Nat
    OBVIOUS
  <1>2. \A i \in 1..Len(s) : [elem |-> s[i], key |-> KeyOf[s[i]]] \in Entry
    BY UtHashAssumption DEF Entry
  <1>3. Entries(s) = [i \in 1..Len(s) |-> [elem |-> s[i], key |-> KeyOf[s[i]]]]
    BY <1>1 DEF Entries
  <1> QED
    BY <1>1, <1>2, <1>3

LEMMA AddEntries ==
  ASSUME NEW s \in Seq(Elem), NEW e \in Elem
  PROVE  Entries(Append(s, e)) = Append(Entries(s), [elem |-> e, key |-> KeyOf[e]])
  <1> DEFINE t == Append(s, e)
             E == Entries(s)
             F == Entries(t)
             x == [elem |-> e, key |-> KeyOf[e]]
             G == Append(E, x)
  <1>1. /\ t \in Seq(Elem) /\ Len(t) = Len(s) + 1 /\ Len(s) \in Nat
        /\ t[Len(s) + 1] = e /\ \A i \in 1..Len(s) : t[i] = s[i]
    BY AppendProperties
  <1> HIDE DEF t
  <1>2. /\ E \in Seq(Entry) /\ Len(E) = Len(s)
        /\ \A i \in 1..Len(s) : E[i] = [elem |-> s[i], key |-> KeyOf[s[i]]]
    BY EntriesShape
  <1>3. /\ F \in Seq(Entry) /\ Len(F) = Len(s) + 1
        /\ \A i \in 1..(Len(s) + 1) : F[i] = [elem |-> t[i], key |-> KeyOf[t[i]]]
    BY <1>1, EntriesShape
  <1>4. x \in Entry
    BY UtHashAssumption DEF Entry
  <1> HIDE DEF E, F, x
  <1>5. /\ G \in Seq(Entry) /\ Len(G) = Len(s) + 1
        /\ \A i \in 1..Len(s) : G[i] = E[i]
        /\ G[Len(s) + 1] = x
    BY <1>2, <1>4, AppendProperties
  <1> HIDE DEF G
  <1>6. \A i \in 1..(Len(s) + 1) : F[i] = G[i]
    <2>1. \A i \in 1..Len(s) : F[i] = G[i] /\ i \in 1..(Len(s) + 1)
      BY <1>1, <1>2, <1>3, <1>5
    <2>2. F[Len(s) + 1] = G[Len(s) + 1]
      BY <1>1, <1>3, <1>5 DEF x
    <2>3. \A i \in 1..(Len(s) + 1) : i = Len(s) + 1 \/ i \in 1..Len(s)
      BY <1>1
    <2> QED
      BY <2>1, <2>2, <2>3
  <1>7. F = G
    BY <1>3, <1>5, <1>6, SeqEqual
  <1> QED
    BY <1>7 DEF F, G, E, x, t

LEMMA RemoveEntries ==
  ASSUME NEW s \in Seq(Elem), NEW i \in 1..Len(s)
  PROVE  Entries(RemoveAt(s, i)) = RemoveAt(Entries(s), i)
  <1> DEFINE t == RemoveAt(s, i)
             E == Entries(s)
             F == Entries(t)
             G == RemoveAt(E, i)
             L == Len(s)
  <1>1. t \in Seq(Elem) /\ SkipsOne(t, s, i) /\ L \in Nat
    BY RemoveAtProperties
  <1> HIDE DEF t
  <1>2. /\ Len(t) = L - 1
        /\ \A j \in 1..(L - 1) : t[j] = IF j < i THEN s[j] ELSE s[j + 1]
    BY <1>1 DEF SkipsOne
  <1>3. /\ E \in Seq(Entry) /\ Len(E) = L
        /\ \A j \in 1..L : E[j] = [elem |-> s[j], key |-> KeyOf[s[j]]]
    BY EntriesShape
  <1>4. /\ F \in Seq(Entry) /\ Len(F) = L - 1
        /\ \A j \in 1..(L - 1) : F[j] = [elem |-> t[j], key |-> KeyOf[t[j]]]
    BY <1>1, <1>2, EntriesShape
  <1> HIDE DEF E, F
  <1>5. G \in Seq(Entry) /\ SkipsOne(G, E, i)
    BY <1>3, RemoveAtProperties
  <1> HIDE DEF G, L
  <1>6. /\ Len(G) = L - 1
        /\ \A j \in 1..(L - 1) : G[j] = IF j < i THEN E[j] ELSE E[j + 1]
    BY <1>3, <1>5 DEF SkipsOne
  <1>7. ASSUME NEW j \in 1..(L - 1) PROVE F[j] = G[j]
    <2>1. CASE j < i
      <3>1. j \in 1..L
        BY <1>1
      <3>2. F[j] = [elem |-> s[j], key |-> KeyOf[s[j]]]
        BY <1>2, <1>4, <2>1
      <3>3. G[j] = [elem |-> s[j], key |-> KeyOf[s[j]]]
        BY <1>3, <1>6, <2>1, <3>1
      <3> QED
        BY <3>2, <3>3
    <2>2. CASE ~(j < i)
      <3>1. j + 1 \in 1..L
        BY <1>1
      <3>2. F[j] = [elem |-> s[j + 1], key |-> KeyOf[s[j + 1]]]
        BY <1>2, <1>4, <2>2
      <3>3. G[j] = [elem |-> s[j + 1], key |-> KeyOf[s[j + 1]]]
        BY <1>3, <1>6, <2>2, <3>1
      <3> QED
        BY <3>2, <3>3
    <2> QED
      BY <2>1, <2>2
  <1>8. F = G
    BY <1>4, <1>5, <1>6, <1>7, SeqEqual
  <1> QED
    BY <1>8 DEF F, G, E, t

LEMMA OrderOfInsertion ==
  ASSUME IInv
  PROVE  /\ AppOrder \in Seq(Elem) /\ DOMAIN AppOrder = 1..Len(AppOrder)
         /\ Range(AppOrder) = DOMAIN hh /\ \A i \in DOMAIN AppOrder : AppOrder[i] \in DOMAIN hh
         /\ AppOrder = <<>> <=> head = NULL
  <1>1. AppOrder \in Seq(Elem) /\ Range(AppOrder) = DOMAIN hh
    BY DEF IInv, TableRight, OrderHolds, IsOrder, IsList
  <1>2. AppOrder = <<>> <=> head = NULL
    BY HeadOfOrder DEF IInv, TableRight
  <1> QED
    BY <1>1, <1>2 DEF Range

LEMMA AddMapped ==
  ASSUME IInv, NEW e \in Elem, Add(e)
  PROVE  /\ Mapped' = Append(Mapped, [elem |-> e, key |-> KeyOf[e]])
         /\ \A i \in DOMAIN Mapped : Mapped[i].key # KeyOf[e] /\ Mapped[i].elem # e
  <1> DEFINE s == AppOrder
  <1>1. el = NULL /\ el' = NULL /\ e \notin DOMAIN hh /\ Find(KeyOf[e]) = NULL
    BY DEF Add
  <1>2. AppOrder' = Append(AppOrder, e)
    BY AddKeeps
  <1>3. /\ s \in Seq(Elem) /\ DOMAIN s = 1..Len(s)
        /\ \A i \in DOMAIN s : s[i] \in DOMAIN hh
    BY OrderOfInsertion
  <1>4. KeyOf[e] \in Key /\ NULL \notin DOMAIN hh
    BY UtHashAssumption DEF IInv, TypeOK
  <1>5. \A x \in DOMAIN hh : KeyOf[x] # KeyOf[e]
    BY <1>1, <1>4, FindsKey DEF Found
  <1>6. Mapped = Entries(s) /\ Mapped' = Entries(Append(s, e))
    BY <1>1, <1>2 DEF Mapped, Entries
  <1> HIDE DEF s
  <1>7. Mapped' = Append(Mapped, [elem |-> e, key |-> KeyOf[e]])
    BY <1>3, <1>6, AddEntries
  <1>8. \A i \in DOMAIN Mapped : Mapped[i].key # KeyOf[e] /\ Mapped[i].elem # e
    <2>1. DOMAIN Mapped = 1..Len(s)
          /\ \A i \in 1..Len(s) : Mapped[i].elem = s[i] /\ Mapped[i].key = KeyOf[s[i]]
      BY <1>3, <1>6, EntriesShape
    <2>2. \A i \in 1..Len(s) : s[i] \in DOMAIN hh
      BY <1>3
    <2> QED
      BY <1>1, <1>5, <2>1, <2>2
  <1> QED
    BY <1>7, <1>8

(* The entry i, of the key k, is taken out of the registry. *)
EntryOut(i, k) ==
  i \in DOMAIN Mapped /\ Mapped[i].key = k /\ Mapped' = RemoveAt(Mapped, i)

LEMMA RemoveMapped ==
  ASSUME IInv, NEW k \in Key, RemoveKey(k)
  PROVE  \E i : EntryOut(i, k)
  <1> DEFINE s == AppOrder
  <1>1. el = NULL /\ el' = NULL
    BY DEF RemoveKey
  <1>2. KeyOf[Find(k)] = k /\ TakenOut(Find(k))
    BY RemoveKeyKeeps
  <1>3. PICK i \in DOMAIN AppOrder : AppOrder[i] = Find(k) /\ AppOrder' = RemoveAt(AppOrder, i)
    BY <1>2 DEF TakenOut
  <1>4. s \in Seq(Elem) /\ DOMAIN s = 1..Len(s)
    BY OrderOfInsertion
  <1>5. Mapped = Entries(s) /\ Mapped' = Entries(RemoveAt(s, i))
    BY <1>1, <1>3 DEF Mapped, Entries
  <1>6. s[i] = Find(k) /\ i \in 1..Len(s)
    BY <1>3, <1>4
  <1> HIDE DEF s
  <1>7. Mapped' = RemoveAt(Mapped, i)
    BY <1>4, <1>5, <1>6, RemoveEntries
  <1>8. i \in DOMAIN Mapped /\ Mapped[i].key = k
    BY <1>2, <1>4, <1>5, <1>6, EntriesShape
  <1> QED
    BY <1>7, <1>8 DEF EntryOut

LEMMA LoopMapped ==
  ASSUME IInv, IInv', RemoveNext
  PROVE  UNCHANGED Mapped
  <1>1. el # NULL /\ (el' = NULL => head' = NULL)
    BY RemoveNextKeeps DEF RemoveNext
  <1>2. Mapped = <<>>
    BY <1>1 DEF Mapped
  <1>3. ASSUME el' = NULL PROVE Mapped' = <<>>
    <2>1. /\ AppOrder' = <<>> <=> head' = NULL
      BY HeadOfOrder DEF IInv, TableRight, OrderHolds, IsOrder, IsList, LastOf
    <2>2. Mapped' = Entries(AppOrder')
      BY <1>3 DEF Mapped, Entries
    <2> QED
      BY <1>1, <1>3, <2>1, <2>2 DEF Entries
  <1>4. el' # NULL => Mapped' = <<>>
    BY DEF Mapped
  <1> QED
    BY <1>2, <1>3, <1>4

LEMMA NextMapped ==
  ASSUME IInv, IInv', [Next]_vars
  PROVE  Abstract!Next \/ UNCHANGED Mapped
  <1>1. ASSUME NEW e \in Elem, Add(e) PROVE Abstract!Next
    <2>1. KeyOf[e] \in Key
      BY UtHashAssumption
    <2>2. Abstract!Add(e, KeyOf[e])
      <3>1. Mapped' = Append(Mapped, [elem |-> e, key |-> KeyOf[e]])
        BY <1>1, AddMapped
      <3>2. \A i \in DOMAIN Mapped : Mapped[i].key # KeyOf[e] /\ Mapped[i].elem # e
        BY <1>1, AddMapped
      <3> QED
        BY <3>1, <3>2 DEF Abstract!Add, Abstract!Holds, Mapped, Entries
    <2> QED
      BY <2>1, <2>2 DEF Abstract!Next
  <1>2. ASSUME NEW k \in Key, RemoveKey(k) PROVE Abstract!Next
    <2>1. PICK i : EntryOut(i, k)
      BY <1>2, RemoveMapped
    <2>2. i \in Abstract!Holds(k)
      BY <2>1 DEF EntryOut, Abstract!Holds, Mapped, Entries
    <2>3. Mapped' = Abstract!RemoveAt(Mapped, i)
      BY <2>1, Zenon DEF EntryOut, Abstract!RemoveAt, RemoveAt
    <2>4. Abstract!RemoveKey(k)
      BY <2>2, <2>3, Zenon DEF Abstract!RemoveKey, Mapped, Entries
    <2> QED
      BY <2>4 DEF Abstract!Next
  <1>3. ASSUME RemoveAll PROVE Abstract!Next
    <2>1. el' # NULL
      BY <1>3 DEF RemoveAll
    <2>2. Abstract!Clear
      BY <2>1 DEF Abstract!Clear
    <2> QED
      BY <2>2 DEF Abstract!Next
  <1>4. CASE RemoveNext
    BY <1>4, LoopMapped
  <1>5. CASE UNCHANGED vars
    <2>1. el' = el /\ AppOrder' = AppOrder
      BY <1>5, TableFrame DEF vars, IInv
    <2> QED
      BY <2>1 DEF Mapped, Entries
  <1> QED
    BY <1>1, <1>2, <1>3, <1>4, <1>5 DEF Next

(* The table does what an abstract registry may do: it adds an element     *)
(* under a key it does not hold, takes out one under a key, or is emptied, *)
(* which remove_all_streams does element by element                        *)
(* (src/provider.c 323-362).                                               *)
THEOREM TableIsARegistry == Spec => RegistrySpec
  <1>1. Init => Abstract!Init
    <2> SUFFICES ASSUME Init PROVE Abstract!Init
      OBVIOUS
    <2>1. IInv /\ el = NULL /\ head = NULL
      BY InitRight DEF Init
    <2>2. AppOrder = <<>>
      BY <2>1, OrderOfInsertion
    <2> QED
      BY <2>1, <2>2 DEF Abstract!Init
  <1>2. IInv /\ IInv' /\ [Next]_vars => [Abstract!Next]_Mapped
    BY NextMapped
  <1> QED
    BY <1>1, <1>2, Invariance, PTL DEF Spec, RegistrySpec, Abstract!Spec, Mapped, Entries
=============================================================================
