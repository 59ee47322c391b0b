------------------------------- MODULE UtHash -------------------------------
(***************************************************************************)
(* The hash table of src/uthash.h, pointer by pointer, as src/provider.c   *)
(* uses it: the handles of the elements are linked twice, in the order of  *)
(* insertion and in the chain of a bucket, and the array of buckets is     *)
(* doubled when a chain grows long.  The elements are streams, freed as    *)
(* soon as they are deleted.  One execution stream runs all calls.         *)
(***************************************************************************)
EXTENDS Integers, SequencesExt

CONSTANTS
  Elem,                      \* the structures a handle is part of
  Key,                       \* their keys
  KeyOf,                     \* KeyOf[e]: the key of e
  HashFunction,              \* the functions from keys to hash values to study
  HASH_INITIAL_NUM_BUCKETS,
  HASH_BKT_CAPACITY_THRESH,
  MaxBuckets,                \* bound: nothing is added to a table of more buckets
  NULL

ASSUME UtHashAssumption ==
  /\ IsFiniteSet(Elem)
  /\ KeyOf \in [Elem -> Key]
  /\ HashFunction \subseteq [Key -> Nat]
  /\ HASH_INITIAL_NUM_BUCKETS \in Nat \ {0}
  /\ HASH_BKT_CAPACITY_THRESH \in Nat \ {0}
  /\ MaxBuckets \in Nat
  /\ NULL \notin Elem

VARIABLES
  hash,   \* the hash function
  head,   \* the first element, NULL if there is none
  tbl,    \* the UT_hash_table all handles point to, NoTable if there is none
  hh,     \* hh[e]: the UT_hash_handle of e, for every e that is allocated
  el,     \* the cursors of remove_all_streams: el is the next one to go,
  tmp     \* tmp its successor; both NULL when no such call is under way

vars == <<hash, head, tbl, hh, el, tmp>>

EmptyBucket == [hh_head |-> NULL, count |-> 0, expand_mult |-> 0]

NoTable == [num_buckets |-> 0, num_items |-> 0, tail |-> NULL,
            ideal_chain_maxlen |-> 0, ineff_expands |-> 0, noexpand |-> 0,
            buckets |-> [b \in {} |-> EmptyBucket]]

NoHandle == [prev |-> NULL, next |-> NULL, hh_prev |-> NULL, hh_next |-> NULL]

Init ==
  /\ hash \in HashFunction
  /\ head = NULL
  /\ tbl = NoTable
  /\ hh = [e \in {} |-> NULL]
  /\ el = NULL
  /\ tmp = NULL

----------------------------------------------------------------------------
(* Reading. *)

(* The field f of every handle. *)
Field(links, f) == [e \in DOMAIN links |-> links[e][f]]

(* The element n pointers on from e, NULL after the last.                  *)
Pointers(to, e) ==
  LET at[n \in 0..Cardinality(Elem)] ==
        IF n = 0 THEN e
        ELSE IF at[n - 1] \in DOMAIN to THEN to[at[n - 1]] ELSE NULL
  IN  at

(* The elements from e on, each the one that the one before it points to.  *)
Walk(to, e) ==
  LET at == Pointers(to, e)
      length == Cardinality({n \in 0..Cardinality(Elem) : at[n] # NULL})
  IN  [n \in 1..length |-> at[n - 1]]

AppOrder == Walk(Field(hh, "next"), head)

ToBkt(e, n) == hash[KeyOf[e]] % n

Chain(t, links, b) == Walk(Field(links, "hh_next"), t.buckets[b].hh_head)

(* The first element of the chain of bucket b with the key k.              *)
FindInBkt(b, k) ==
  LET c == Chain(tbl, hh, b)
      hits == {i \in DOMAIN c : KeyOf[c[i]] = k}
  IN  IF hits = {} THEN NULL ELSE c[Min(hits)]

(* Mutant: a key is looked up with the mask of the first table.            *)
FindOldMask(k) ==
  IF head = NULL THEN NULL ELSE FindInBkt(hash[k] % HASH_INITIAL_NUM_BUCKETS, k)

Find(k) ==
  IF head = NULL THEN NULL ELSE FindInBkt(hash[k] % tbl.num_buckets, k)

----------------------------------------------------------------------------
(* Growing. *)

(* The elements of a chain that belong in bucket b of n, each put in front *)
(* of those before it.                                                     *)
Rehash(chain, n, b) ==
  LET new[i \in 0..Len(chain)] ==
        IF i = 0 THEN <<>>
        ELSE IF ToBkt(chain[i], n) = b THEN <<chain[i]>> \o new[i - 1] ELSE new[i - 1]
  IN  new[Len(chain)]

(* The chain that expansion makes in bucket b of twice as many.            *)
NewChain(t, links, b) ==
  Rehash(Chain(t, links, b % t.num_buckets), 2 * t.num_buckets, b)

(* Mutant: the buckets start over without a multiplier.                    *)
ExpandMultNone(n, ideal) == 0

(* How often a bucket of n elements has exceeded a multiple of the ideal.  *)
ExpandMult(n, ideal) ==
  LET mult[i \in 0..n] ==
        IF i = 0 THEN 0
        ELSE LET m == mult[i - 1] IN IF i > ideal /\ i > m * ideal THEN m + 1 ELSE m
  IN  mult[n]

(* Mutant: hh_prev still names the neighbour in the old chain.             *)
RechainOneWay(links, chain, n) ==
  [e \in DOMAIN links |->
     LET c == chain[ToBkt(e, n)]
         i == CHOOSE j \in DOMAIN c : c[j] = e
     IN  [links[e] EXCEPT !.hh_next = IF i < Len(c) THEN c[i + 1] ELSE NULL]]

(* The handles, linked anew along the chains of n buckets.                 *)
Rechain(links, chain, n) ==
  [e \in DOMAIN links |->
     LET c == chain[ToBkt(e, n)]
         i == CHOOSE j \in DOMAIN c : c[j] = e
     IN  [links[e] EXCEPT !.hh_prev = IF i > 1 THEN c[i - 1] ELSE NULL,
                          !.hh_next = IF i < Len(c) THEN c[i + 1] ELSE NULL]]

(* The places in the chains that are beyond the ideal length.              *)
NonidealItems(chain, ideal) ==
  Cardinality(UNION {{b} \X ((ideal + 1)..Len(chain[b])) : b \in DOMAIN chain})

(* HASH_EXPAND_BUCKETS.  Two doublings in a row that leave more than half  *)
(* of the elements beyond the ideal length of a chain are the last.        *)
ExpandBuckets(t, links) ==
  LET n == 2 * t.num_buckets
      chain == [b \in 0..(n - 1) |-> NewChain(t, links, b)]
      ideal == t.num_items \div n + (IF t.num_items % n # 0 THEN 1 ELSE 0)
      ineff == IF NonidealItems(chain, ideal) > t.num_items \div 2
                 THEN t.ineff_expands + 1 ELSE 0
  IN  /\ tbl' = [t EXCEPT !.num_buckets = n,
                          !.ideal_chain_maxlen = ideal,
                          !.ineff_expands = ineff,
                          !.noexpand = IF ineff > 1 THEN 1 ELSE @,
                          !.buckets = [b \in 0..(n - 1) |->
                             [hh_head |-> IF chain[b] = <<>> THEN NULL ELSE chain[b][1],
                              count |-> Len(chain[b]),
                              expand_mult |-> ExpandMult(Len(chain[b]), ideal)]]]
      /\ hh' = Rechain(links, chain, n)

----------------------------------------------------------------------------
(* Adding. *)

(* Mutant: one bucket more than the mask can reach.                        *)
MakeTableExtraBucket(e) ==
  [NoTable EXCEPT !.num_buckets = HASH_INITIAL_NUM_BUCKETS, !.tail = e,
     !.buckets = [b \in 0..HASH_INITIAL_NUM_BUCKETS |-> EmptyBucket]]

MakeTable(e) ==
  [NoTable EXCEPT !.num_buckets = HASH_INITIAL_NUM_BUCKETS, !.tail = e,
     !.buckets = [b \in 0..(HASH_INITIAL_NUM_BUCKETS - 1) |-> EmptyBucket]]

(* The handles once e is last in the list: all but its place in a bucket.  *)
AppendList(e) ==
  [x \in DOMAIN hh \cup {e} |->
     IF x = e THEN [NoHandle EXCEPT !.prev = tbl.tail]
     ELSE IF x = tbl.tail THEN [hh[x] EXCEPT !.next = e] ELSE hh[x]]

(* HASH_ADD_TO_BKT: e goes in front of its chain.                          *)
AddToBkt(t, links, e) ==
  LET b == ToBkt(e, t.num_buckets)
      first == t.buckets[b].hh_head
      t1 == [t EXCEPT !.buckets[b].hh_head = e, !.buckets[b].count = @ + 1]
      l1 == [x \in DOMAIN links |->
               IF x = e THEN [links[x] EXCEPT !.hh_next = first]
               ELSE IF x = first THEN [links[x] EXCEPT !.hh_prev = e] ELSE links[x]]
      full == t1.buckets[b].count
                >= (t1.buckets[b].expand_mult + 1) * HASH_BKT_CAPACITY_THRESH
  IN  IF full /\ t.noexpand = 0 THEN ExpandBuckets(t1, l1) ELSE tbl' = t1 /\ hh' = l1

AddToTable(t, links, e) == AddToBkt([t EXCEPT !.num_items = @ + 1], links, e)

(* add_stream: nothing is added under a key that is in the table.          *)
Add(e) ==
  /\ el = NULL
  /\ e \notin DOMAIN hh
  /\ tbl.num_buckets <= MaxBuckets
  /\ Find(KeyOf[e]) = NULL
  /\ head' = IF head = NULL THEN e ELSE head
  /\ AddToTable(IF head = NULL THEN MakeTable(e) ELSE [tbl EXCEPT !.tail = e],
                AppendList(e), e)
  /\ UNCHANGED <<hash, el, tmp>>

----------------------------------------------------------------------------
(* Deleting. *)

(* Mutant: a bucket goes on with the element deleted at its head.          *)
DelInBktKeepHead(bucket, e) == [bucket EXCEPT !.count = @ - 1]

DelInBkt(bucket, e) ==
  [bucket EXCEPT !.count = @ - 1, !.hh_head = IF @ = e THEN hh[e].hh_next ELSE @]

(* The other handles once e is patched out of its two lists.               *)
Without(e) ==
  [x \in DOMAIN hh \ {e} |->
     [hh[x] EXCEPT !.next = IF x = hh[e].prev THEN hh[e].next ELSE @,
                   !.prev = IF x = hh[e].next THEN hh[e].prev ELSE @,
                   !.hh_next = IF x = hh[e].hh_prev THEN hh[e].hh_next ELSE @,
                   !.hh_prev = IF x = hh[e].hh_next THEN hh[e].hh_prev ELSE @]]

(* HASH_DELETE_HH, and the element is freed.  The last one takes the table *)
(* with it.                                                                *)
Delete(e) ==
  IF hh[e].prev = NULL /\ hh[e].next = NULL
    THEN head' = NULL /\ tbl' = NoTable /\ hh' = Without(e)
    ELSE /\ head' = IF hh[e].prev = NULL THEN hh[e].next ELSE head
         /\ tbl' = [tbl EXCEPT !.tail = IF @ = e THEN hh[e].prev ELSE @,
                       !.num_items = @ - 1,
                       !.buckets[ToBkt(e, tbl.num_buckets)] = DelInBkt(@, e)]
         /\ hh' = Without(e)

(* remove_stream: the stream is looked up by its key and freed.            *)
RemoveKey(k) ==
  /\ el = NULL
  /\ Find(k) # NULL
  /\ Delete(Find(k))
  /\ UNCHANGED <<hash, el, tmp>>

(* HASH_ITER of remove_all_streams: tmp is read before el is freed.        *)
RemoveAll ==
  /\ el = NULL
  /\ head # NULL
  /\ el' = head
  /\ tmp' = hh[head].next
  /\ UNCHANGED <<hash, head, tbl, hh>>

(* Mutant: the loop follows the chain of a bucket, not the list.           *)
RemoveNextInChain ==
  /\ el # NULL
  /\ Delete(el)
  /\ el' = tmp
  /\ tmp' = IF tmp = NULL THEN NULL ELSE hh'[tmp].hh_next
  /\ UNCHANGED hash

RemoveNext ==
  /\ el # NULL
  /\ Delete(el)
  /\ el' = tmp
  /\ tmp' = IF tmp = NULL THEN NULL ELSE hh'[tmp].next
  /\ UNCHANGED hash

Next ==
  \/ \E e \in Elem : Add(e)
  \/ \E k \in Key : RemoveKey(k)
  \/ RemoveAll
  \/ RemoveNext

Spec == Init /\ [][Next]_vars

----------------------------------------------------------------------------
(* Properties. *)

Pointer == Elem \cup {NULL}

Handle == [prev : Pointer, next : Pointer, hh_prev : Pointer, hh_next : Pointer]

Bucket == [hh_head : Pointer, count : Nat, expand_mult : Nat]

(* The tables of n buckets. *)
Table(n) ==
  [num_buckets : {n}, num_items : Nat, tail : Pointer, ideal_chain_maxlen : Nat,
   ineff_expands : Nat, noexpand : {0, 1}, buckets : [0..(n - 1) -> Bucket]]

(* Every handle is that of an element, and a table has one bucket for each *)
(* value of its mask.                                                      *)
TypeOK ==
  /\ hash \in HashFunction
  /\ head \in Pointer /\ el \in Pointer /\ tmp \in Pointer
  /\ DOMAIN hh \subseteq Elem
  /\ hh \in [DOMAIN hh -> Handle]
  /\ tbl.num_buckets \in Nat /\ tbl \in Table(tbl.num_buckets)

(* The backward pointers retrace the list s.                               *)
Backward(s, back) == \A i \in DOMAIN s : back[s[i]] = IF i > 1 THEN s[i - 1] ELSE NULL

(* The places that the buckets count. *)
Places == UNION {{b} \X (1..tbl.buckets[b].count) : b \in DOMAIN tbl.buckets}

(* What HASH_FSCK looks for when uthash is compiled with HASH_DEBUG: the   *)
(* counts of the buckets and of the table and the backward links of both   *)
(* lists agree with the forward links, also right after an expansion and   *)
(* in the middle of remove_all_streams.                                    *)
Fsck ==
  /\ \A b \in DOMAIN tbl.buckets :
       /\ tbl.buckets[b].count = Len(Chain(tbl, hh, b))
       /\ Backward(Chain(tbl, hh, b), Field(hh, "hh_prev"))
  /\ Cardinality(Places) = tbl.num_items
  /\ Len(AppOrder) = tbl.num_items
  /\ Backward(AppOrder, Field(hh, "prev"))

(* No pointer the table or the loop of remove_all_streams keeps leads to   *)
(* an element that was freed, and the tail, where the next one is linked,  *)
(* is the last.                                                            *)
PointersLive ==
  /\ \A e \in DOMAIN hh : Range(hh[e]) \subseteq DOMAIN hh \cup {NULL}
  /\ \A b \in DOMAIN tbl.buckets : tbl.buckets[b].hh_head \in DOMAIN hh \cup {NULL}
  /\ {head, el, tmp, tbl.tail} \subseteq DOMAIN hh \cup {NULL}
  /\ head # NULL => tbl.tail = Last(AppOrder)

(* Every element in the table is found under its key and no other is,      *)
(* whatever the table has grown through and however the hash collides.     *)
FindsExactly ==
  \A k \in Key :
    IF \E e \in DOMAIN hh : KeyOf[e] = k
      THEN Find(k) \in DOMAIN hh /\ KeyOf[Find(k)] = k
      ELSE Find(k) = NULL

(* Until expansion is given up as ineffective every chain is bounded: by   *)
(* the threshold of its bucket or, where the last expansion found more     *)
(* elements than that for every bucket, by the ideal length it aimed at.   *)
ChainsBounded ==
  tbl.noexpand = 0 =>
    \A b \in DOMAIN tbl.buckets :
      LET bucket == tbl.buckets[b]
      IN  \/ bucket.count < (bucket.expand_mult + 1) * HASH_BKT_CAPACITY_THRESH
          \/ bucket.count <= (bucket.expand_mult + 1) * tbl.ideal_chain_maxlen

(* The table implements the abstract registry.  remove_all_streams empties *)
(* the registry when it begins and is done when the table is empty.        *)
Abstract ==
  INSTANCE Registry WITH
    streams <- IF el # NULL THEN <<>>
               ELSE [i \in DOMAIN AppOrder |-> [elem |-> AppOrder[i], key |-> KeyOf[AppOrder[i]]]]

RegistrySpec == Abstract!Spec
=============================================================================
