--------------------------- MODULE HistogramProofs ---------------------------
(***************************************************************************)
(* For all values and any number of buckets, samples and threads that      *)
(* publish meanwhile, and however the quotients are rounded: the array of  *)
(* buckets is overrun for the reasons of OverrunCause and no other.        *)
(***************************************************************************)
EXTENDS Histogram, FiniteSetTheorems, SequenceTheorems, TLAPS

(* The bounds found enclose the samples looked at, whatever was published  *)
(* behind them.                                                            *)
BoundsInv ==
  /\ \A j \in 1..seen : log[j] # NaN => min <= log[j] /\ log[j] <= max
  /\ pc = "bounds" => i = seen
  /\ corrupt => /\ pc = "count"
                /\ i < Len(log)
                /\ \E b \in BucketIndexes(log[i + 1]) : b \notin 0..(NumBuckets - 1)

IInv == TypeOK /\ BoundsInv

(* A value from min up to but not including max has a bucket, and only     *)
(* from the last one can it be moved on.                                   *)
LEMMA QuotientInRange ==
  ASSUME NEW a \in Nat, NEW d \in Nat, a < d, NEW n \in Nat, n > 0
  PROVE  /\ Quotient(a * n, d) \in 0..(n - 1)
         /\ Quotient(a * n, d) = n - 1 => a * n >= d * (n - 1)
  <1> DEFINE p == a * n
             q == p \div d
  <1>1. p \in Nat
    OBVIOUS
  <1>2. Quotient(p, d) = q
    BY <1>1 DEF Quotient, Magnitude
  <1>3. p < d * n
    OBVIOUS
  <1>4. q \in Int /\ d * q <= p /\ p < d * q + d
    <2> HIDE DEF p
    <2> QED
      BY <1>1
  <1> HIDE DEF p, q
  <1>5. q >= 0
    <2> SUFFICES ASSUME q <= -1 PROVE FALSE
      BY <1>4
    <2>1. d * q <= d * (-1)
      BY <1>4
    <2> QED
      BY <1>1, <1>4, <2>1
  <1>6. q < n
    <2> SUFFICES ASSUME q >= n PROVE FALSE
      BY <1>4
    <2>1. d * q >= d * n
      BY <1>4
    <2> QED
      BY <1>1, <1>3, <1>4, <2>1
  <1>7. q = n - 1 => p >= d * (n - 1)
    BY <1>4
  <1> QED
    BY <1>2, <1>4, <1>5, <1>6, <1>7 DEF p

LEMMA InitIInv == Init => IInv
  <1> SUFFICES ASSUME Init PROVE IInv
    OBVIOUS
  <1>1. log = <<>> /\ buckets = <<>> /\ Len(log) = 0 /\ log \in Seq(Value) /\ buckets \in Seq(Nat)
    BY DEF Init
  <1>2. TypeOK
    <2>1. i = 0 /\ seen = 0 /\ max = 0 /\ min = Huge /\ pc = "idle" /\ corrupt = FALSE
      BY DEF Init
    <2>2. i \in 0..Len(log) /\ seen \in 0..Len(log)
      BY <1>1, <2>1
    <2>3. max \in Int /\ min \in Int
      BY <2>1, HistogramAssumption
    <2>4. corrupt \in BOOLEAN /\ pc \in {"idle", "bounds", "count"}
      BY <2>1
    <2> QED
      BY <1>1, <2>2, <2>3, <2>4 DEF TypeOK
  <1>3. BoundsInv
    <2>1. seen = 0 /\ pc = "idle" /\ corrupt = FALSE
      BY DEF Init
    <2>2. \A j \in 1..seen : FALSE
      BY <2>1
    <2> QED
      BY <2>1, <2>2 DEF BoundsInv
  <1> QED
    BY <1>2, <1>3 DEF IInv

LEMMA NextIInv == IInv /\ [Next]_vars => IInv'
  <1> SUFFICES ASSUME IInv, [Next]_vars PROVE IInv'
    OBVIOUS
  <1> USE HistogramAssumption DEF IInv
  <1>0. Len(log) \in Nat /\ Len(buckets) \in Nat
    BY DEF TypeOK
  <1>1. ASSUME NEW v \in Value, Publish(v) PROVE IInv'
    <2>1. ~corrupt /\ log' = Append(log, v) /\ UNCHANGED <<pc, i, max, min, seen, buckets, corrupt>>
      BY <1>1 DEF Publish
    <2>2. /\ log' \in Seq(Value) /\ Len(log') = Len(log) + 1
          /\ \A j \in 1..Len(log) : log'[j] = log[j]
      BY <2>1, AppendProperties DEF TypeOK
    <2>3. TypeOK'
      BY <2>1, <2>2, <1>0 DEF TypeOK
    <2>4. BoundsInv'
      BY <2>1, <2>2, <1>0 DEF BoundsInv, TypeOK
    <2> QED
      BY <2>3, <2>4
  <1>2. ASSUME NEW n \in Buckets, DumpHistogram(n) PROVE IInv'
    <2>1. buckets' \in Seq(Nat)
      BY <1>2 DEF DumpHistogram
    <2>2. TypeOK'
      BY <1>2, <2>1 DEF DumpHistogram, TypeOK
    <2>3. BoundsInv'
      BY <1>2 DEF DumpHistogram, BoundsInv
    <2> QED
      BY <2>2, <2>3
  <1>3. CASE ScanBounds
    <2>1. /\ pc = "bounds" /\ i < Len(log) /\ i = seen /\ i \in Nat
          /\ i' = i + 1 /\ seen' = i + 1
          /\ UNCHANGED <<log, pc, buckets, corrupt>>
      BY <1>3 DEF ScanBounds, BoundsInv, TypeOK
    <2>2. log[i + 1] \in Int \cup {NaN} /\ max \in Int /\ min \in Int
          /\ \A j \in 1..Len(log) : log[j] \in Int \cup {NaN}
      <3>1. \A j \in 1..Len(log) : log[j] \in Value
        BY DEF TypeOK
      <3>2. i + 1 \in 1..Len(log)
        BY <2>1, <1>0
      <3>3. max \in Int /\ min \in Int
        BY DEF TypeOK
      <3> QED
        BY <3>1, <3>2, <3>3
    <2>3. /\ max' \in Int /\ max <= max' /\ min' \in Int /\ min' <= min
          /\ log[i + 1] # NaN => log[i + 1] <= max' /\ min' <= log[i + 1]
      BY <1>3, <2>2 DEF ScanBounds
    <2>4. TypeOK'
      BY <2>1, <2>3, <1>0 DEF TypeOK
    <2>5. ASSUME NEW j \in 1..seen', log'[j] # NaN PROVE min' <= log'[j] /\ log'[j] <= max'
      <3>1. CASE j = i + 1
        BY <3>1, <2>1, <2>3, <2>5
      <3>2. CASE j # i + 1
        <4>1. j \in 1..seen
          BY <3>2, <2>1
        <4>2. min <= log[j] /\ log[j] <= max /\ log[j] \in Int
          BY <4>1, <2>1, <2>2, <2>5, <1>0 DEF BoundsInv, TypeOK
        <4> QED
          BY <4>2, <2>1, <2>2, <2>3
      <3> QED
        BY <3>1, <3>2
    <2>6. ~corrupt
      BY <2>1 DEF BoundsInv
    <2> QED
      BY <2>1, <2>4, <2>5, <2>6 DEF BoundsInv
  <1>4. CASE EndBounds
    <2>1. ~corrupt
      BY <1>4 DEF EndBounds, BoundsInv
    <2> QED
      BY <1>4, <2>1, <1>0 DEF EndBounds, BoundsInv, TypeOK
  <1>5. CASE CountSample
    <2>1. /\ ~corrupt /\ pc = "count" /\ i < Len(log)
          /\ UNCHANGED <<log, pc, max, min, seen>>
      BY <1>5 DEF CountSample
    <2> PICK b \in BucketIndexes(log[i + 1]) :
          IF b \in 0..(NumBuckets - 1)
            THEN /\ buckets' = [buckets EXCEPT ![b + 1] = buckets[b + 1] + 1]
                 /\ i' = i + 1
                 /\ UNCHANGED corrupt
            ELSE /\ corrupt' = TRUE
                 /\ UNCHANGED <<buckets, i>>
      BY <1>5 DEF CountSample
    <2>2. CASE b \in 0..(NumBuckets - 1)
      <3>1. i' = i + 1 /\ corrupt' = corrupt
        BY <2>2
      <3>2. buckets' \in Seq(Nat)
        <4> DEFINE c == b + 1
        <4>1. c \in 1..Len(buckets)
          BY <2>2, <1>0 DEF NumBuckets
        <4>2. buckets' = [buckets EXCEPT ![c] = buckets[c] + 1]
          BY <2>2
        <4> HIDE DEF c
        <4>3. buckets \in Seq(Nat) /\ buckets[c] + 1 \in Nat
          BY <4>1 DEF TypeOK
        <4> QED
          BY <4>1, <4>2, <4>3, ExceptSeq
      <3>3. TypeOK'
        BY <2>1, <3>1, <3>2, <1>0 DEF TypeOK
      <3> QED
        BY <2>1, <3>1, <3>3 DEF BoundsInv
    <2>3. CASE b \notin 0..(NumBuckets - 1)
      <3>1. corrupt' = TRUE /\ UNCHANGED <<buckets, i>>
        BY <2>3
      <3>2. /\ BucketIndexes(log[i + 1])' = BucketIndexes(log[i + 1])
            /\ NumBuckets' = NumBuckets
        BY <2>1, <3>1 DEF BucketIndexes, Behind, Quotient, Magnitude, NumBuckets
      <3>3. TypeOK'
        BY <2>1, <3>1 DEF TypeOK
      <3> QED
        BY <2>1, <2>3, <3>1, <3>2, <3>3 DEF BoundsInv
    <2> QED
      BY <2>2, <2>3
  <1>6. CASE WriteHistogram
    BY <1>6 DEF WriteHistogram, BoundsInv, TypeOK
  <1>7. CASE UNCHANGED vars
    <2>1. /\ BucketIndexes(log[i + 1])' = BucketIndexes(log[i + 1])
          /\ NumBuckets' = NumBuckets
      BY <1>7 DEF vars, BucketIndexes, Behind, Quotient, Magnitude, NumBuckets
    <2> QED
      BY <1>7, <2>1 DEF vars, BoundsInv, TypeOK
  <1> QED
    BY <1>1, <1>2, <1>3, <1>4, <1>5, <1>6, <1>7 DEF Next

LEMMA Cause == IInv => OverrunCause
  <1> SUFFICES ASSUME IInv, corrupt, buckets # <<>>, log[i + 1] # NaN, max # min, i < seen
               PROVE  (log[i + 1] - min) * NumBuckets >= (max - min) * (NumBuckets - 1)
    BY DEF OverrunCause, IInv, TypeOK
  <1> USE HistogramAssumption DEF IInv
  <1> DEFINE v == log[i + 1]
             n == NumBuckets
             q == Quotient((v - min) * n, max - min)
  <1>1. i + 1 \in 1..seen /\ i + 1 \in 1..Len(log)
    BY DEF TypeOK
  <1>2. v \in Int /\ min \in Int /\ max \in Int /\ min <= v /\ v <= max
    <2>1. v \in Value /\ v # NaN
      BY <1>1 DEF TypeOK
    <2>2. min <= log[i + 1] /\ log[i + 1] <= max
      BY <1>1 DEF BoundsInv
    <2>3. max \in Int /\ min \in Int
      BY DEF TypeOK
    <2> QED
      BY <2>1, <2>2, <2>3
  <1>3. n \in Nat /\ n > 0
    BY DEF NumBuckets, TypeOK
  <1>4. PICK b \in BucketIndexes(v) : b \notin 0..(n - 1)
    BY DEF BoundsInv
  <1>5. b \in (q - 1)..(q + 1) /\ b >= 0
    BY <1>2, <1>4 DEF BucketIndexes, Behind
  <1> HIDE DEF v, n
  <1>6. CASE v = max
    <2>1. (v - min) * n = (max - min) * (n - 1) + (max - min)
      BY <1>2, <1>3, <1>6
    <2> QED
      BY <1>2, <1>3, <2>1 DEF v, n
  <1>7. CASE v < max
    <2>1. v - min \in Nat /\ max - min \in Nat /\ v - min < max - min
      BY <1>2, <1>7
    <2>2. q \in 0..(n - 1) /\ (q = n - 1 => (v - min) * n >= (max - min) * (n - 1))
      BY <1>3, <2>1, QuotientInRange
    <2> HIDE DEF q
    <2>3. q = n - 1
      BY <1>3, <1>4, <1>5, <2>2
    <2> QED
      BY <2>2, <2>3 DEF v, n
  <1> QED
    BY <1>2, <1>6, <1>7

(* However the quotients are rounded, the array of buckets is overrun only *)
(* by a sample of its last bucket, the largest one always, by what is not  *)
(* a number, by samples that are all equal, by a sample published after    *)
(* the first loop, or when it is empty (src/client.c 164-192).             *)
THEOREM OverrunExplained == Spec => []OverrunCause
  <1> QED
    BY InitIInv, NextIInv, Cause, PTL DEF Spec

(* The loop counters stay within the samples published and the counters of *)
(* the histogram are natural numbers (src/client.c 164-192).               *)
THEOREM TypeCorrect == Spec => []TypeOK
  <1>1. IInv => TypeOK
    BY DEF IInv
  <1> QED
    BY InitIInv, NextIInv, <1>1, PTL DEF Spec

----------------------------------------------------------------------------
(* What is counted. *)

(* The first loop finds all counters at zero; in the second the increments *)
(* are as many as the samples it has passed.                               *)
CountInv ==
  /\ pc = "bounds" => \A b \in DOMAIN buckets : buckets[b] = 0
  /\ pc = "count" => IsFiniteSet(Counted) /\ Cardinality(Counted) = i

LEMMA CountStep ==
  ASSUME TypeOK, CountInv, CountSample
  PROVE  CountInv'
  <1>1. pc = "count" /\ pc' = pc /\ i \in Nat
    BY DEF CountSample, TypeOK
  <1>2. IsFiniteSet(Counted) /\ Cardinality(Counted) = i
    BY <1>1 DEF CountInv
  <1> PICK j \in BucketIndexes(log[i + 1]) :
        IF j \in 0..(NumBuckets - 1)
          THEN /\ buckets' = [buckets EXCEPT ![j + 1] = buckets[j + 1] + 1]
               /\ i' = i + 1
               /\ UNCHANGED corrupt
          ELSE /\ corrupt' = TRUE
               /\ UNCHANGED <<buckets, i>>
    BY DEF CountSample
  <1>3. CASE j \in 0..(NumBuckets - 1)
    <2> DEFINE b == j + 1
    <2>1. i' = i + 1 /\ buckets' = [buckets EXCEPT ![b] = buckets[b] + 1]
      BY <1>3
    <2>2. b \in DOMAIN buckets
      BY <1>3 DEF NumBuckets, TypeOK
    <2> HIDE DEF b
    <2>3. \A d \in DOMAIN buckets : buckets[d] \in Nat
      BY DEF TypeOK
    <2> DEFINE p == <<b, buckets[b] + 1>>
    <2>4. p \notin Counted
      BY <2>2, <2>3 DEF Counted
    <2>5. Counted' = Counted \cup {p}
      <3>1. DOMAIN buckets' = DOMAIN buckets
        BY <2>1
      <3>2. ASSUME NEW d \in DOMAIN buckets, d # b
            PROVE  {d} \X (1..buckets'[d]) = {d} \X (1..buckets[d])
        BY <2>1, <3>2
      <3>3. {b} \X (1..buckets'[b]) = ({b} \X (1..buckets[b])) \cup {p}
        <4>1. buckets'[b] = buckets[b] + 1 /\ buckets[b] \in Nat
          BY <2>1, <2>2, <2>3
        <4>2. 1..(buckets[b] + 1) = (1..buckets[b]) \cup {buckets[b] + 1}
          BY <4>1
        <4> QED
          BY <4>1, <4>2
      <3>4. \A q : q \in Counted' <=> \E d \in DOMAIN buckets : q \in {d} \X (1..buckets'[d])
        BY <3>1 DEF Counted
      <3>5. \A q : q \in Counted <=> \E d \in DOMAIN buckets : q \in {d} \X (1..buckets[d])
        BY DEF Counted
      <3> HIDE DEF p
      <3>6. ASSUME NEW q PROVE q \in Counted' <=> q \in Counted \cup {p}
        BY ONLY <3>2, <3>3, <3>4, <3>5, <2>2
      <3> QED
        BY <3>6
    <2>6. IsFiniteSet(Counted') /\ Cardinality(Counted') = i + 1
      BY <1>2, <2>4, <2>5, FS_AddElement
    <2> QED
      BY <1>1, <2>1, <2>6 DEF CountInv
  <1>4. CASE j \notin 0..(NumBuckets - 1)
    <2>1. UNCHANGED <<buckets, i>>
      BY <1>4
    <2> QED
      BY <1>1, <1>2, <2>1 DEF CountInv, Counted
  <1> QED
    BY <1>3, <1>4

LEMMA NextCount ==
  ASSUME TypeOK, CountInv, [Next]_vars
  PROVE  CountInv'
  <1>1. ASSUME NEW v \in Value, Publish(v) PROVE CountInv'
    BY <1>1 DEF Publish, CountInv, Counted
  <1>2. ASSUME NEW n \in Buckets, DumpHistogram(n) PROVE CountInv'
    BY <1>2 DEF DumpHistogram, CountInv
  <1>3. CASE ScanBounds
    BY <1>3 DEF ScanBounds, CountInv
  <1>4. CASE EndBounds
    <2>1. pc = "bounds" /\ pc' = "count" /\ i' = 0 /\ buckets' = buckets
      BY <1>4 DEF EndBounds
    <2>2. \A b \in DOMAIN buckets : {b} \X (1..buckets[b]) = {}
      BY <2>1 DEF CountInv
    <2>3. Counted = {}
      BY <2>2 DEF Counted
    <2>4. IsFiniteSet(Counted') /\ Cardinality(Counted') = 0
      BY <2>1, <2>3, FS_EmptySet DEF Counted
    <2> QED
      BY <2>1, <2>4 DEF CountInv
  <1>5. CASE CountSample
    BY <1>5, CountStep
  <1>6. CASE WriteHistogram \/ UNCHANGED vars
    BY <1>6 DEF WriteHistogram, vars, CountInv, Counted
  <1> QED
    BY <1>1, <1>2, <1>3, <1>4, <1>5, <1>6 DEF Next

(* Whatever is published meanwhile, each sample that the second loop has   *)
(* passed was counted in one bucket (src/client.c 180-183).                *)
THEOREM SamplesCounted == Spec => []EverySampleCounted
  <1>1. Init => CountInv
    BY DEF Init, CountInv
  <1>2. IInv /\ CountInv /\ [Next]_vars => CountInv'
    BY NextCount DEF IInv
  <1>3. CountInv => EverySampleCounted
    BY DEF CountInv, EverySampleCounted
  <1> QED
    BY <1>1, <1>2, <1>3, InitIInv, NextIInv, PTL DEF Spec
=============================================================================
