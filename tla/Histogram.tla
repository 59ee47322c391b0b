------------------------------ MODULE Histogram ------------------------------
(***************************************************************************)
(* aggregator_stream_dump_histogram (src/client.c): a thread scans the     *)
(* samples of a stream twice without stream_mutex, first for their bounds, *)
(* then to count them in buckets, while other threads publish samples.     *)
(* What such a reader sees of the stream is proved in StreamProofs: the    *)
(* samples published so far, which never change.  Here a stream is that    *)
(* sequence of values and an update appends one.                           *)
(*                                                                         *)
(* A value is a double: an integer here, or not a number, with which every *)
(* comparison fails.  The quotient is computed in doubles and rounded.     *)
(***************************************************************************)
EXTENDS Integers, Sequences, FiniteSets

CONSTANTS
  Value,        \* the values of samples, NaN perhaps among them
  NaN,          \* not a number
  Buckets,      \* the numbers of buckets a caller asks for
  Huge,         \* where the search for the smallest value starts
  MaxSamples    \* bound: the samples published

ASSUME HistogramAssumption ==
  /\ Value \subseteq Int \cup {NaN}
  /\ NaN \notin Int
  /\ Buckets \subseteq Nat
  /\ Huge \in Nat
  /\ \A v \in Value \ {NaN} : v < Huge
  /\ MaxSamples \in Nat

VARIABLES
  log,      \* the values published, oldest first
  pc,       \* where the dump is: "idle", "bounds" or "count"
  i,        \* its loop counter
  max, min, \* the bounds found
  seen,     \* the samples the first loop has looked at (history)
  buckets,  \* the array of num_buckets counters
  corrupt   \* a counter outside the array was incremented

vars == <<log, pc, i, max, min, seen, buckets, corrupt>>

Init ==
  /\ log = <<>>
  /\ pc = "idle"
  /\ i = 0
  /\ max = 0
  /\ min = Huge
  /\ seen = 0
  /\ buckets = <<>>
  /\ corrupt = FALSE

----------------------------------------------------------------------------
Magnitude(a) == IF a < 0 THEN -a ELSE a

(* The conversion of the quotient a / b to int, which truncates; b # 0.    *)
Quotient(a, b) ==
  LET q == Magnitude(a) \div Magnitude(b)
  IN  IF (a < 0) = (b < 0) THEN q ELSE -q

NumBuckets == Len(buckets)

(* The place of p among the bounds, from min to max, is at or behind r's.  *)
Behind(p, r) == IF min < max THEN p >= r ELSE p <= r

(* The indices, from 0, that may be computed for the value v.  Rounding    *)
(* keeps the order and the quotients of the bounds, 0 and 1, are exact;    *)
(* any other sample may be moved over a border of its bucket.  To convert  *)
(* what is not a number, or a quotient by zero, is undefined: any int.     *)
BucketIndexes(v) ==
  IF v = NaN \/ max = min
    THEN -1..NumBuckets
    ELSE LET q == Quotient((v - min) * NumBuckets, max - min)
         IN  {b \in (q - 1)..(q + 1) :
                /\ Behind(v, min) => b >= 0
                /\ Behind(min, v) => b <= 0
                /\ Behind(v, max) => b >= NumBuckets
                /\ Behind(max, v) => b <= NumBuckets}

----------------------------------------------------------------------------
(* Another thread publishes a sample. *)
Publish(v) ==
  /\ ~corrupt
  /\ Len(log) < MaxSamples
  /\ log' = Append(log, v)
  /\ UNCHANGED <<pc, i, max, min, seen, buckets, corrupt>>

DumpHistogram(n) ==
  /\ ~corrupt
  /\ pc = "idle"
  /\ pc' = "bounds"
  /\ i' = 0
  /\ max' = 0
  /\ min' = Huge
  /\ seen' = 0
  /\ buckets' = [b \in 1..n |-> 0]
  /\ UNCHANGED <<log, corrupt>>

(* Mutant: a value that raises max is not compared with min.               *)
ScanBoundsElse ==
  /\ pc = "bounds"
  /\ i < Len(log)
  /\ LET v == log[i + 1] IN
       /\ max' = IF v # NaN /\ v > max THEN v ELSE max
       /\ min' = IF v # NaN /\ v <= max /\ v < min THEN v ELSE min
  /\ i' = i + 1
  /\ seen' = i + 1
  /\ UNCHANGED <<log, pc, buckets, corrupt>>

(* Mutant: the loop counter is incremented in the body as well.            *)
ScanBoundsByTwo ==
  /\ pc = "bounds"
  /\ i < Len(log)
  /\ LET v == log[i + 1] IN
       /\ max' = IF v # NaN /\ v > max THEN v ELSE max
       /\ min' = IF v # NaN /\ v < min THEN v ELSE min
  /\ i' = i + 2
  /\ seen' = i + 1
  /\ UNCHANGED <<log, pc, buckets, corrupt>>

ScanBounds ==
  /\ pc = "bounds"
  /\ i < Len(log)
  /\ LET v == log[i + 1] IN
       /\ max' = IF v # NaN /\ v > max THEN v ELSE max
       /\ min' = IF v # NaN /\ v < min THEN v ELSE min
  /\ i' = i + 1
  /\ seen' = i + 1
  /\ UNCHANGED <<log, pc, buckets, corrupt>>

(* Mutant: the counter of the second loop goes on from the first.          *)
EndBoundsNoReset ==
  /\ pc = "bounds"
  /\ i >= Len(log)
  /\ pc' = "count"
  /\ UNCHANGED <<log, i, max, min, seen, buckets, corrupt>>

EndBounds ==
  /\ pc = "bounds"
  /\ i >= Len(log)
  /\ pc' = "count"
  /\ i' = 0
  /\ UNCHANGED <<log, max, min, seen, buckets, corrupt>>

CountSample ==
  /\ ~corrupt
  /\ pc = "count"
  /\ i < Len(log)
  /\ \E b \in BucketIndexes(log[i + 1]) :
       IF b \in 0..(NumBuckets - 1)
         THEN /\ buckets' = [buckets EXCEPT ![b + 1] = @ + 1]
              /\ i' = i + 1
              /\ UNCHANGED corrupt
         ELSE /\ corrupt' = TRUE
              /\ UNCHANGED <<buckets, i>>
  /\ UNCHANGED <<log, pc, max, min, seen>>

WriteHistogram ==
  /\ ~corrupt
  /\ pc = "count"
  /\ i >= Len(log)
  /\ pc' = "idle"
  /\ UNCHANGED <<log, i, max, min, seen, buckets, corrupt>>

Next ==
  \/ \E v \in Value : Publish(v)
  \/ \E n \in Buckets : DumpHistogram(n)
  \/ ScanBounds
  \/ EndBounds
  \/ CountSample
  \/ WriteHistogram

Spec == Init /\ [][Next]_vars

----------------------------------------------------------------------------
(* Properties. *)

TypeOK ==
  /\ log \in Seq(Value)
  /\ pc \in {"idle", "bounds", "count"}
  /\ i \in 0..Len(log)
  /\ max \in Int
  /\ min \in Int
  /\ seen \in 0..Len(log)
  /\ buckets \in Seq(Nat)
  /\ corrupt \in BOOLEAN

(* The array is overrun only if it has no buckets, or the sample is not a  *)
(* number, or it is in the last bucket, from where rounding may move it    *)
(* on (the largest sample is always moved on), or all values are equal, so *)
(* that the quotient is undefined, or it was published after the bounds    *)
(* were taken.  The bounds themselves never leave out a sample.            *)
OverrunCause ==
  corrupt =>
    \/ buckets = <<>>
    \/ log[i + 1] = NaN
    \/ (log[i + 1] - min) * NumBuckets >= (max - min) * (NumBuckets - 1)
    \/ max = min
    \/ i >= seen

(* What the buckets have counted: one pair for each increment of each.     *)
Counted == UNION {{b} \X (1..buckets[b]) : b \in DOMAIN buckets}

(* Every sample the second loop has passed is in exactly one bucket, also  *)
(* those published during the dump: the counters add up to i.              *)
EverySampleCounted == (pc = "count") => Cardinality(Counted) = i
=============================================================================
