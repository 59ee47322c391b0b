----------------------------- MODULE SampleLog -----------------------------
(***************************************************************************)
(* What a performance stream promises its users, whatever threads record   *)
(* in it and read it: an append-only log of samples that only admissible   *)
(* samples enter, and reads that are atomic snapshots of it.  The module   *)
(* Stream, which models the code, implements this one when every user      *)
(* level thread shares one execution stream (see Stream!LogSpec).          *)
(***************************************************************************)
EXTENDS Integers, Sequences

CONSTANTS
  Reader,      \* the threads that read the log
  Sample,      \* the samples: records with the fields val, time, sample_id
  Count        \* the numbers of samples a read may ask for

VARIABLES
  type,        \* the kind of stream: it never changes
  log,         \* the samples recorded so far, oldest first
  answer       \* answer[r]: what the last read of r returned, <<>> if none

vars == <<type, log, answer>>

Init ==
  /\ type \in {"counter", "timer", "gauge"}
  /\ log = <<>>
  /\ answer = [r \in Reader |-> <<>>]

(* A counter never goes down, a timer is never negative, and no stream     *)
(* records a sample that is older than the one before it.                  *)
Admits(s) ==
  /\ type = "timer" => s.val >= 0
  /\ log # <<>> => /\ type = "counter" => log[Len(log)].val <= s.val
                   /\ log[Len(log)].time <= s.time

Smaller(m, n) == IF m < n THEN m ELSE n

(* The n most recent samples, or all of them when there are fewer.         *)
Latest(n) ==
  LET k == Smaller(n, Len(log))
  IN  SubSeq(log, Len(log) - k + 1, Len(log))

Record(s) ==
  /\ Admits(s)
  /\ log' = Append(log, s)
  /\ UNCHANGED <<type, answer>>

ReadLatest(r, n) ==
  /\ answer' = [answer EXCEPT ![r] = Latest(n)]
  /\ UNCHANGED <<type, log>>

ReadAll(r) ==
  /\ answer' = [answer EXCEPT ![r] = log]
  /\ UNCHANGED <<type, log>>

Forget(r) ==
  /\ answer' = [answer EXCEPT ![r] = <<>>]
  /\ UNCHANGED <<type, log>>

(* What is recorded is the last sample of the new log.                     *)
Next ==
  \/ /\ Len(log') > 0
     /\ log'[Len(log')] \in Sample
     /\ Record(log'[Len(log')])
  \/ \E r \in Reader :
        \/ \E n \in Count : ReadLatest(r, n)
        \/ ReadAll(r)
        \/ Forget(r)

Spec == Init /\ [][Next]_vars
=============================================================================
