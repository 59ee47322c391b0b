------------------------------- MODULE Stream -------------------------------
(***************************************************************************)
(* One aggregator_stream and the user-level threads (ULTs) that record     *)
(* samples in it (aggregator_stream_update and                             *)
(* aggregator_stream_update_gauge_by_fixed_amount, src/client.c) and read  *)
(* it (the copy made by aggregator_stream_fetch_ult, src/provider.c, and   *)
(* aggregator_stream_dump_raw_data, src/client.c).                         *)
(*                                                                         *)
(* A ULT runs on the execution stream Home[u] and keeps it until it        *)
(* blocks or returns: ULTs of one execution stream interleave between      *)
(* calls and on a contended mutex only, ULTs of different execution        *)
(* streams interleave at every shared access.  The writers take            *)
(* stream_mutex; the check of the new value and every reader do not.       *)
(***************************************************************************)
EXTENDS Integers, Sequences, FiniteSets

CONSTANTS
  ULT,                 \* the user-level threads
  ES,                  \* the Argobots execution streams
  Home,                \* Home[u]: the execution stream that runs u
  StreamTypes,         \* the types of stream to study
  Value,               \* the values given to aggregator_stream_update
  Diff,                \* the amounts given to ..._update_gauge_by_fixed_amount
  Count,               \* the numbers of samples a fetch may ask for
  STREAM_BUFFER_SIZE,  \* the samples a buffer is allocated for
  MaxUpdates,          \* bound: updates one ULT may complete
  MaxTime,             \* bound: the last value of the clock
  NoULT                \* nobody

ASSUME StreamAssumption ==
  /\ Home \in [ULT -> ES]
  /\ StreamTypes \subseteq {"counter", "timer", "gauge"}
  /\ Value \subseteq Int
  /\ Diff \subseteq Int
  /\ Count \subseteq Nat
  /\ STREAM_BUFFER_SIZE \in Nat
  /\ MaxUpdates \in Nat
  /\ MaxTime \in Nat
  /\ NoULT \notin ULT

VARIABLES
  type,          \* stream->type
  buffer,        \* stream->buffer
  buffer_index,  \* stream->buffer_index: the samples published so far
  stream_mutex,  \* the owner of stream->stream_mutex, or NoULT
  corrupt,       \* a write has gone past the end of an allocation
  now,           \* what ABT_get_wtime returns
  running,       \* running[e]: the ULT that occupies e, or NoULT
  pc,            \* pc[u]: where u is in its call, "idle" between calls
  call,          \* call[u]: the operation of u and its argument
  answer,        \* answer[u]: the samples the read of u has copied
  stored         \* stored[u]: updates of u that returned AGGREGATOR_SUCCESS

shared == <<type, buffer, buffer_index, stream_mutex, corrupt, now, stored>>
vars == <<type, buffer, buffer_index, stream_mutex, corrupt, now, running, pc,
          call, answer, stored>>

Slot == 0..(STREAM_BUFFER_SIZE - 1)

Sample == [val : Int, time : Nat, sample_id : ULT \cup {NoULT}]

(* What calloc leaves in a slot. *)
ZeroSample == [val |-> 0, time |-> 0, sample_id |-> NoULT]

NoCall == [op |-> "none", arg |-> 0]

(* The published samples, oldest first. *)
Log == [i \in 1..buffer_index |-> buffer[i - 1]]

Init ==
  /\ type \in StreamTypes
  /\ buffer = [i \in Slot |-> ZeroSample]
  /\ buffer_index = 0
  /\ stream_mutex = NoULT
  /\ corrupt = FALSE
  /\ now = 0
  /\ running = [e \in ES |-> NoULT]
  /\ pc = [u \in ULT |-> "idle"]
  /\ call = [u \in ULT |-> NoCall]
  /\ answer = [u \in ULT |-> <<>>]
  /\ stored = [u \in ULT |-> 0]

----------------------------------------------------------------------------
(* Cooperative scheduling: u steps when its execution stream is free or    *)
(* already runs it.  After a write out of bounds nothing is modelled.      *)

CanRun(u) == ~corrupt /\ running[Home[u]] \in {u, NoULT}

KeepES(u) == running' = [running EXCEPT ![Home[u]] = u]

LeaveES(u) == running' = [running EXCEPT ![Home[u]] = NoULT]

Goto(u, from, to) == pc[u] = from /\ pc' = [pc EXCEPT ![u] = to]

Begin(u, op, arg, to) ==
  /\ CanRun(u)
  /\ Goto(u, "idle", to)
  /\ call' = [call EXCEPT ![u] = [op |-> op, arg |-> arg]]
  /\ answer' = [answer EXCEPT ![u] = <<>>]
  /\ KeepES(u)
  /\ UNCHANGED shared

(* The call returns AGGREGATOR_ERR_INVALID_VALUE before it touches anything. *)
Refuse(u) ==
  /\ CanRun(u)
  /\ pc[u] = "idle"
  /\ call' = [call EXCEPT ![u] = NoCall]
  /\ answer' = [answer EXCEPT ![u] = <<>>]
  /\ LeaveES(u)
  /\ UNCHANGED <<shared, pc>>

----------------------------------------------------------------------------
(* Recording a sample. *)

(* Mutant: the comparison skips the first sample of a counter.             *)
InvalidValueSkipsFirst(v) ==
  \/ type = "counter" /\ buffer_index > 1 /\ buffer[buffer_index - 1].val > v
  \/ type = "timer" /\ v < 0

InvalidValue(v) ==
  \/ type = "counter" /\ buffer_index >= 1 /\ buffer[buffer_index - 1].val > v
  \/ type = "timer" /\ v < 0

StreamUpdate(u, v) ==
  /\ stored[u] < MaxUpdates
  /\ \/ InvalidValue(v) /\ Refuse(u)
     \/ ~InvalidValue(v) /\ Begin(u, "update", v, "lock")

UpdateGaugeByFixedAmount(u, d) ==
  /\ stored[u] < MaxUpdates
  /\ \/ type \in {"counter", "timer"} /\ Refuse(u)
     \/ type = "gauge" /\ Begin(u, "delta", d, "lock")

(* Mutant: the update does not take stream_mutex.                          *)
MutexLockUnguarded(u) ==
  /\ CanRun(u)
  /\ Goto(u, "lock", "store")
  /\ stream_mutex' = u
  /\ KeepES(u)
  /\ UNCHANGED <<type, buffer, buffer_index, corrupt, now, call, answer, stored>>

MutexLock(u) ==
  /\ CanRun(u)
  /\ stream_mutex = NoULT
  /\ Goto(u, "lock", "store")
  /\ stream_mutex' = u
  /\ KeepES(u)
  /\ UNCHANGED <<type, buffer, buffer_index, corrupt, now, call, answer, stored>>

(* A ULT that finds the mutex taken is suspended and frees its stream. *)
MutexWait(u) ==
  /\ ~corrupt
  /\ pc[u] = "lock"
  /\ stream_mutex # NoULT
  /\ running[Home[u]] = u
  /\ LeaveES(u)
  /\ UNCHANGED <<shared, pc, call, answer>>

(* Mutant: the second delta is still taken for the first.                  *)
NewValueSkipsFirst(u) ==
  IF call[u].op = "update" THEN call[u].arg
  ELSE IF buffer_index > 1 THEN buffer[buffer_index - 1].val + call[u].arg
  ELSE 1

(* The first delta of a gauge stores 1, whatever the amount. *)
NewValue(u) ==
  IF call[u].op = "update" THEN call[u].arg
  ELSE IF buffer_index > 0 THEN buffer[buffer_index - 1].val + call[u].arg
  ELSE 1

(* Mutant: the last published slot is written instead of the next one.     *)
StoreSampleOverLast(u) ==
  /\ CanRun(u)
  /\ buffer_index < STREAM_BUFFER_SIZE
  /\ Goto(u, "store", "advance")
  /\ buffer' = [buffer EXCEPT ![IF buffer_index > 0 THEN buffer_index - 1 ELSE 0] =
                  [val |-> NewValue(u), time |-> now, sample_id |-> u]]
  /\ KeepES(u)
  /\ UNCHANGED <<type, buffer_index, stream_mutex, corrupt, now, call, answer,
                 stored>>

StoreSample(u) ==
  /\ CanRun(u)
  /\ buffer_index < STREAM_BUFFER_SIZE
  /\ Goto(u, "store", "advance")
  /\ buffer' = [buffer EXCEPT ![buffer_index] =
                  [val |-> NewValue(u), time |-> now, sample_id |-> u]]
  /\ KeepES(u)
  /\ UNCHANGED <<type, buffer_index, stream_mutex, corrupt, now, call, answer,
                 stored>>

(* No caller and no callee compares buffer_index with STREAM_BUFFER_SIZE. *)
StoreOverrun(u) ==
  /\ CanRun(u)
  /\ buffer_index >= STREAM_BUFFER_SIZE
  /\ Goto(u, "store", "advance")
  /\ corrupt' = TRUE
  /\ KeepES(u)
  /\ UNCHANGED <<type, buffer, buffer_index, stream_mutex, now, call, answer,
                 stored>>

(* Mutant: the index is incremented twice and leaves a hole.               *)
AdvanceIndexTwice(u) ==
  /\ CanRun(u)
  /\ Goto(u, "advance", "unlock")
  /\ buffer_index' = buffer_index + 2
  /\ KeepES(u)
  /\ UNCHANGED <<type, buffer, stream_mutex, corrupt, now, call, answer, stored>>

AdvanceIndex(u) ==
  /\ CanRun(u)
  /\ Goto(u, "advance", "unlock")
  /\ buffer_index' = buffer_index + 1
  /\ KeepES(u)
  /\ UNCHANGED <<type, buffer, stream_mutex, corrupt, now, call, answer, stored>>

(* Mutant: the update returns without releasing stream_mutex.              *)
MutexUnlockForgotten(u) ==
  /\ CanRun(u)
  /\ Goto(u, "unlock", "idle")
  /\ stored' = [stored EXCEPT ![u] = @ + 1]
  /\ call' = [call EXCEPT ![u] = NoCall]
  /\ LeaveES(u)
  /\ UNCHANGED <<type, buffer, buffer_index, stream_mutex, corrupt, now, answer>>

MutexUnlock(u) ==
  /\ CanRun(u)
  /\ Goto(u, "unlock", "idle")
  /\ stream_mutex' = NoULT
  /\ stored' = [stored EXCEPT ![u] = @ + 1]
  /\ call' = [call EXCEPT ![u] = NoCall]
  /\ LeaveES(u)
  /\ UNCHANGED <<type, buffer, buffer_index, corrupt, now, answer>>

----------------------------------------------------------------------------
(* Reading. *)

(* Mutant: the reply is not cut to the number of samples asked for.        *)
FetchTestUncut(u, n) == Begin(u, "fetch", n, "copy_all")

(* The handler compares buffer_index with the number of samples asked for, *)
(* and reads buffer_index again to copy them: two accesses, no mutex.      *)
FetchTest(u, n) ==
  Begin(u, "fetch", n, IF buffer_index < n THEN "copy_all" ELSE "copy_last")

CopyAll(u) ==
  /\ CanRun(u)
  /\ Goto(u, "copy_all", "idle")
  /\ answer' = [answer EXCEPT ![u] = Log]
  /\ corrupt' = (buffer_index > call[u].arg)
  /\ LeaveES(u)
  /\ UNCHANGED <<type, buffer, buffer_index, stream_mutex, now, call, stored>>

(* Mutant: the oldest samples are copied instead of the latest.            *)
CopyOldest(u) ==
  /\ CanRun(u)
  /\ Goto(u, "copy_last", "idle")
  /\ answer' = [answer EXCEPT ![u] = SubSeq(Log, 1, call[u].arg)]
  /\ LeaveES(u)
  /\ UNCHANGED <<shared, call>>

CopyLast(u) ==
  /\ CanRun(u)
  /\ Goto(u, "copy_last", "idle")
  /\ answer' = [answer EXCEPT ![u] =
                  SubSeq(Log, buffer_index - call[u].arg + 1, buffer_index)]
  /\ LeaveES(u)
  /\ UNCHANGED <<shared, call>>

(* The dump evaluates buffer_index before each line it writes.             *)
DumpRawData(u) == Begin(u, "dump", 0, "dump")

(* Mutant: the loop runs while i <= buffer_index.                          *)
DumpSampleUnpublished(u) ==
  /\ CanRun(u)
  /\ pc[u] = "dump"
  /\ Len(answer[u]) <= buffer_index
  /\ answer' = [answer EXCEPT ![u] = Append(@, buffer[Len(@)])]
  /\ KeepES(u)
  /\ UNCHANGED <<shared, pc, call>>

DumpSample(u) ==
  /\ CanRun(u)
  /\ pc[u] = "dump"
  /\ Len(answer[u]) < buffer_index
  /\ answer' = [answer EXCEPT ![u] = Append(@, buffer[Len(@)])]
  /\ KeepES(u)
  /\ UNCHANGED <<shared, pc, call>>

DumpClose(u) ==
  /\ CanRun(u)
  /\ Len(answer[u]) >= buffer_index
  /\ Goto(u, "dump", "idle")
  /\ LeaveES(u)
  /\ UNCHANGED <<shared, call, answer>>

----------------------------------------------------------------------------
Tick ==
  /\ ~corrupt
  /\ now < MaxTime
  /\ now' = now + 1
  /\ UNCHANGED <<type, buffer, buffer_index, stream_mutex, corrupt, running, pc,
                 call, answer, stored>>

(* The steps of a call that has begun. *)
Continue(u) ==
  \/ MutexLock(u)
  \/ MutexWait(u)
  \/ StoreSample(u)
  \/ StoreOverrun(u)
  \/ AdvanceIndex(u)
  \/ MutexUnlock(u)
  \/ CopyAll(u)
  \/ CopyLast(u)
  \/ DumpSample(u)
  \/ DumpClose(u)

Next ==
  \/ \E u \in ULT :
        \/ \E v \in Value : StreamUpdate(u, v)
        \/ \E d \in Diff : UpdateGaugeByFixedAmount(u, d)
        \/ \E n \in Count : FetchTest(u, n)
        \/ DumpRawData(u)
        \/ Continue(u)
  \/ Tick

Spec == Init /\ [][Next]_vars

(* Argobots serves the ready ULTs of a pool, and the waiters of a mutex,   *)
(* in the order they came: a ULT that can run again and again does run.    *)
FairSpec == Spec /\ \A u \in ULT : SF_vars(Continue(u))

----------------------------------------------------------------------------
(* Properties. *)

Phase == {"idle", "lock", "store", "advance", "unlock", "copy_all",
          "copy_last", "dump"}

(* The variables keep the shape of the C structure and of a call.          *)
TypeOK ==
  /\ type \in StreamTypes
  /\ buffer \in [Slot -> Sample]
  /\ buffer_index \in 0..STREAM_BUFFER_SIZE
  /\ stream_mutex \in ULT \cup {NoULT}
  /\ corrupt \in BOOLEAN
  /\ now \in Nat
  /\ running \in [ES -> ULT \cup {NoULT}]
  /\ pc \in [ULT -> Phase]
  /\ call \in [ULT -> [op : {"none", "update", "delta", "fetch", "dump"},
                       arg : Int]]
  /\ answer \in [ULT -> Seq(Sample)]
  /\ stored \in [ULT -> Nat]

(* The published slots that u wrote. *)
SlotsOf(u) == {i \in 0..(buffer_index - 1) : buffer[i].sample_id = u}

(* Every update that returned AGGREGATOR_SUCCESS is one published sample   *)
(* that carries the identity of its caller, and no sample is published     *)
(* twice: threads that race for the next slot neither overwrite each other *)
(* nor leave a hole.                                                       *)
NoLostUpdate ==
  \A u \in ULT :
    Cardinality(SlotsOf(u)) = stored[u] + (IF pc[u] = "unlock" THEN 1 ELSE 0)

(* A delta is applied to the latest published value: no update of another  *)
(* thread comes between the read of the predecessor and the publication.   *)
DeltaOnLatest ==
  \A u \in ULT :
    (pc[u] = "advance" /\ call[u].op = "delta" /\ ~corrupt) =>
      buffer[buffer_index].val =
        (IF buffer_index > 0 THEN buffer[buffer_index - 1].val + call[u].arg ELSE 1)

(* The clock is read under the mutex, so the samples are in time order.    *)
TimesSorted ==
  \A i, j \in 0..(buffer_index - 1) : i <= j => buffer[i].time <= buffer[j].time

(* What a reader copied without the mutex is a run of consecutive          *)
(* published samples: never a slot being written, and never a slot below   *)
(* the start of the buffer (buffer_index - count is not negative).         *)
WindowIsRun ==
  \A u \in ULT :
    \E k \in 0..buffer_index :
      /\ k + Len(answer[u]) <= buffer_index
      /\ \A i \in 1..Len(answer[u]) : answer[u][i] = buffer[k + i - 1]

(* A published sample is never changed and never taken back.               *)
PublishedImmutable ==
  [][ /\ buffer_index <= buffer_index'
      /\ \A i \in 0..(buffer_index - 1) : buffer'[i] = buffer[i] ]_vars

(* The samples of a counter never decrease.  The comparison is made before *)
(* the mutex is taken: this holds on one execution stream only.            *)
CounterMonotone ==
  type = "counter" =>
    \A i, j \in 0..(buffer_index - 1) : i <= j => buffer[i].val <= buffer[j].val

(* A fetch hands out at most the number of samples asked for, which is     *)
(* what its transfer buffer has room for.  The handler reads buffer_index  *)
(* twice: this too holds on one execution stream only.                     *)
FetchWithinRequest ==
  \A u \in ULT : call[u].op = "fetch" => Len(answer[u]) <= call[u].arg

(* A dump that has not been closed has not answered yet.                   *)
AnswerGiven == [u \in ULT |-> IF pc[u] = "dump" THEN <<>> ELSE answer[u]]

Abstract == INSTANCE SampleLog WITH
  Reader <- ULT, log <- Log, answer <- AnswerGiven

(* On one execution stream the code implements the abstract log: samples   *)
(* enter in order and only if admissible, and a read is a snapshot.        *)
LogSpec == Abstract!Spec

(* As long as fewer than STREAM_BUFFER_SIZE samples are recorded nothing   *)
(* is written out of bounds: the missing comparison is the only way.       *)
OverrunOnlyWhenFull == corrupt => buffer_index = STREAM_BUFFER_SIZE

(* Every call returns: no thread keeps the mutex or its execution stream,  *)
(* and a thread that waits for them is served.                             *)
CallsReturn == \A u \in ULT : (pc[u] # "idle") ~> (pc[u] = "idle" \/ corrupt)
=============================================================================
