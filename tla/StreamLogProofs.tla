-------------------------- MODULE StreamLogProofs --------------------------
(***************************************************************************)
(* The order of the samples of a stream.  They are in time order for every *)
(* placement of the threads.  What the code checks before it takes the     *)
(* mutex, and what it reads twice without it, needs all threads on one     *)
(* execution stream: then a thread that has begun is alone until it is     *)
(* done, counters never decrease, no fetch copies too much, only a full    *)
(* buffer is overrun, and the stream implements the abstract log.          *)
(***************************************************************************)
EXTENDS StreamProofs

----------------------------------------------------------------------------
(* Time. *)

(* No published sample is of the future, and the one to be published next  *)
(* is not older than any of them.                                          *)
TimeInv ==
  /\ TimesSorted
  /\ \A i \in 0..(buffer_index - 1) : buffer[i].time <= now
  /\ \A u \in ULT : (pc[u] = "advance" /\ ~corrupt) =>
       /\ buffer[buffer_index].time <= now
       /\ \A i \in 0..(buffer_index - 1) : buffer[i].time <= buffer[buffer_index].time

LEMMA ClockGrows ==
  ASSUME TypeOK, [Next]_vars PROVE now <= now'
  BY DEF TypeOK, Next, Continue, StreamUpdate, UpdateGaugeByFixedAmount, FetchTest,
     DumpRawData, Begin, Refuse, shared, MutexLock, MutexWait, StoreSample, StoreOverrun,
     AdvanceIndex, MutexUnlock, CopyAll, CopyLast, DumpSample, DumpClose, Tick, vars

LEMMA SlotTypes ==
  ASSUME TypeOK
  PROVE  /\ buffer_index \in Nat /\ buffer_index <= STREAM_BUFFER_SIZE
         /\ STREAM_BUFFER_SIZE \in Nat
         /\ \A i \in 0..(buffer_index - 1) : buffer[i] \in Sample
         /\ buffer_index < STREAM_BUFFER_SIZE => buffer[buffer_index] \in Sample
  BY StreamAssumption DEF TypeOK, Slot

(* A store writes the next slot and no published one.                      *)
LEMMA StoreWrites ==
  ASSUME TypeOK, NEW u \in ULT, StoreSample(u)
  PROVE  /\ buffer'[buffer_index] = [val |-> NewValue(u), time |-> now, sample_id |-> u]
         /\ \A i \in 0..(buffer_index - 1) : buffer'[i] = buffer[i]
         /\ UNCHANGED <<type, buffer_index, now, call, answer, corrupt>> /\ ~corrupt
         /\ pc[u] = "store" /\ pc'[u] = "advance"
         /\ \A w \in ULT : w # u => pc'[w] = pc[w]
  BY StreamAssumption DEF StoreSample, TypeOK, Slot, Goto, CanRun

LEMMA NextTime ==
  ASSUME IInv, TimeInv, [Next]_vars
  PROVE  TimeInv'
  <1>1. TypeOK /\ now \in Nat /\ now <= now' /\ now' \in Nat
    BY ClockGrows, NextIInv DEF IInv, TypeOK
  <1>2. /\ buffer_index \in Nat
        /\ \A i \in 0..(buffer_index - 1) : buffer[i].time \in Nat
    BY <1>1, SlotTypes DEF Sample
  <1>3. \A u \in ULT : (pc[u] = "advance" /\ ~corrupt) => buffer[buffer_index].time \in Nat
    BY <1>1, SlotTypes DEF Sample, IInv, SlotInv
  <1>4. CASE Quiet
    BY <1>1, <1>2, <1>3, <1>4 DEF Quiet, TimeInv, TimesSorted
  <1>5. ASSUME NEW u \in ULT, StoreSample(u) PROVE TimeInv'
    <2>1. /\ buffer'[buffer_index] = [val |-> NewValue(u), time |-> now, sample_id |-> u]
          /\ \A i \in 0..(buffer_index - 1) : buffer'[i] = buffer[i]
          /\ UNCHANGED <<buffer_index, now>>
      BY <1>1, <1>5, StoreWrites
    <2>2. buffer'[buffer_index].time = now
      BY <2>1
    <2> QED
      BY <1>1, <1>2, <2>1, <2>2 DEF TimeInv, TimesSorted
  <1>6. ASSUME NEW u \in ULT, AdvanceIndex(u) PROVE TimeInv'
    <2>1. /\ buffer_index' = buffer_index + 1 /\ UNCHANGED <<buffer, now, corrupt>>
          /\ pc[u] = "advance" /\ ~corrupt
      BY <1>6 DEF AdvanceIndex, Goto, CanRun
    <2>2. \A w \in ULT : pc'[w] # "advance"
      BY <1>1, <1>6 DEF AdvanceIndex, Goto, IInv, MutexInv, Critical, TypeOK
    <2>3. ASSUME NEW i \in 0..(buffer_index' - 1)
          PROVE  i \in 0..(buffer_index - 1) \/ i = buffer_index
      BY <1>2, <2>1
    <2>4. \A i \in 0..(buffer_index' - 1) : buffer[i].time <= now
      BY <2>1, <2>3 DEF TimeInv
    <2>5. ASSUME NEW i \in 0..(buffer_index' - 1), NEW j \in 0..(buffer_index' - 1), i <= j
          PROVE  buffer[i].time <= buffer[j].time
      <3>1. CASE j \in 0..(buffer_index - 1)
        BY <1>2, <2>3, <2>5, <3>1 DEF TimeInv, TimesSorted
      <3>2. CASE j = buffer_index
        BY <1>3, <2>1, <2>3, <3>2 DEF TimeInv
      <3> QED
        BY <2>3, <3>1, <3>2
    <2> QED
      BY <2>1, <2>2, <2>4, <2>5 DEF TimeInv, TimesSorted
  <1>7. ASSUME NEW u \in ULT, MutexUnlock(u) PROVE TimeInv'
    <2>1. UNCHANGED <<buffer, buffer_index, now, corrupt>>
      BY <1>7 DEF MutexUnlock
    <2>2. \A w \in ULT : pc'[w] = "advance" => pc[w] = "advance"
      BY <1>1, <1>7 DEF MutexUnlock, Goto, TypeOK
    <2> QED
      BY <2>1, <2>2 DEF TimeInv, TimesSorted
  <1> QED
    BY <1>1, <1>4, <1>5, <1>6, <1>7, StepKinds

LEMMA TimeInvariance == Spec => []TimeInv
  <1>1. Init => TimeInv
    BY DEF Init, TimeInv, TimesSorted
  <1>2. IInv /\ TimeInv /\ [Next]_vars => TimeInv'
    BY NextTime
  <1> QED
    BY <1>1, <1>2, Invariance, PTL DEF Spec

(* With any number of threads on any execution streams the samples are in  *)
(* time order: the clock is read under the mutex (src/client.c 113-126).   *)
THEOREM SamplesInTime == Spec => []TimesSorted
  <1>1. TimeInv => TimesSorted
    BY DEF TimeInv
  <1> QED
    BY <1>1, TimeInvariance, PTL

----------------------------------------------------------------------------
(* One execution stream. *)

OneES == \A u, w \in ULT : Home[u] = Home[w]

(* A thread in a call occupies its execution stream. *)
SerialInv == \A u \in ULT : pc[u] # "idle" => running[Home[u]] = u

(* The stream accepts v as its next value. *)
Fits(v) ==
  /\ (type = "counter" /\ buffer_index > 0) => buffer[buffer_index - 1].val <= v
  /\ type = "timer" => v >= 0

(* What a call found when it began still holds when it uses it. *)
ThreadInv(u) ==
  /\ pc[u] \in {"lock", "store"} =>
       type = "gauge" \/ (call[u].op = "update" /\ Fits(call[u].arg))
  /\ (pc[u] = "advance" /\ ~corrupt) => Fits(buffer[buffer_index].val)
  /\ pc[u] = "copy_all" => buffer_index < call[u].arg
  /\ pc[u] \in {"copy_all", "copy_last"} => call[u].arg \in Count
  /\ pc[u] = "dump" => call[u].op = "dump"
  /\ call[u].op = "fetch" => Len(answer[u]) <= call[u].arg

SeqInv ==
  /\ SerialInv
  /\ \A u \in ULT : ThreadInv(u)
  /\ OverrunOnlyWhenFull
  /\ CounterMonotone

(* What a step of u does to the threads. *)
Acts(u) ==
  /\ CanRun(u)
  /\ \A w \in ULT \ {u} :
       pc'[w] = pc[w] /\ call'[w] = call[w] /\ answer'[w] = answer[w]
  /\ pc'[u] # "idle" => running'[Home[u]] = u

LEMMA Alone ==
  ASSUME OneES, SerialInv, NEW u \in ULT, CanRun(u), NEW w \in ULT \ {u}
  PROVE  pc[w] = "idle"
  BY StreamAssumption DEF OneES, SerialInv, CanRun

(* The mutex is never contended. *)
LEMMA NoWait ==
  ASSUME OneES, IInv, SerialInv, NEW u \in ULT, MutexWait(u)
  PROVE  FALSE
  <1>1. PICK w \in ULT : stream_mutex = w
    BY DEF MutexWait, IInv, TypeOK
  <1>2. pc[w] \in Critical /\ pc[u] = "lock" /\ running[Home[u]] = u
    BY <1>1 DEF IInv, MutexInv, MutexWait
  <1>3. running[Home[w]] = w
    BY <1>2 DEF SerialInv, Critical
  <1>4. Home[w] = Home[u]
    BY DEF OneES
  <1> QED
    BY <1>2, <1>3, <1>4 DEF Critical

LEMMA OthersKeep ==
  ASSUME OneES, SeqInv, NEW u \in ULT, Acts(u)
  PROVE  SerialInv' /\ \A w \in ULT \ {u} : ThreadInv(w)'
  <1>1. \A w \in ULT \ {u} : pc[w] = "idle"
    BY Alone DEF SeqInv, Acts
  <1>2. ASSUME NEW w \in ULT \ {u} PROVE ThreadInv(w)'
    <2>1. pc'[w] = "idle" /\ call'[w] = call[w] /\ answer'[w] = answer[w]
      BY <1>1 DEF Acts
    <2>2. call[w].op = "fetch" => Len(answer[w]) <= call[w].arg
      BY DEF SeqInv, ThreadInv
    <2> QED
      BY <2>1, <2>2 DEF ThreadInv
  <1> QED
    BY <1>1, <1>2 DEF SerialInv, Acts

LEMMA BeginActs ==
  ASSUME TypeOK, NEW u \in ULT, NEW op, NEW arg, NEW to, Begin(u, op, arg, to)
  PROVE  /\ Acts(u)
         /\ UNCHANGED shared
         /\ pc[u] = "idle" /\ pc'[u] = to
         /\ call'[u] = [op |-> op, arg |-> arg] /\ answer'[u] = <<>>
  BY StreamAssumption DEF Begin, Goto, KeepES, Acts, TypeOK

LEMMA RefuseActs ==
  ASSUME TypeOK, NEW u \in ULT, Refuse(u)
  PROVE  /\ Acts(u)
         /\ UNCHANGED shared
         /\ pc[u] = "idle" /\ pc'[u] = "idle"
         /\ call'[u] = NoCall /\ answer'[u] = <<>>
  BY StreamAssumption DEF Refuse, LeaveES, Acts, TypeOK

LEMMA ContinueActs ==
  ASSUME TypeOK, NEW u \in ULT,
         \/ MutexLock(u) \/ StoreSample(u) \/ StoreOverrun(u) \/ AdvanceIndex(u)
         \/ MutexUnlock(u) \/ CopyAll(u) \/ CopyLast(u) \/ DumpSample(u)
         \/ DumpClose(u)
  PROVE  Acts(u)
  <1> USE StreamAssumption DEF Acts, Goto, KeepES, LeaveES, TypeOK, shared
  <1>1. CASE MutexLock(u)
    BY <1>1 DEF MutexLock
  <1>2. CASE StoreSample(u)
    BY <1>2 DEF StoreSample
  <1>3. CASE StoreOverrun(u)
    BY <1>3 DEF StoreOverrun
  <1>4. CASE AdvanceIndex(u)
    BY <1>4 DEF AdvanceIndex
  <1>5. CASE MutexUnlock(u)
    BY <1>5 DEF MutexUnlock
  <1>6. CASE CopyAll(u)
    BY <1>6 DEF CopyAll
  <1>7. CASE CopyLast(u)
    BY <1>7 DEF CopyLast
  <1>8. CASE DumpSample(u)
    BY <1>8 DEF DumpSample
  <1>9. CASE DumpClose(u)
    BY <1>9 DEF DumpClose
  <1> QED
    BY <1>1, <1>2, <1>3, <1>4, <1>5, <1>6, <1>7, <1>8, <1>9

(* A step that leaves the samples alone keeps SeqInv if it keeps the word  *)
(* of its thread.                                                          *)
LEMMA SeqStep ==
  ASSUME OneES, SeqInv, NEW u \in ULT, Acts(u),
         UNCHANGED <<type, buffer, buffer_index, corrupt>>, ThreadInv(u)'
  PROVE  SeqInv'
  <1>1. SerialInv' /\ \A w \in ULT \ {u} : ThreadInv(w)'
    BY OthersKeep
  <1>2. OverrunOnlyWhenFull' /\ CounterMonotone'
    BY DEF SeqInv, OverrunOnlyWhenFull, CounterMonotone
  <1> QED
    BY <1>1, <1>2 DEF SeqInv

LEMMA BeginSeq ==
  ASSUME OneES, IInv, SeqInv, NEW u \in ULT,
         NEW op \in {"update", "delta", "fetch", "dump"}, NEW arg \in Int,
         NEW to \in {"lock", "copy_all", "copy_last", "dump"},
         Begin(u, op, arg, to),
         to = "lock" => type = "gauge" \/ (op = "update" /\ Fits(arg)),
         to = "copy_all" => buffer_index < arg,
         to \in {"copy_all", "copy_last"} => arg \in Count,
         to = "dump" => op = "dump",
         op = "fetch" => 0 <= arg
  PROVE  SeqInv'
  <1>1. /\ Acts(u)
        /\ UNCHANGED <<type, buffer, buffer_index, corrupt>>
        /\ pc'[u] = to
        /\ call'[u] = [op |-> op, arg |-> arg] /\ answer'[u] = <<>>
    BY BeginActs DEF IInv, shared
  <1>2. call'[u].op = op /\ call'[u].arg = arg /\ Len(answer'[u]) = 0
    BY <1>1
  <1>3. Fits(arg) => Fits(arg)'
    BY <1>1 DEF Fits
  <1>4. ThreadInv(u)'
    BY <1>1, <1>2, <1>3 DEF ThreadInv, Fits
  <1> QED
    BY <1>1, <1>4, SeqStep

(* A call that begins has looked at the stream, and sees it unchanged.     *)
LEMMA CallsBeginSeq ==
  ASSUME OneES, IInv, SeqInv, NEW u \in ULT,
         \/ \E v \in Value : StreamUpdate(u, v)
         \/ \E d \in Diff : UpdateGaugeByFixedAmount(u, d)
         \/ \E n \in Count : FetchTest(u, n)
         \/ DumpRawData(u)
  PROVE  SeqInv'
  <1>1. CASE Refuse(u)
    <2>1. /\ Acts(u)
          /\ UNCHANGED <<type, buffer, buffer_index, corrupt>>
          /\ pc'[u] = "idle" /\ call'[u] = NoCall
      BY <1>1, RefuseActs DEF IInv, shared
    <2>2. ThreadInv(u)'
      BY <2>1 DEF ThreadInv, NoCall
    <2> QED
      BY <2>1, <2>2, SeqStep
  <1>2. ASSUME NEW v \in Value, StreamUpdate(u, v), ~Refuse(u) PROVE SeqInv'
    <2>1. ~InvalidValue(v) /\ Begin(u, "update", v, "lock") /\ v \in Int
      BY <1>2, StreamAssumption DEF StreamUpdate
    <2>2. /\ buffer_index \in Nat
          /\ buffer_index > 0 => buffer[buffer_index - 1].val \in Int
      BY SlotTypes DEF IInv, Sample
    <2>3. Fits(v)
      BY <2>1, <2>2 DEF InvalidValue, Fits
    <2> QED
      BY <2>1, <2>3, BeginSeq
  <1>3. ASSUME NEW d \in Diff, UpdateGaugeByFixedAmount(u, d), ~Refuse(u)
        PROVE  SeqInv'
    <2>1. type = "gauge" /\ Begin(u, "delta", d, "lock") /\ d \in Int
      BY <1>3, StreamAssumption DEF UpdateGaugeByFixedAmount
    <2> QED
      BY <2>1, BeginSeq
  <1>4. ASSUME NEW n \in Count, FetchTest(u, n) PROVE SeqInv'
    <2>1. n \in Int /\ 0 <= n
      BY StreamAssumption
    <2>2. CASE buffer_index < n
      <3>1. Begin(u, "fetch", n, "copy_all")
        BY <1>4, <2>2 DEF FetchTest
      <3> QED
        BY <2>1, <2>2, <3>1, BeginSeq
    <2>3. CASE ~(buffer_index < n)
      <3>1. Begin(u, "fetch", n, "copy_last")
        BY <1>4, <2>3 DEF FetchTest
      <3> QED
        BY <2>1, <3>1, BeginSeq
    <2> QED
      BY <2>2, <2>3
  <1>5. CASE DumpRawData(u)
    <2>1. Begin(u, "dump", 0, "dump")
      BY <1>5 DEF DumpRawData
    <2> QED
      BY <2>1, BeginSeq
  <1> QED
    BY <1>1, <1>2, <1>3, <1>4, <1>5

LEMMA StoreSeq ==
  ASSUME OneES, IInv, SeqInv, NEW u \in ULT, StoreSample(u)
  PROVE  SeqInv'
  <1>1. /\ TypeOK /\ buffer_index \in Nat
        /\ Acts(u)
        /\ ThreadInv(u) /\ OverrunOnlyWhenFull /\ CounterMonotone
    BY ContinueActs, SlotTypes DEF IInv, SeqInv
  <1>2. /\ buffer'[buffer_index] = [val |-> NewValue(u), time |-> now, sample_id |-> u]
        /\ \A i \in 0..(buffer_index - 1) : buffer'[i] = buffer[i]
        /\ UNCHANGED <<type, buffer_index, call, answer, corrupt>>
        /\ pc[u] = "store" /\ pc'[u] = "advance"
    BY <1>1, StoreWrites
  <1>3. buffer'[buffer_index].val = NewValue(u)
    BY <1>2
  <1>4. type = "gauge" \/ (NewValue(u) = call[u].arg /\ Fits(call[u].arg))
    BY <1>1, <1>2 DEF ThreadInv, NewValue
  <1>5. buffer_index > 0 => buffer'[buffer_index - 1] = buffer[buffer_index - 1]
    BY <1>1, <1>2
  <1>6. Fits(buffer[buffer_index].val)'
    BY <1>2, <1>3, <1>4, <1>5 DEF Fits
  <1>7. ThreadInv(u)'
    BY <1>1, <1>2, <1>6 DEF ThreadInv
  <1>8. OverrunOnlyWhenFull' /\ CounterMonotone'
    BY <1>1, <1>2 DEF OverrunOnlyWhenFull, CounterMonotone
  <1> QED
    BY <1>1, <1>7, <1>8, OthersKeep DEF SeqInv

LEMMA AdvanceSeq ==
  ASSUME OneES, IInv, SeqInv, NEW u \in ULT, AdvanceIndex(u)
  PROVE  SeqInv'
  <1>1. /\ TypeOK /\ buffer_index \in Nat
        /\ Acts(u)
        /\ ThreadInv(u) /\ CounterMonotone
    BY ContinueActs, SlotTypes DEF IInv, SeqInv
  <1>2. /\ buffer_index' = buffer_index + 1
        /\ UNCHANGED <<type, buffer, corrupt, call, answer>>
        /\ ~corrupt /\ pc[u] = "advance" /\ pc'[u] = "unlock"
    BY <1>1 DEF AdvanceIndex, Goto, CanRun, TypeOK
  <1>3. Fits(buffer[buffer_index].val)
    BY <1>1, <1>2 DEF ThreadInv
  <1>4. \A i \in 0..(buffer_index - 1) : buffer[i].val \in Int
    BY <1>1, SlotTypes DEF Sample
  <1>5. buffer[buffer_index].val \in Int
    BY <1>1, <1>2, SlotTypes DEF IInv, SlotInv, Sample
  <1>6. CounterMonotone'
    <2> SUFFICES ASSUME type = "counter", NEW i \in 0..(buffer_index' - 1),
                        NEW j \in 0..(buffer_index' - 1), i <= j
                 PROVE  buffer[i].val <= buffer[j].val
      BY <1>2 DEF CounterMonotone
    <2>1. CASE j \in 0..(buffer_index - 1)
      BY <1>1, <2>1 DEF CounterMonotone
    <2>2. CASE j = buffer_index /\ i = buffer_index
      BY <1>5, <2>2
    <2>3. CASE j = buffer_index /\ i # buffer_index
      <3>1. i \in 0..(buffer_index - 1) /\ buffer_index - 1 \in 0..(buffer_index - 1)
              /\ i <= buffer_index - 1
        BY <1>1, <1>2, <2>3
      <3>2. buffer[i].val <= buffer[buffer_index - 1].val
        BY <1>1, <3>1 DEF CounterMonotone
      <3>3. buffer[buffer_index - 1].val <= buffer[buffer_index].val
        BY <1>1, <1>3, <3>1 DEF Fits
      <3> QED
        BY <1>4, <1>5, <2>3, <3>1, <3>2, <3>3
    <2> QED
      BY <1>1, <1>2, <2>1, <2>2, <2>3
  <1>7. ThreadInv(u)' /\ OverrunOnlyWhenFull'
    BY <1>1, <1>2 DEF ThreadInv, OverrunOnlyWhenFull
  <1> QED
    BY <1>1, <1>6, <1>7, OthersKeep DEF SeqInv

LEMMA ContinueSeq ==
  ASSUME OneES, IInv, SeqInv, NEW u \in ULT, Continue(u)
  PROVE  SeqInv'
  <1>1. /\ TypeOK /\ buffer_index \in Nat /\ buffer_index <= STREAM_BUFFER_SIZE
        /\ ThreadInv(u)
    BY SlotTypes DEF IInv, SeqInv
  <1>2. CASE MutexLock(u)
    <2>1. /\ Acts(u)
          /\ UNCHANGED <<type, buffer, buffer_index, corrupt, call, answer>>
          /\ pc[u] = "lock" /\ pc'[u] = "store"
      BY <1>1, <1>2, ContinueActs DEF MutexLock, Goto, TypeOK
    <2>2. ThreadInv(u)'
      BY <1>1, <2>1 DEF ThreadInv, Fits
    <2> QED
      BY <2>1, <2>2, SeqStep
  <1>3. CASE MutexWait(u)
    BY <1>3, NoWait DEF SeqInv
  <1>4. CASE StoreOverrun(u)
    <2>1. /\ Acts(u)
          /\ UNCHANGED <<type, buffer, buffer_index, call, answer>>
          /\ corrupt' = TRUE
          /\ pc[u] = "store" /\ pc'[u] = "advance"
      BY <1>1, <1>4, ContinueActs DEF StoreOverrun, Goto, TypeOK
    <2>2. ThreadInv(u)'
      BY <1>1, <2>1 DEF ThreadInv
    <2>3. buffer_index = STREAM_BUFFER_SIZE
      BY <1>1, <1>4, StreamAssumption DEF StoreOverrun
    <2>4. OverrunOnlyWhenFull' /\ CounterMonotone'
      BY <2>1, <2>3 DEF SeqInv, OverrunOnlyWhenFull, CounterMonotone
    <2> QED
      BY <2>1, <2>2, <2>4, OthersKeep DEF SeqInv
  <1>5. CASE MutexUnlock(u)
    <2>1. /\ Acts(u)
          /\ UNCHANGED <<type, buffer, buffer_index, corrupt>>
          /\ pc'[u] = "idle" /\ call'[u] = NoCall
      BY <1>1, <1>5, ContinueActs DEF MutexUnlock, Goto, TypeOK
    <2>2. ThreadInv(u)'
      BY <2>1 DEF ThreadInv, NoCall
    <2> QED
      BY <2>1, <2>2, SeqStep
  <1>6. CASE CopyAll(u)
    <2>1. /\ Acts(u) /\ ~corrupt
          /\ UNCHANGED <<type, buffer, buffer_index, call>>
          /\ corrupt' = (buffer_index > call[u].arg)
          /\ pc[u] = "copy_all" /\ pc'[u] = "idle" /\ answer'[u] = Log
      BY <1>1, <1>6, ContinueActs DEF CopyAll, Goto, CanRun, TypeOK
    <2>2. buffer_index < call[u].arg /\ call[u].arg \in Int
      BY <1>1, <2>1 DEF ThreadInv, TypeOK
    <2>3. corrupt' = corrupt
      BY <1>1, <2>1, <2>2 DEF TypeOK
    <2>4. Len(answer'[u]) = buffer_index
      BY <1>1, <2>1, LogType DEF Log
    <2>5. ThreadInv(u)'
      BY <1>1, <2>1, <2>2, <2>4 DEF ThreadInv
    <2> QED
      BY <2>1, <2>3, <2>5, SeqStep
  <1>7. CASE CopyLast(u)
    <2>1. /\ Acts(u)
          /\ UNCHANGED <<type, buffer, buffer_index, corrupt, call>>
          /\ pc[u] = "copy_last" /\ pc'[u] = "idle"
          /\ answer'[u] = SubSeq(Log, buffer_index - call[u].arg + 1, buffer_index)
      BY <1>1, <1>7, ContinueActs DEF CopyLast, Goto, shared, TypeOK
    <2>2. call[u].arg \in 0..buffer_index
      BY <2>1 DEF IInv, ReadInv
    <2>3. Len(answer'[u]) = call[u].arg
      BY <1>1, <2>1, <2>2, LastSlots
    <2>4. ThreadInv(u)'
      BY <1>1, <2>1, <2>2, <2>3 DEF ThreadInv
    <2> QED
      BY <2>1, <2>4, SeqStep
  <1>8. CASE DumpSample(u)
    <2>1. /\ Acts(u)
          /\ UNCHANGED <<type, buffer, buffer_index, corrupt, call>>
          /\ pc[u] = "dump" /\ pc'[u] = "dump"
      BY <1>1, <1>8, ContinueActs DEF DumpSample, shared
    <2>2. ThreadInv(u)'
      BY <1>1, <2>1 DEF ThreadInv
    <2> QED
      BY <2>1, <2>2, SeqStep
  <1>9. CASE DumpClose(u)
    <2>1. /\ Acts(u)
          /\ UNCHANGED <<type, buffer, buffer_index, corrupt, call, answer>>
          /\ pc'[u] = "idle"
      BY <1>1, <1>9, ContinueActs DEF DumpClose, Goto, shared, TypeOK
    <2>2. ThreadInv(u)'
      BY <1>1, <2>1 DEF ThreadInv
    <2> QED
      BY <2>1, <2>2, SeqStep
  <1> QED
    BY <1>2, <1>3, <1>4, <1>5, <1>6, <1>7, <1>8, <1>9, StoreSeq, AdvanceSeq
       DEF Continue

LEMMA NextSeq ==
  ASSUME OneES, IInv, SeqInv, [Next]_vars
  PROVE  SeqInv'
  <1>1. CASE Tick \/ UNCHANGED vars
    <2>1. UNCHANGED <<type, buffer, buffer_index, corrupt, running, pc, call, answer>>
      BY <1>1 DEF Tick, vars
    <2> QED
      BY <2>1 DEF SeqInv, SerialInv, ThreadInv, Fits, OverrunOnlyWhenFull,
                  CounterMonotone
  <1>2. CASE \E u \in ULT : \/ \E v \in Value : StreamUpdate(u, v)
                            \/ \E d \in Diff : UpdateGaugeByFixedAmount(u, d)
                            \/ \E n \in Count : FetchTest(u, n)
                            \/ DumpRawData(u)
    BY <1>2, CallsBeginSeq
  <1>3. CASE \E u \in ULT : Continue(u)
    BY <1>3, ContinueSeq
  <1> QED
    BY <1>1, <1>2, <1>3 DEF Next

LEMMA OneESInvariance ==
  ASSUME OneES PROVE Spec => []SeqInv
  <1>1. Init => SeqInv
    BY DEF Init, SeqInv, SerialInv, ThreadInv, NoCall, OverrunOnlyWhenFull,
           CounterMonotone
  <1>2. IInv /\ SeqInv /\ [Next]_vars => SeqInv'
    BY NextSeq
  <1> QED
    BY <1>1, <1>2, Invariance, PTL DEF Spec

(* The comparison with the predecessor is made before the mutex is taken:  *)
(* where all threads share an execution stream no other update comes       *)
(* between the two, and the samples of a counter never decrease.           *)
THEOREM CountersNeverDecrease ==
  ASSUME OneES PROVE Spec => []CounterMonotone
  <1>1. SeqInv => CounterMonotone
    BY DEF SeqInv
  <1> QED
    BY <1>1, OneESInvariance, PTL

(* The handler reads buffer_index twice: where all threads share an        *)
(* execution stream it copies no more samples than were asked for.         *)
THEOREM FetchFitsItsBuffer ==
  ASSUME OneES PROVE Spec => []FetchWithinRequest
  <1>1. SeqInv => FetchWithinRequest
    BY DEF SeqInv, ThreadInv, FetchWithinRequest
  <1> QED
    BY <1>1, OneESInvariance, PTL

(* The one write past the end of an allocation is that of an update when   *)
(* STREAM_BUFFER_SIZE samples are published already.                       *)
THEOREM OverrunsWhenFull ==
  ASSUME OneES PROVE Spec => []OverrunOnlyWhenFull
  <1>1. SeqInv => OverrunOnlyWhenFull
    BY DEF SeqInv
  <1> QED
    BY <1>1, OneESInvariance, PTL

----------------------------------------------------------------------------
(* The stream implements the log. *)

AbstractSteps == Abstract!Next \/ UNCHANGED Abstract!vars

LEMMA LogLength ==
  ASSUME TypeOK
  PROVE  /\ Log \in Seq(Sample) /\ Len(Log) = buffer_index /\ buffer_index \in Nat
         /\ \A i \in 1..buffer_index : Log[i] = buffer[i - 1]
  BY LogType, SlotTypes DEF Log

LEMMA LogSame ==
  ASSUME TypeOK, buffer_index' = buffer_index,
         \A i \in 0..(buffer_index - 1) : buffer'[i] = buffer[i]
  PROVE  Log' = Log
  <1>1. ASSUME NEW i \in 1..buffer_index PROVE buffer'[i - 1] = buffer[i - 1]
    BY SlotTypes
  <1> QED
    BY <1>1 DEF Log

LEMMA LogGrows ==
  ASSUME TypeOK, buffer_index' = buffer_index + 1, buffer' = buffer
  PROVE  Log' = Append(Log, buffer[buffer_index])
  <1>1. /\ Log \in Seq(Sample) /\ Len(Log) = buffer_index /\ buffer_index \in Nat
        /\ \A i \in 1..buffer_index : Log[i] = buffer[i - 1]
    BY LogLength
  <1>2. Log' = [i \in 1..(buffer_index + 1) |-> buffer[i - 1]]
    BY DEF Log
  <1>3. Append(Log, buffer[buffer_index]) =
          [i \in 1..(buffer_index + 1) |->
             IF i = buffer_index + 1 THEN buffer[buffer_index] ELSE Log[i]]
    BY <1>1
  <1>4. ASSUME NEW i \in 1..(buffer_index + 1)
        PROVE  buffer[i - 1] =
                 IF i = buffer_index + 1 THEN buffer[buffer_index] ELSE Log[i]
    <2>1. CASE i = buffer_index + 1
      BY <1>1, <2>1
    <2>2. CASE i # buffer_index + 1
      BY <1>1, <2>2
    <2> QED
      BY <2>1, <2>2
  <1> QED
    BY <1>2, <1>3, <1>4

(* A step gives s to u and nothing to the others. *)
LEMMA GivenTo ==
  ASSUME NEW u \in ULT, NEW s,
         \A w \in ULT \ {u} : pc'[w] = pc[w] /\ answer'[w] = answer[w],
         s = IF pc'[u] = "dump" THEN <<>> ELSE answer'[u]
  PROVE  AnswerGiven' = [AnswerGiven EXCEPT ![u] = s]
  BY DEF AnswerGiven

LEMMA GivenNothing ==
  ASSUME NEW u \in ULT,
         \A w \in ULT \ {u} : pc'[w] = pc[w] /\ answer'[w] = answer[w],
         \/ pc[u] = "dump" /\ pc'[u] = "dump"
         \/ pc[u] # "dump" /\ pc'[u] # "dump" /\ answer'[u] = answer[u]
  PROVE  AnswerGiven' = AnswerGiven
  BY DEF AnswerGiven

(* A call that begins, or is refused, has answered nothing. *)
LEMMA ForgetStep ==
  ASSUME TypeOK, NEW u \in ULT,
         Refuse(u) \/ \E op, arg, to : Begin(u, op, arg, to)
  PROVE  Abstract!Forget(u)
  <1>1. Acts(u) /\ UNCHANGED shared /\ answer'[u] = <<>>
    BY RefuseActs, BeginActs
  <1>2. AnswerGiven' = [AnswerGiven EXCEPT ![u] = <<>>]
    BY <1>1, GivenTo DEF Acts
  <1>3. Log' = Log /\ type' = type
    BY <1>1, LogSame DEF shared
  <1> QED
    BY <1>2, <1>3 DEF Abstract!Forget

(* The increment of the index is the moment a sample is recorded. *)
LEMMA RecordStep ==
  ASSUME IInv, TimeInv, SeqInv, NEW u \in ULT, AdvanceIndex(u)
  PROVE  /\ Len(Log') > 0 /\ Log'[Len(Log')] \in Sample
         /\ Abstract!Record(Log'[Len(Log')])
  <1> DEFINE s == buffer[buffer_index]
  <1>1. /\ TypeOK
        /\ Log \in Seq(Sample) /\ Len(Log) = buffer_index /\ buffer_index \in Nat
        /\ \A i \in 1..buffer_index : Log[i] = buffer[i - 1]
    BY LogLength DEF IInv
  <1>2. /\ Acts(u) /\ buffer_index' = buffer_index + 1
        /\ UNCHANGED <<type, buffer, answer>>
        /\ ~corrupt /\ pc[u] = "advance" /\ pc'[u] = "unlock"
    BY <1>1, ContinueActs DEF AdvanceIndex, Goto, CanRun, TypeOK
  <1>3. s \in Sample
    BY <1>1, <1>2, SlotTypes DEF IInv, SlotInv
  <1>4. Log' = Append(Log, s)
    BY <1>1, <1>2, LogGrows
  <1>5. Len(Log') = buffer_index + 1 /\ Log'[Len(Log')] = s
    BY <1>1, <1>3, <1>4
  <1>6. Fits(s.val)
    BY <1>2 DEF SeqInv, ThreadInv
  <1>7. \A i \in 0..(buffer_index - 1) : buffer[i].time <= s.time
    BY <1>2 DEF TimeInv
  <1>8. Log # <<>> => /\ buffer_index > 0
                      /\ Log[Len(Log)] = buffer[buffer_index - 1]
                      /\ buffer_index - 1 \in 0..(buffer_index - 1)
    BY <1>1
  <1>9. Abstract!Admits(s)
    BY <1>6, <1>7, <1>8 DEF Abstract!Admits, Fits
  <1>10. AnswerGiven' = AnswerGiven
    BY <1>2, GivenNothing DEF Acts
  <1> HIDE DEF s
  <1> QED
    BY <1>1, <1>2, <1>3, <1>4, <1>5, <1>9, <1>10 DEF Abstract!Record

(* A read that ends answers with what is in the log at that moment. *)
LEMMA ReadStep ==
  ASSUME IInv, RunInv, SeqInv, NEW u \in ULT,
         CopyAll(u) \/ CopyLast(u) \/ DumpClose(u)
  PROVE  Abstract!ReadAll(u) \/ \E n \in Count : Abstract!ReadLatest(u, n)
  <1>1. /\ TypeOK
        /\ Log \in Seq(Sample) /\ Len(Log) = buffer_index /\ buffer_index \in Nat
        /\ \A i \in 1..buffer_index : Log[i] = buffer[i - 1]
    BY LogLength DEF IInv
  <1>2. /\ Acts(u) /\ pc'[u] = "idle"
        /\ UNCHANGED <<type, buffer, buffer_index>>
    BY <1>1, ContinueActs
       DEF CopyAll, CopyLast, DumpClose, Goto, shared, TypeOK
  <1>3. Log' = Log
    BY <1>1, <1>2, LogSame
  <1>4. AnswerGiven' = [AnswerGiven EXCEPT ![u] = answer'[u]]
    BY <1>2, GivenTo DEF Acts
  <1>5. CASE CopyAll(u)
    <2>1. answer'[u] = Log
      BY <1>1, <1>5 DEF CopyAll, TypeOK
    <2> QED
      BY <1>2, <1>3, <1>4, <2>1 DEF Abstract!ReadAll
  <1>6. CASE CopyLast(u)
    <2> DEFINE n == call[u].arg
    <2>1. /\ n \in Count /\ n \in 0..buffer_index
          /\ answer'[u] = SubSeq(Log, buffer_index - n + 1, buffer_index)
      BY <1>1, <1>6 DEF CopyLast, Goto, TypeOK, IInv, ReadInv, SeqInv, ThreadInv
    <2>2. Abstract!Smaller(n, Len(Log)) = n
      BY <1>1, <2>1 DEF Abstract!Smaller
    <2>3. answer'[u] = Abstract!Latest(n)
      BY <1>1, <2>1, <2>2 DEF Abstract!Latest
    <2>4. Abstract!ReadLatest(u, n)
      BY <1>2, <1>3, <1>4, <2>3 DEF Abstract!ReadLatest
    <2> QED
      BY <2>1, <2>4
  <1>7. CASE DumpClose(u)
    <2>1. /\ pc[u] = "dump" /\ Len(answer[u]) >= buffer_index
          /\ answer' = answer /\ answer[u] \in Seq(Sample)
      BY <1>1, <1>7 DEF DumpClose, Goto, TypeOK
    <2>2. WindowAt(answer[u], 0)
      BY <2>1 DEF RunInv, DumpInv
    <2>3. Len(answer[u]) = Len(Log)
      BY <1>1, <2>1, <2>2 DEF WindowAt
    <2>4. ASSUME NEW i \in 1..Len(Log) PROVE answer[u][i] = Log[i]
      <3>1. answer[u][i] = buffer[0 + i - 1] /\ Log[i] = buffer[i - 1]
        BY <1>1, <2>2, <2>3 DEF WindowAt
      <3> QED
        BY <1>1, <3>1
    <2>5. answer[u] = Log
      BY <1>1, <2>1, <2>3, <2>4, SeqEqual
    <2> QED
      BY <1>2, <1>3, <1>4, <2>1, <2>5 DEF Abstract!ReadAll
  <1> QED
    BY <1>5, <1>6, <1>7

(* Until then nothing changes in the log or for the reader. *)
LEMMA SilentStep ==
  ASSUME IInv, NEW u \in ULT,
         \/ MutexLock(u) \/ StoreSample(u) \/ StoreOverrun(u)
         \/ MutexUnlock(u) \/ DumpSample(u)
  PROVE  UNCHANGED Abstract!vars
  <1>1. TypeOK /\ Acts(u)
    BY ContinueActs DEF IInv
  <1>2. /\ UNCHANGED <<type, buffer_index>>
        /\ \A i \in 0..(buffer_index - 1) : buffer'[i] = buffer[i]
    BY <1>1, StoreWrites
       DEF MutexLock, StoreOverrun, MutexUnlock, DumpSample, shared
  <1>3. \/ pc[u] = "dump" /\ pc'[u] = "dump"
        \/ pc[u] # "dump" /\ pc'[u] # "dump" /\ answer'[u] = answer[u]
    BY <1>1
       DEF MutexLock, StoreSample, StoreOverrun, MutexUnlock, DumpSample, Goto,
           shared, TypeOK
  <1>4. Log' = Log
    BY <1>1, <1>2, LogSame
  <1>5. AnswerGiven' = AnswerGiven
    BY <1>1, <1>3, GivenNothing DEF Acts
  <1> QED
    BY <1>2, <1>4, <1>5 DEF Abstract!vars

LEMMA NextLog ==
  ASSUME OneES, IInv, TimeInv, RunInv, SeqInv, [Next]_vars
  PROVE  AbstractSteps
  <1>1. CASE Tick \/ UNCHANGED vars
    <2>1. UNCHANGED <<type, buffer, buffer_index, pc, answer>>
      BY <1>1 DEF Tick, vars
    <2> QED
      BY <2>1 DEF AbstractSteps, Abstract!vars, Log, AnswerGiven
  <1>2. ASSUME NEW u \in ULT,
               \/ \E v \in Value : StreamUpdate(u, v)
               \/ \E d \in Diff : UpdateGaugeByFixedAmount(u, d)
               \/ \E n \in Count : FetchTest(u, n)
               \/ DumpRawData(u)
        PROVE  AbstractSteps
    <2>1. Refuse(u) \/ \E op, arg, to : Begin(u, op, arg, to)
      BY <1>2 DEF StreamUpdate, UpdateGaugeByFixedAmount, FetchTest, DumpRawData
    <2>2. Abstract!Forget(u)
      BY <2>1, ForgetStep DEF IInv
    <2> QED
      BY <2>2 DEF AbstractSteps, Abstract!Next
  <1>3. ASSUME NEW u \in ULT, AdvanceIndex(u) PROVE AbstractSteps
    BY <1>3, RecordStep DEF AbstractSteps, Abstract!Next
  <1>4. ASSUME NEW u \in ULT, CopyAll(u) \/ CopyLast(u) \/ DumpClose(u)
        PROVE  AbstractSteps
    BY <1>4, ReadStep DEF AbstractSteps, Abstract!Next
  <1>5. ASSUME NEW u \in ULT,
               \/ MutexLock(u) \/ StoreSample(u) \/ StoreOverrun(u)
               \/ MutexUnlock(u) \/ DumpSample(u)
        PROVE  AbstractSteps
    BY <1>5, SilentStep DEF AbstractSteps
  <1>6. ASSUME NEW u \in ULT, MutexWait(u) PROVE FALSE
    BY <1>6, NoWait DEF SeqInv
  <1> QED
    BY <1>1, <1>2, <1>3, <1>4, <1>5, <1>6 DEF Next, Continue

(* Where all threads share an execution stream the code implements the     *)
(* abstract log: samples enter in order and only if admissible, in one     *)
(* step, and what a fetch or a dump returns was the log at some moment.    *)
THEOREM StreamIsALog ==
  ASSUME OneES PROVE Spec => LogSpec
  <1>1. Init => Abstract!Init
    <2> SUFFICES ASSUME Init PROVE Abstract!Init
      OBVIOUS
    <2>1. Log = <<>>
      BY DEF Init, Log
    <2>2. AnswerGiven = [u \in ULT |-> <<>>]
      BY DEF Init, AnswerGiven
    <2> QED
      BY <2>1, <2>2, StreamAssumption DEF Init, Abstract!Init
  <1>2. IInv /\ TimeInv /\ RunInv /\ SeqInv /\ [Next]_vars =>
          [Abstract!Next]_(Abstract!vars)
    BY NextLog DEF AbstractSteps
  <1> QED
    BY <1>1, <1>2, Invariance, TimeInvariance, RunsKept, OneESInvariance, PTL
       DEF Spec, LogSpec, Abstract!Spec
=============================================================================
