---------------------------- MODULE StreamProofs ----------------------------
(***************************************************************************)
(* What holds of a stream for every set of threads, every placement of     *)
(* them on execution streams, every capacity and all inputs.  The argument *)
(* rests on one inductive invariant, IInv: a thread between the lock and   *)
(* the unlock owns the mutex, alone, so that the slot it fills is the next *)
(* one and stays its own until the index moves past it.                    *)
(***************************************************************************)
EXTENDS Stream, FiniteSetTheorems, SequenceTheorems, TLAPS

CallType == [op : {"none", "update", "delta", "fetch", "dump"}, arg : Int]

Critical == {"store", "advance", "unlock"}

(* The owner of the mutex is the one thread in its critical section.       *)
MutexInv == \A u \in ULT : pc[u] \in Critical <=> stream_mutex = u

(* The slot a thread has filled and not yet published is inside the buffer *)
(* and carries the identity of that thread.                                *)
SlotInv ==
  \A u \in ULT : (pc[u] = "advance" /\ ~corrupt) =>
    /\ buffer_index < STREAM_BUFFER_SIZE
    /\ buffer[buffer_index].sample_id = u

(* A fetch that copies the latest samples asks for no more than there are: *)
(* the number published only grows after the handler has compared it.      *)
ReadInv ==
  \A u \in ULT : pc[u] = "copy_last" => call[u].arg \in 0..buffer_index

IInv == TypeOK /\ MutexInv /\ SlotInv /\ ReadInv

LEMMA InitIInv == Init => IInv
  <1> SUFFICES ASSUME Init PROVE IInv
    OBVIOUS
  <1> USE StreamAssumption DEF Init
  <1>1. TypeOK
    <2>1. ZeroSample \in Sample
      BY DEF ZeroSample, Sample
    <2>2. <<>> \in Seq(Sample)
      OBVIOUS
    <2>3. NoCall \in CallType
      BY DEF NoCall, CallType
    <2>4. "idle" \in Phase
      BY DEF Phase
    <2>5. type \in StreamTypes /\ buffer \in [Slot -> Sample]
      BY <2>1
    <2>6. pc \in [ULT -> Phase] /\ running \in [ES -> ULT \cup {NoULT}]
      BY <2>4
    <2>7. call \in [ULT -> CallType] /\ answer \in [ULT -> Seq(Sample)]
      BY <2>2, <2>3
    <2>8. buffer_index \in 0..STREAM_BUFFER_SIZE /\ now \in Nat /\ stored \in [ULT -> Nat]
      OBVIOUS
    <2> QED
      BY <2>5, <2>6, <2>7, <2>8 DEF TypeOK, CallType
  <1>2. MutexInv
    BY DEF MutexInv, Critical
  <1>3. SlotInv /\ ReadInv
    BY DEF SlotInv, ReadInv
  <1> QED
    BY <1>1, <1>2, <1>3 DEF IInv

(* The published samples form a sequence. *)
LEMMA LogType == TypeOK => Log \in Seq(Sample)
  <1> SUFFICES ASSUME TypeOK PROVE Log \in Seq(Sample)
    OBVIOUS
  <1>1. buffer_index \in Nat /\ buffer_index <= STREAM_BUFFER_SIZE
    BY StreamAssumption DEF TypeOK
  <1>2. \A i \in 1..buffer_index : buffer[i - 1] \in Sample
    BY <1>1, StreamAssumption DEF TypeOK, Slot
  <1>3. Log \in [1..buffer_index -> Sample]
    BY <1>2 DEF Log
  <1> QED
    BY <1>1, <1>3

(* The n latest samples, when there are as many, are the n slots below the *)
(* index.                                                                  *)
LEMMA LastSlots ==
  ASSUME TypeOK, NEW n \in 0..buffer_index,
         NEW l, l = SubSeq(Log, buffer_index - n + 1, buffer_index)
  PROVE  /\ l \in Seq(Sample)
         /\ Len(l) = n
         /\ \A i \in 1..n : l[i] = buffer[buffer_index - n + i - 1]
  <1>1. buffer_index \in Nat /\ Log \in Seq(Sample) /\ Len(Log) = buffer_index
    BY LogType, StreamAssumption DEF TypeOK, Log
  <1>2. \A i \in 1..buffer_index : Log[i] = buffer[i - 1]
    BY <1>1 DEF Log
  <1>3. /\ l \in Seq(Sample)
        /\ Len(l) = n
        /\ \A i \in 1..n : l[i] = Log[buffer_index - n + i]
    <2>1. \A i \in (buffer_index - n + 1)..buffer_index : Log[i] \in Sample
      BY <1>1
    <2>2. buffer_index - n + 1 \in Int /\ buffer_index \in Int
      BY <1>1
    <2>3. /\ l \in Seq(Sample)
          /\ Len(l) = IF buffer_index - n + 1 <= buffer_index
                      THEN buffer_index - (buffer_index - n + 1) + 1 ELSE 0
          /\ \A i \in 1..(buffer_index - (buffer_index - n + 1) + 1) :
               l[i] = Log[(buffer_index - n + 1) + i - 1]
      BY ONLY <2>1, <2>2, SubSeqProperties, l = SubSeq(Log, buffer_index - n + 1, buffer_index)
    <2>4. buffer_index - (buffer_index - n + 1) + 1 = n
      BY <1>1
    <2> QED
      BY <2>3, <2>4, <1>1
  <1>4. ASSUME NEW i \in 1..n PROVE l[i] = buffer[buffer_index - n + i - 1]
    <2>1. buffer_index - n + i \in 1..buffer_index
      BY <1>1
    <2>2. Log[buffer_index - n + i] = buffer[(buffer_index - n + i) - 1]
      BY <1>2, <2>1
    <2>3. l[i] = Log[buffer_index - n + i]
      BY <1>3
    <2>4. (buffer_index - n + i) - 1 = buffer_index - n + i - 1
      BY <1>1
    <2> QED
      BY ONLY <2>2, <2>3, <2>4
  <1> QED
    BY <1>3, <1>4

(* The value an update stores is an integer. *)
LEMMA NewValueType ==
  ASSUME TypeOK, NEW u \in ULT PROVE NewValue(u) \in Int
  <1>1. call[u].arg \in Int
    BY DEF TypeOK
  <1>2. buffer_index > 0 => buffer[buffer_index - 1].val \in Int
    BY StreamAssumption DEF TypeOK, Slot, Sample
  <1> QED
    BY <1>1, <1>2 DEF NewValue

(* A call that begins takes neither the mutex nor a slot. *)
LEMMA BeginIInv ==
  ASSUME IInv, NEW u \in ULT, NEW op \in {"update", "delta", "fetch", "dump"},
         NEW arg \in Int, NEW to \in {"lock", "copy_all", "copy_last", "dump"},
         Begin(u, op, arg, to), to = "copy_last" => arg \in 0..buffer_index
  PROVE  IInv'
  <1> USE DEF Begin, Goto, KeepES, shared, IInv
  <1>1. TypeOK'
    <2>1. [op |-> op, arg |-> arg] \in CallType
      BY DEF CallType
    <2>2. <<>> \in Seq(Sample)
      OBVIOUS
    <2> QED
      BY <2>1, <2>2, StreamAssumption DEF TypeOK, CallType, Phase
  <1>2. MutexInv'
    BY DEF MutexInv, Critical, TypeOK
  <1>3. SlotInv' /\ ReadInv'
    BY DEF SlotInv, TypeOK, ReadInv
  <1> QED
    BY <1>1, <1>2, <1>3

LEMMA RefuseIInv ==
  ASSUME IInv, NEW u \in ULT, Refuse(u)
  PROVE  IInv'
  <1> USE DEF Refuse, LeaveES, shared, IInv
  <1>1. TypeOK'
    <2>1. NoCall \in CallType
      BY DEF NoCall, CallType
    <2>2. <<>> \in Seq(Sample)
      OBVIOUS
    <2> QED
      BY <2>1, <2>2, StreamAssumption DEF TypeOK, CallType
  <1>2. MutexInv'
    BY DEF MutexInv
  <1>3. SlotInv' /\ ReadInv'
    BY DEF SlotInv, ReadInv
  <1> QED
    BY <1>1, <1>2, <1>3

LEMMA NextIInv == IInv /\ [Next]_vars => IInv'
  <1> SUFFICES ASSUME IInv, [Next]_vars PROVE IInv'
    OBVIOUS
  <1> USE StreamAssumption
  <1>1. ASSUME NEW u \in ULT, NEW v \in Value, StreamUpdate(u, v) PROVE IInv'
    <2>1. CASE Refuse(u)
      BY <2>1, RefuseIInv
    <2>2. CASE Begin(u, "update", v, "lock")
      BY <2>2, BeginIInv
    <2> QED
      BY <1>1, <2>1, <2>2 DEF StreamUpdate
  <1>2. ASSUME NEW u \in ULT, NEW d \in Diff, UpdateGaugeByFixedAmount(u, d)
        PROVE  IInv'
    <2>1. CASE Refuse(u)
      BY <2>1, RefuseIInv
    <2>2. CASE Begin(u, "delta", d, "lock")
      BY <2>2, BeginIInv
    <2> QED
      BY <1>2, <2>1, <2>2 DEF UpdateGaugeByFixedAmount
  <1>3. ASSUME NEW u \in ULT, NEW n \in Count, FetchTest(u, n) PROVE IInv'
    <2>1. CASE buffer_index < n
      <3>1. Begin(u, "fetch", n, "copy_all") /\ n \in Int
        BY <1>3, <2>1 DEF FetchTest
      <3> QED
        BY <3>1, BeginIInv
    <2>2. CASE ~(buffer_index < n)
      <3>1. Begin(u, "fetch", n, "copy_last") /\ n \in 0..buffer_index
        BY <1>3, <2>2 DEF FetchTest, IInv, TypeOK
      <3> QED
        BY <3>1, BeginIInv
    <2> QED
      BY <2>1, <2>2
  <1>4. ASSUME NEW u \in ULT, DumpRawData(u) PROVE IInv'
    <2>1. Begin(u, "dump", 0, "dump")
      BY <1>4 DEF DumpRawData
    <2> QED
      BY <2>1, BeginIInv
  <1>5. ASSUME NEW u \in ULT, MutexLock(u) PROVE IInv'
    <2> USE <1>5 DEF MutexLock, Goto, KeepES, IInv
    <2>1. TypeOK'
      BY DEF TypeOK, Phase
    <2>2. MutexInv'
      BY DEF MutexInv, Critical, TypeOK
    <2>3. SlotInv' /\ ReadInv'
      BY DEF SlotInv, TypeOK, ReadInv
    <2> QED
      BY <2>1, <2>2, <2>3
  <1>6. ASSUME NEW u \in ULT, MutexWait(u) PROVE IInv'
    <2> USE <1>6 DEF MutexWait, LeaveES, shared, IInv
    <2>1. TypeOK'
      BY DEF TypeOK
    <2>2. MutexInv' /\ SlotInv' /\ ReadInv'
      BY DEF MutexInv, SlotInv, ReadInv
    <2> QED
      BY <2>1, <2>2
  <1>7. ASSUME NEW u \in ULT, StoreSample(u) PROVE IInv'
    <2> USE <1>7 DEF StoreSample, Goto, KeepES, IInv
    <2>1. [val |-> NewValue(u), time |-> now, sample_id |-> u] \in Sample
      BY NewValueType DEF Sample, TypeOK
    <2>2. buffer_index \in Slot
      BY DEF TypeOK, Slot
    <2>3. TypeOK'
      BY <2>1, <2>2 DEF TypeOK, Phase
    <2>4. MutexInv'
      BY DEF MutexInv, Critical, TypeOK
    <2>5. ASSUME NEW w \in ULT, pc'[w] = "advance" PROVE w = u
      BY <2>4, <2>5 DEF MutexInv, Critical, TypeOK
    <2>6. SlotInv' /\ ReadInv'
      BY <2>2, <2>5 DEF SlotInv, TypeOK, ReadInv
    <2> QED
      BY <2>3, <2>4, <2>6
  <1>8. ASSUME NEW u \in ULT, StoreOverrun(u) PROVE IInv'
    <2> USE <1>8 DEF StoreOverrun, Goto, KeepES, IInv
    <2>1. TypeOK'
      BY DEF TypeOK, Phase
    <2>2. MutexInv'
      BY DEF MutexInv, Critical, TypeOK
    <2>3. SlotInv' /\ ReadInv'
      BY DEF SlotInv, ReadInv
    <2> QED
      BY <2>1, <2>2, <2>3
  <1>9. ASSUME NEW u \in ULT, AdvanceIndex(u) PROVE IInv'
    <2> USE <1>9 DEF AdvanceIndex, Goto, KeepES, CanRun, IInv
    <2>1. buffer_index < STREAM_BUFFER_SIZE
      BY DEF SlotInv
    <2>2. TypeOK'
      BY <2>1 DEF TypeOK, Phase
    <2>3. MutexInv'
      BY DEF MutexInv, Critical, TypeOK
    <2>4. \A w \in ULT : pc'[w] # "advance"
      BY DEF MutexInv, Critical, TypeOK
    <2>5. SlotInv' /\ ReadInv'
      BY <2>4, <2>2 DEF SlotInv, ReadInv, TypeOK
    <2> QED
      BY <2>2, <2>3, <2>5
  <1>10. ASSUME NEW u \in ULT, MutexUnlock(u) PROVE IInv'
    <2> USE <1>10 DEF MutexUnlock, Goto, LeaveES, IInv
    <2>1. NoCall \in CallType
      BY DEF NoCall, CallType
    <2>2. TypeOK'
      BY <2>1 DEF TypeOK, CallType, Phase
    <2>3. MutexInv'
      BY DEF MutexInv, Critical, TypeOK
    <2>4. SlotInv' /\ ReadInv'
      BY DEF SlotInv, TypeOK, ReadInv
    <2> QED
      BY <2>2, <2>3, <2>4
  <1>11. ASSUME NEW u \in ULT, CopyAll(u) PROVE IInv'
    <2> USE <1>11 DEF CopyAll, Goto, LeaveES, IInv
    <2>1. TypeOK'
      BY LogType DEF TypeOK, Phase
    <2>2. MutexInv'
      BY DEF MutexInv, Critical, TypeOK
    <2>3. SlotInv' /\ ReadInv'
      BY DEF SlotInv, TypeOK, CanRun, ReadInv
    <2> QED
      BY <2>1, <2>2, <2>3
  <1>12. ASSUME NEW u \in ULT, CopyLast(u) PROVE IInv'
    <2> USE <1>12 DEF CopyLast, Goto, LeaveES, shared, IInv
    <2>1. SubSeq(Log, buffer_index - call[u].arg + 1, buffer_index) \in Seq(Sample)
      BY LastSlots DEF ReadInv
    <2>2. TypeOK'
      BY <2>1 DEF TypeOK, Phase
    <2>3. MutexInv'
      BY DEF MutexInv, Critical, TypeOK
    <2>4. SlotInv' /\ ReadInv'
      BY DEF SlotInv, TypeOK, ReadInv
    <2> QED
      BY <2>2, <2>3, <2>4
  <1>13. ASSUME NEW u \in ULT, DumpSample(u) PROVE IInv'
    <2> USE <1>13 DEF DumpSample, KeepES, shared, IInv
    <2>1. buffer[Len(answer[u])] \in Sample
      BY DEF TypeOK, Slot
    <2>2. TypeOK'
      BY <2>1 DEF TypeOK
    <2>3. MutexInv' /\ SlotInv' /\ ReadInv'
      BY DEF MutexInv, SlotInv, ReadInv
    <2> QED
      BY <2>2, <2>3
  <1>14. ASSUME NEW u \in ULT, DumpClose(u) PROVE IInv'
    <2> USE <1>14 DEF DumpClose, Goto, LeaveES, shared, IInv
    <2>1. TypeOK'
      BY DEF TypeOK, Phase
    <2>2. MutexInv'
      BY DEF MutexInv, Critical, TypeOK
    <2>3. SlotInv' /\ ReadInv'
      BY DEF SlotInv, TypeOK, ReadInv
    <2> QED
      BY <2>1, <2>2, <2>3
  <1>15. CASE Tick
    BY <1>15 DEF Tick, IInv, TypeOK, MutexInv, SlotInv, ReadInv
  <1>16. CASE UNCHANGED vars
    BY <1>16 DEF vars, IInv, TypeOK, MutexInv, SlotInv, ReadInv
  <1> QED
    BY <1>1, <1>2, <1>3, <1>4, <1>5, <1>6, <1>7, <1>8, <1>9, <1>10, <1>11,
       <1>12, <1>13, <1>14, <1>15, <1>16 DEF Next, Continue

(* Every reachable state of a stream satisfies the inductive invariant. *)
THEOREM Invariance == Spec => []IInv
  BY InitIInv, NextIInv, PTL DEF Spec

(* The structure keeps its shape; in particular the index never leaves the *)
(* buffer in an execution that has not written past its end.               *)
THEOREM TypeCorrect == Spec => []TypeOK
  <1>1. IInv => TypeOK
    BY DEF IInv
  <1> QED
    BY <1>1, Invariance, PTL

----------------------------------------------------------------------------
(* The steps that touch neither the samples nor the count of updates, and  *)
(* what they leave alone in the threads.                                   *)
Quiet ==
  /\ UNCHANGED <<buffer, buffer_index, stored>>
  /\ \A u \in ULT :
       /\ pc'[u] = "unlock" <=> pc[u] = "unlock"
       /\ (pc'[u] = "advance" /\ ~corrupt') =>
            /\ pc[u] = "advance"
            /\ ~corrupt
            /\ call'[u] = call[u]

LEMMA BeginQuiet ==
  ASSUME TypeOK, NEW u \in ULT, NEW op, NEW arg,
         NEW to \in {"lock", "copy_all", "copy_last", "dump"},
         Begin(u, op, arg, to)
  PROVE  Quiet
  BY DEF Quiet, Begin, Goto, CanRun, shared, TypeOK

LEMMA RefuseQuiet ==
  ASSUME TypeOK, NEW u \in ULT, Refuse(u)
  PROVE  Quiet
  BY DEF Quiet, Refuse, CanRun, shared, TypeOK

LEMMA StepKinds ==
  ASSUME TypeOK, [Next]_vars
  PROVE  \/ Quiet
         \/ \E u \in ULT : StoreSample(u) \/ AdvanceIndex(u) \/ MutexUnlock(u)
  <1>1. ASSUME NEW u \in ULT, NEW v \in Value, StreamUpdate(u, v) PROVE Quiet
    BY <1>1, BeginQuiet, RefuseQuiet DEF StreamUpdate
  <1>2. ASSUME NEW u \in ULT, NEW d \in Diff, UpdateGaugeByFixedAmount(u, d)
        PROVE  Quiet
    BY <1>2, BeginQuiet, RefuseQuiet DEF UpdateGaugeByFixedAmount
  <1>3. ASSUME NEW u \in ULT, NEW n \in Count, FetchTest(u, n) PROVE Quiet
    BY <1>3, BeginQuiet DEF FetchTest
  <1>4. ASSUME NEW u \in ULT, DumpRawData(u) PROVE Quiet
    BY <1>4, BeginQuiet DEF DumpRawData
  <1>5. ASSUME NEW u \in ULT, MutexLock(u) PROVE Quiet
    BY <1>5 DEF Quiet, MutexLock, Goto, CanRun, TypeOK
  <1>6. ASSUME NEW u \in ULT, MutexWait(u) PROVE Quiet
    BY <1>6 DEF Quiet, MutexWait, shared
  <1>7. ASSUME NEW u \in ULT, StoreOverrun(u) PROVE Quiet
    BY <1>7 DEF Quiet, StoreOverrun, Goto, TypeOK
  <1>8. ASSUME NEW u \in ULT, CopyAll(u) \/ CopyLast(u) PROVE Quiet
    BY <1>8 DEF Quiet, CopyAll, CopyLast, Goto, CanRun, shared, TypeOK
  <1>9. ASSUME NEW u \in ULT, DumpSample(u) \/ DumpClose(u) PROVE Quiet
    BY <1>9 DEF Quiet, DumpSample, DumpClose, Goto, CanRun, shared, TypeOK
  <1>10. CASE Tick \/ UNCHANGED vars
    BY <1>10 DEF Quiet, Tick, vars
  <1> QED
    BY <1>1, <1>2, <1>3, <1>4, <1>5, <1>6, <1>7, <1>8, <1>9, <1>10
       DEF Next, Continue

(* No step changes a published sample or takes it back, whoever runs.      *)
THEOREM PublishedStays == Spec => PublishedImmutable
  <1> DEFINE Kept == /\ buffer_index <= buffer_index'
                     /\ \A i \in 0..(buffer_index - 1) : buffer'[i] = buffer[i]
  <1>1. ASSUME TypeOK, [Next]_vars PROVE Kept
    <2>1. buffer_index \in Nat /\ buffer_index <= STREAM_BUFFER_SIZE
      BY <1>1, StreamAssumption DEF TypeOK
    <2>2. CASE Quiet
      BY <2>1, <2>2 DEF Quiet
    <2>3. ASSUME NEW u \in ULT, StoreSample(u) PROVE Kept
      BY <2>1, <2>3, <1>1, StreamAssumption DEF StoreSample, TypeOK, Slot
    <2>4. ASSUME NEW u \in ULT, AdvanceIndex(u) PROVE Kept
      BY <2>1, <2>4 DEF AdvanceIndex
    <2>5. ASSUME NEW u \in ULT, MutexUnlock(u) PROVE Kept
      BY <2>1, <2>5 DEF MutexUnlock
    <2> QED
      BY <2>2, <2>3, <2>4, <2>5, <1>1, StepKinds
  <1>2. ASSUME TypeOK, [Next]_vars PROVE [Kept]_vars
    BY <1>1, <1>2
  <1> QED
    BY <1>2, TypeCorrect, PTL DEF Spec, PublishedImmutable

----------------------------------------------------------------------------
(* The published slots of a thread are finite in number, and publishing    *)
(* one more adds one.                                                      *)
LEMMA SlotsOfFinite ==
  ASSUME TypeOK, NEW u \in ULT
  PROVE  IsFiniteSet(SlotsOf(u)) /\ Cardinality(SlotsOf(u)) \in Nat
  <1>1. buffer_index - 1 \in Int
    BY StreamAssumption DEF TypeOK
  <1>2. IsFiniteSet(0..(buffer_index - 1))
    BY <1>1, FS_Interval
  <1>3. SlotsOf(u) \subseteq 0..(buffer_index - 1)
    BY DEF SlotsOf
  <1>4. IsFiniteSet(SlotsOf(u))
    BY <1>2, <1>3, FS_Subset
  <1> QED
    BY <1>4, FS_CardinalityType

(* Every successful update of every thread is one published sample: with   *)
(* any number of threads on any execution streams none is lost.            *)
THEOREM UpdatesKept == Spec => []NoLostUpdate
  <1>1. Init => NoLostUpdate
    <2> SUFFICES ASSUME Init, NEW u \in ULT
                 PROVE  Cardinality(SlotsOf(u)) = stored[u] + 0 /\ pc[u] # "unlock"
      BY DEF NoLostUpdate, Init
    <2>1. SlotsOf(u) = {}
      BY DEF Init, SlotsOf
    <2> QED
      BY <2>1, FS_EmptySet DEF Init
  <1>2. IInv /\ NoLostUpdate /\ [Next]_vars => NoLostUpdate'
    <2> SUFFICES ASSUME IInv, NoLostUpdate, [Next]_vars, NEW w \in ULT
                 PROVE  Cardinality(SlotsOf(w)') =
                          stored'[w] + (IF pc'[w] = "unlock" THEN 1 ELSE 0)
      BY DEF NoLostUpdate
    <2>1. TypeOK /\ buffer_index \in Nat
      BY StreamAssumption DEF IInv, TypeOK
    <2>2. Cardinality(SlotsOf(w)) = stored[w] + (IF pc[w] = "unlock" THEN 1 ELSE 0)
      BY DEF NoLostUpdate
    <2>3. CASE Quiet
      <3>1. SlotsOf(w)' = SlotsOf(w)
        BY <2>3 DEF Quiet, SlotsOf
      <3> QED
        BY <3>1, <2>2, <2>3 DEF Quiet
    <2>4. ASSUME NEW u \in ULT, StoreSample(u)
          PROVE  Cardinality(SlotsOf(w)') =
                   stored'[w] + (IF pc'[w] = "unlock" THEN 1 ELSE 0)
      <3>1. \A i \in 0..(buffer_index - 1) : buffer'[i] = buffer[i]
        BY <2>1, <2>4, StreamAssumption DEF StoreSample, TypeOK, Slot
      <3>2. SlotsOf(w)' = SlotsOf(w)
        BY <3>1, <2>4 DEF SlotsOf, StoreSample
      <3>3. pc'[w] = "unlock" <=> pc[w] = "unlock"
        BY <2>1, <2>4 DEF StoreSample, Goto, TypeOK
      <3> QED
        BY <3>2, <3>3, <2>2, <2>4 DEF StoreSample
    <2>5. ASSUME NEW u \in ULT, AdvanceIndex(u)
          PROVE  Cardinality(SlotsOf(w)') =
                   stored'[w] + (IF pc'[w] = "unlock" THEN 1 ELSE 0)
      <3>1. buffer[buffer_index].sample_id = u
        BY <2>5 DEF AdvanceIndex, CanRun, Goto, IInv, SlotInv
      <3>2. buffer' = buffer /\ buffer_index' = buffer_index + 1 /\ stored' = stored
        BY <2>5 DEF AdvanceIndex
      <3>3. SlotsOf(w)' =
              IF w = u THEN SlotsOf(w) \cup {buffer_index} ELSE SlotsOf(w)
        BY <3>1, <3>2, <2>1 DEF SlotsOf
      <3>4. buffer_index \notin SlotsOf(w)
        BY <2>1 DEF SlotsOf
      <3>5. CASE w = u
        <4>1. Cardinality(SlotsOf(w)') = Cardinality(SlotsOf(w)) + 1
          BY <3>3, <3>4, <3>5, <2>1, SlotsOfFinite, FS_AddElement
        <4>2. pc[w] = "advance" /\ pc'[w] = "unlock"
          BY <2>1, <2>5, <3>5 DEF AdvanceIndex, Goto, TypeOK
        <4> QED
          BY <4>1, <4>2, <3>2, <2>1, <2>2 DEF TypeOK
      <3>6. CASE w # u
        <4>1. pc'[w] = pc[w]
          BY <2>1, <2>5, <3>6 DEF AdvanceIndex, Goto, TypeOK
        <4> QED
          BY <4>1, <3>2, <3>3, <3>6, <2>2
      <3> QED
        BY <3>5, <3>6
    <2>6. ASSUME NEW u \in ULT, MutexUnlock(u)
          PROVE  Cardinality(SlotsOf(w)') =
                   stored'[w] + (IF pc'[w] = "unlock" THEN 1 ELSE 0)
      <3>1. SlotsOf(w)' = SlotsOf(w)
        BY <2>6 DEF MutexUnlock, SlotsOf
      <3> QED
        BY <3>1, <2>1, <2>2, <2>6 DEF MutexUnlock, Goto, TypeOK
    <2> QED
      BY <2>1, <2>3, <2>4, <2>5, <2>6, StepKinds
  <1> QED
    BY <1>1, <1>2, Invariance, PTL DEF Spec

----------------------------------------------------------------------------
(* Between its store and the increment of the index a thread sees the      *)
(* value it added its amount to still in the last published slot.          *)
THEOREM DeltaApplied == Spec => []DeltaOnLatest
  <1>1. Init => DeltaOnLatest
    BY DEF Init, DeltaOnLatest
  <1>2. IInv /\ DeltaOnLatest /\ [Next]_vars => DeltaOnLatest'
    <2> SUFFICES ASSUME IInv, DeltaOnLatest, [Next]_vars, NEW w \in ULT,
                        pc'[w] = "advance", call'[w].op = "delta", ~corrupt'
                 PROVE  buffer'[buffer_index'].val =
                          (IF buffer_index' > 0
                             THEN buffer'[buffer_index' - 1].val + call'[w].arg
                             ELSE 1)
      BY DEF DeltaOnLatest
    <2>1. TypeOK /\ buffer_index \in Nat
      BY StreamAssumption DEF IInv, TypeOK
    <2>2. CASE Quiet
      BY <2>2 DEF Quiet, DeltaOnLatest
    <2>3. ASSUME NEW u \in ULT, StoreSample(u)
          PROVE  buffer'[buffer_index'].val =
                   (IF buffer_index' > 0
                      THEN buffer'[buffer_index' - 1].val + call'[w].arg
                      ELSE 1)
      <3>1. w = u
        BY <2>1, <2>3 DEF StoreSample, Goto, IInv, MutexInv, Critical, TypeOK
      <3>2. buffer'[buffer_index].val = NewValue(u)
        BY <2>1, <2>3, StreamAssumption DEF StoreSample, TypeOK, Slot
      <3>3. buffer_index > 0 => buffer'[buffer_index - 1] = buffer[buffer_index - 1]
        BY <2>1, <2>3, StreamAssumption DEF StoreSample, TypeOK, Slot
      <3> QED
        BY <3>1, <3>2, <3>3, <2>3 DEF StoreSample, NewValue
    <2>4. ASSUME NEW u \in ULT, AdvanceIndex(u) PROVE FALSE
      BY <2>1, <2>4 DEF AdvanceIndex, Goto, IInv, MutexInv, Critical, TypeOK
    <2>5. ASSUME NEW u \in ULT, MutexUnlock(u) PROVE FALSE
      BY <2>1, <2>5 DEF MutexUnlock, Goto, IInv, MutexInv, Critical, TypeOK
    <2> QED
      BY <2>1, <2>2, <2>3, <2>4, <2>5, StepKinds
  <1> QED
    BY <1>1, <1>2, Invariance, PTL DEF Spec

----------------------------------------------------------------------------
(* A reader holds a window of the log at k: the samples it has copied are  *)
(* published and consecutive.                                              *)
WindowAt(s, k) ==
  /\ k + Len(s) <= buffer_index
  /\ \A i \in 1..Len(s) : s[i] = buffer[k + i - 1]

(* A dump has copied the samples from the first one on.                    *)
DumpInv == \A u \in ULT : pc[u] = "dump" => WindowAt(answer[u], 0)

RunInv == WindowIsRun /\ DumpInv

(* Publishing more samples moves no window. *)
LEMMA WindowStays ==
  ASSUME TypeOK, [Next]_vars, NEW s \in Seq(Sample), NEW k \in Nat, WindowAt(s, k)
  PROVE  WindowAt(s, k)'
  <1>1. buffer_index \in Nat /\ Len(s) \in Nat
    BY StreamAssumption DEF TypeOK
  <1>2. buffer_index \in Nat /\ buffer_index' \in {buffer_index, buffer_index + 1}
    BY <1>1, StepKinds DEF Quiet, StoreSample, AdvanceIndex, MutexUnlock
  <1>3. ASSUME NEW i \in 0..(buffer_index - 1) PROVE buffer'[i] = buffer[i]
    <2>1. ASSUME NEW u \in ULT, StoreSample(u) PROVE buffer'[i] = buffer[i]
      BY <1>1, <2>1, StreamAssumption DEF StoreSample, TypeOK, Slot
    <2> QED
      BY <2>1, StepKinds DEF Quiet, AdvanceIndex, MutexUnlock
  <1>4. ASSUME NEW i \in 1..Len(s) PROVE s[i] = buffer'[k + i - 1]
    <2>1. k + i - 1 \in 0..(buffer_index - 1)
      BY <1>1 DEF WindowAt
    <2> QED
      BY <1>3, <2>1 DEF WindowAt
  <1> QED
    BY <1>1, <1>2, <1>4 DEF WindowAt

(* What a step may do to the copy a thread holds.                          *)
Untouched(u) == answer'[u] = answer[u] /\ (pc'[u] = "dump" => pc[u] = "dump")

CopiedWindow(u) ==
  /\ UNCHANGED <<buffer, buffer_index>>
  /\ pc'[u] # "dump"
  /\ \E k \in 0..buffer_index : WindowAt(answer'[u], k)

DumpedOne(u) ==
  /\ UNCHANGED <<buffer, buffer_index>>
  /\ pc[u] = "dump"
  /\ Len(answer[u]) < buffer_index
  /\ answer'[u] = Append(answer[u], buffer[Len(answer[u])])

LEMMA ReadKinds ==
  ASSUME IInv, [Next]_vars, NEW w \in ULT
  PROVE  Untouched(w) \/ answer'[w] = <<>> \/ CopiedWindow(w) \/ DumpedOne(w)
  <1> DEFINE Goal == Untouched(w) \/ answer'[w] = <<>> \/ CopiedWindow(w)
                       \/ DumpedOne(w)
  <1> USE DEF Untouched
  <1>0. TypeOK /\ buffer_index \in Nat
    BY StreamAssumption DEF IInv, TypeOK
  <1>1. ASSUME NEW u \in ULT, NEW op, NEW arg, NEW to, Begin(u, op, arg, to)
        PROVE  Goal
    BY <1>0, <1>1 DEF Begin, Goto, TypeOK
  <1>2. ASSUME NEW u \in ULT, Refuse(u) PROVE Goal
    BY <1>0, <1>2 DEF Refuse, TypeOK
  <1>3. ASSUME NEW u \in ULT,
               MutexLock(u) \/ StoreSample(u) \/ StoreOverrun(u)
                 \/ AdvanceIndex(u) \/ MutexUnlock(u)
        PROVE  Untouched(w)
    BY <1>0, <1>3
       DEF MutexLock, StoreSample, StoreOverrun, AdvanceIndex, MutexUnlock, Goto,
           TypeOK
  <1>4. ASSUME NEW u \in ULT, MutexWait(u) \/ DumpClose(u) PROVE Untouched(w)
    BY <1>0, <1>4 DEF MutexWait, DumpClose, Goto, shared, TypeOK
  <1>5. ASSUME NEW u \in ULT, CopyAll(u) PROVE Goal
    <2>1. CASE w = u
      <3>1. answer'[w] = Log /\ pc'[w] = "idle"
        BY <1>0, <1>5, <2>1 DEF CopyAll, Goto, TypeOK
      <3>2. WindowAt(Log, 0)
        BY <1>0, LogType DEF WindowAt, Log
      <3> QED
        BY <1>0, <1>5, <3>1, <3>2 DEF CopyAll, CopiedWindow
    <2>2. CASE w # u
      BY <1>0, <1>5, <2>2 DEF CopyAll, Goto, TypeOK
    <2> QED
      BY <2>1, <2>2
  <1>6. ASSUME NEW u \in ULT, CopyLast(u) PROVE Goal
    <2>1. CASE w = u
      <3> DEFINE n == call[u].arg
                 l == SubSeq(Log, buffer_index - n + 1, buffer_index)
      <3>1. n \in 0..buffer_index
        BY <1>6 DEF CopyLast, Goto, IInv, ReadInv
      <3>2. answer'[w] = l /\ pc'[w] = "idle"
        BY <1>0, <1>6, <2>1 DEF CopyLast, Goto, TypeOK
      <3>3. /\ l \in Seq(Sample)
            /\ Len(l) = n
            /\ \A i \in 1..n : l[i] = buffer[buffer_index - n + i - 1]
        BY <1>0, <3>1, LastSlots
      <3>4. buffer_index - n \in 0..buffer_index
        BY <1>0, <3>1
      <3>5. WindowAt(l, buffer_index - n)
        BY <1>0, <3>1, <3>3 DEF WindowAt
      <3> QED
        BY <1>6, <3>2, <3>4, <3>5 DEF CopyLast, CopiedWindow, shared
    <2>2. CASE w # u
      BY <1>0, <1>6, <2>2 DEF CopyLast, Goto, TypeOK
    <2> QED
      BY <2>1, <2>2
  <1>7. ASSUME NEW u \in ULT, DumpSample(u) PROVE Goal
    BY <1>0, <1>7 DEF DumpSample, DumpedOne, shared, TypeOK
  <1>8. CASE Tick \/ UNCHANGED vars
    BY <1>8 DEF Tick, vars
  <1> QED
    BY <1>1, <1>2, <1>3, <1>4, <1>5, <1>6, <1>7, <1>8
       DEF Next, Continue, StreamUpdate, UpdateGaugeByFixedAmount, FetchTest,
           DumpRawData

LEMMA RunsKept == Spec => []RunInv
  <1>1. Init => RunInv
    <2> SUFFICES ASSUME Init, NEW u \in ULT
                 PROVE  /\ \E k \in 0..buffer_index : WindowAt(answer[u], k)
                        /\ pc[u] # "dump"
      BY DEF RunInv, WindowIsRun, DumpInv, WindowAt
    <2> QED
      BY DEF Init, WindowAt
  <1>2. IInv /\ RunInv /\ [Next]_vars => RunInv'
    <2> SUFFICES ASSUME IInv, RunInv, [Next]_vars, NEW w \in ULT
                 PROVE  /\ \E k \in 0..buffer_index' : WindowAt(answer[w], k)'
                        /\ pc'[w] = "dump" => WindowAt(answer[w], 0)'
      BY DEF RunInv, WindowIsRun, DumpInv, WindowAt
    <2>1. /\ TypeOK
          /\ TypeOK'
          /\ buffer_index \in Nat
          /\ buffer_index' \in Nat
          /\ answer[w] \in Seq(Sample)
          /\ answer'[w] \in Seq(Sample)
      <3>1. IInv'
        BY NextIInv
      <3>2. TypeOK /\ TypeOK'
        BY <3>1 DEF IInv
      <3>3. buffer_index \in Nat /\ answer[w] \in Seq(Sample)
        BY <3>2, StreamAssumption DEF TypeOK
      <3>4. buffer_index' \in Nat /\ answer'[w] \in Seq(Sample)
        BY <3>2, StreamAssumption DEF TypeOK
      <3> QED
        BY <3>2, <3>3, <3>4
    <2>2. PICK k \in 0..buffer_index : WindowAt(answer[w], k)
      BY DEF RunInv, WindowIsRun, WindowAt
    <2>3. buffer_index <= buffer_index'
      BY <2>1, StepKinds DEF Quiet, StoreSample, AdvanceIndex, MutexUnlock
    <2>4. pc[w] = "dump" => WindowAt(answer[w], 0)
      BY DEF RunInv, DumpInv
    <2>5. CASE Untouched(w)
      <3>1. WindowAt(answer[w], k)'
        <4>1. k \in Nat
          BY <2>1
        <4>2. \A s \in Seq(Sample) : WindowAt(s, k) => WindowAt(s, k)'
          BY <2>1, <4>1, WindowStays
        <4> QED
          BY <4>2, <2>1, <2>2, <2>5 DEF Untouched, WindowAt
      <3>2. pc'[w] = "dump" => WindowAt(answer[w], 0)'
        <4>1. \A s \in Seq(Sample) : WindowAt(s, 0) => WindowAt(s, 0)'
          BY <2>1, WindowStays
        <4> QED
          BY <4>1, <2>1, <2>4, <2>5 DEF Untouched, WindowAt
      <3> QED
        BY <3>1, <3>2, <2>1, <2>3
    <2>6. CASE answer'[w] = <<>>
      <3>1. WindowAt(answer[w], 0)'
        BY <2>1, <2>6 DEF WindowAt
      <3> QED
        BY <3>1, <2>1
    <2>7. CASE CopiedWindow(w)
      <3>1. PICK j \in 0..buffer_index : WindowAt(answer'[w], j)
        BY <2>7 DEF CopiedWindow
      <3>2. WindowAt(answer[w], j)' /\ j \in 0..buffer_index'
        BY <3>1, <2>7 DEF CopiedWindow, WindowAt
      <3> QED
        BY <3>2, <2>7 DEF CopiedWindow
    <2>8. CASE DumpedOne(w)
      <3>1. WindowAt(answer[w], 0)
        BY <2>4, <2>8 DEF DumpedOne
      <3>2. /\ Len(answer'[w]) = Len(answer[w]) + 1
            /\ \A i \in 1..Len(answer[w]) : answer'[w][i] = answer[w][i]
            /\ answer'[w][Len(answer[w]) + 1] = buffer[Len(answer[w])]
        BY <2>1, <2>8 DEF DumpedOne
      <3>3. WindowAt(answer[w], 0)'
        BY <3>1, <3>2, <2>1, <2>8 DEF DumpedOne, WindowAt
      <3> QED
        BY <3>3, <2>1
    <2> QED
      BY <2>5, <2>6, <2>7, <2>8, ReadKinds
  <1> QED
    BY <1>1, <1>2, Invariance, PTL DEF Spec

(* Whatever updates run while a fetch or a dump reads without the mutex,   *)
(* it copies consecutive published samples.                                *)
THEOREM ReadsAreRuns == Spec => []WindowIsRun
  <1>1. RunInv => WindowIsRun
    BY DEF RunInv
  <1> QED
    BY <1>1, RunsKept, PTL
=============================================================================
