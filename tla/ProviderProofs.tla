--------------------------- MODULE ProviderProofs ---------------------------
(***************************************************************************)
(* What holds of a provider for any number of streams, handles, requests   *)
(* and addresses, and whatever ids collide: the hash and its count agree   *)
(* with the heap, and the answers of the two handlers stay within what was *)
(* asked.  If no two live streams are created with one id, every stream    *)
(* the application holds is moreover in the hash and still its own.        *)
(***************************************************************************)
EXTENDS Provider, SequenceTheorems, TLAPS

RequestType ==
  [phase : {"unsent", "queued", "transfer", "answered"},
   rpc : {"none", "fetch", "list"},
   arg : Id \cup {Null},
   count : Nat,
   copy : [key : Key \cup {Null}, first : Int, last : Int],
   ids : Seq(Id),
   ret : {"none", "success", "invalid_stream", "mercury"}]

(* A stream keeps the id that belongs to its words.                        *)
KeyInv == \A a \in Addr : heap[a] # Free => heap[a].id = IdOf[heap[a].key]

(* The copy c holds the latest samples of a stream with the id q.arg.      *)
RightCopy(q) ==
  /\ q.copy.key \in Key /\ IdOf[q.copy.key] = q.arg
  /\ q.copy.last - q.copy.first + 1 \in 0..q.count
  /\ q.copy.last - q.copy.first + 1 < q.count => q.copy.first = 1

(* What a request q may look like.  Only the handler that has copied for   *)
(* it answers a fetch with success.                                        *)
GoodRequest(q) ==
  /\ q.phase # "answered" <=> q.ret = "none"
  /\ q.phase = "transfer" => q.rpc = "fetch"
  /\ (q.rpc = "fetch" /\ (q.phase = "transfer" \/ q.ret = "success")) => RightCopy(q)
  /\ q.phase = "unsent" => q.ids = <<>>
  /\ Len(q.ids) <= q.count
  /\ \A i, j \in 1..Len(q.ids) : q.ids[i] = q.ids[j] => i = j

RequestInv ==
  /\ request \in [Request -> RequestType]
  /\ \A r \in Request : GoodRequest(request[r])

(* The position i of the hash is taken out.                                *)
LEMMA RemoveAtProperties ==
  ASSUME NEW S, NEW s \in Seq(S), NEW i \in 1..Len(s), NEW t, t = RemoveAt(s, i)
  PROVE  /\ t \in Seq(S)
         /\ Len(t) = Len(s) - 1
         /\ \A j \in 1..(Len(s) - 1) : t[j] = IF j < i THEN s[j] ELSE s[j + 1]
  <1> DEFINE a == SubSeq(s, 1, i - 1)
             b == SubSeq(s, i + 1, Len(s))
  <1>1. a \in Seq(S) /\ Len(a) = i - 1 /\ \A j \in 1..(i - 1) : a[j] = s[j]
    <2>1. \A j \in 1..(i - 1) : s[j] \in S
      OBVIOUS
    <2>2. /\ a \in Seq(S)
          /\ Len(a) = IF 1 <= i - 1 THEN i - 1 - 1 + 1 ELSE 0
          /\ \A j \in 1..(i - 1 - 1 + 1) : a[j] = s[1 + j - 1]
      BY <2>1, SubSeqProperties
    <2> QED
      BY <2>2
  <1>2. b \in Seq(S) /\ Len(b) = Len(s) - i /\ \A j \in 1..(Len(s) - i) : b[j] = s[i + j]
    <2>1. \A j \in (i + 1)..Len(s) : s[j] \in S
      OBVIOUS
    <2>2. /\ b \in Seq(S)
          /\ Len(b) = IF i + 1 <= Len(s) THEN Len(s) - (i + 1) + 1 ELSE 0
          /\ \A j \in 1..(Len(s) - (i + 1) + 1) : b[j] = s[i + 1 + j - 1]
      BY <2>1, SubSeqProperties
    <2> QED
      BY <2>2
  <1>3. t = a \o b
    BY DEF RemoveAt
  <1> HIDE DEF a, b
  <1>4. /\ a \o b \in Seq(S)
        /\ Len(a \o b) = Len(a) + Len(b)
        /\ \A j \in 1..(Len(a) + Len(b)) :
             (a \o b)[j] = IF j <= Len(a) THEN a[j] ELSE b[j - Len(a)]
    BY <1>1, <1>2, ConcatProperties
  <1>5. Len(t) = Len(s) - 1
    BY <1>1, <1>2, <1>3, <1>4
  <1>6. ASSUME NEW j \in 1..(Len(s) - 1)
        PROVE  t[j] = IF j < i THEN s[j] ELSE s[j + 1]
    <2>1. t[j] = IF j <= i - 1 THEN a[j] ELSE b[j - (i - 1)]
      BY <1>1, <1>2, <1>3, <1>4
    <2>2. CASE j < i
      BY <2>1, <2>2, <1>1
    <2>3. CASE j >= i
      <3>1. j - (i - 1) \in 1..(Len(s) - i)
        BY <2>3
      <3> QED
        BY <2>1, <2>3, <3>1, <1>2
    <2> QED
      BY <2>2, <2>3
  <1> QED
    BY <1>3, <1>4, <1>5, <1>6

----------------------------------------------------------------------------
(* The requests and their handlers leave the hash and the heap alone.      *)
RequestStep(r) ==
  \/ \E n \in Count :
       \/ \E id \in Id : SendFetch(r, id, n)
       \/ SendList(r, n)
  \/ Handler(r)

LEMMA RequestsAreQuiet ==
  ASSUME NEW r \in Request, RequestStep(r) PROVE Quietly
  BY DEF RequestStep, SendFetch, SendList, Send, Handler, HandlerProceeds, HandlerFails,
         HandlerWithoutProvider,
     FetchFault, FetchCopy, FetchUnknown, FetchReply, FetchTransferFailed, ListReply,
     ListFault, Answer, Die

LifecycleType ==
  /\ provider \in {"none", "registered", "destroyed"}
  /\ pushed \in {0, 1}
  /\ callbacks \in {0, 1}
  /\ finalized \in Nat
  /\ margo \in {"running", "finalized"}

MemoryType ==
  /\ LifecycleType
  /\ streams \in Seq(Addr)
  /\ num_streams \in Int
  /\ heap \in [Addr -> Stream \cup {Free}]
  /\ handle \in [Handle -> Addr \cup {Null}]
  /\ made \in [Handle -> Key \cup {Null}]

MemoryInv == MemoryType /\ RegistryConsistent

LEMMA PositionAddr ==
  ASSUME MemoryType
  PROVE  Len(streams) \in Nat /\ \A i \in Position : streams[i] \in Addr
  BY DEF MemoryType, Position

(* What create does to the memory: a fresh stream, in the hash if its id   *)
(* is new.                                                                 *)
LEMMA CreateMemory ==
  ASSUME MemoryInv, NEW h \in Handle, NEW a \in Addr, NEW k \in Key, StreamCreate(h, a, k)
  PROVE  MemoryInv'
  <1> DEFINE x == [key |-> k, id |-> IdOf[k], buffer_index |-> 0]
  <1> USE DEF MemoryInv
  <1>1. /\ heap[a] = Free /\ heap' = [heap EXCEPT ![a] = x]
        /\ AddStream(a, IdOf[k]) /\ provider = "registered" /\ UNCHANGED lifecycle
        /\ handle' = [handle EXCEPT ![h] = a] /\ made' = [made EXCEPT ![h] = k]
    BY DEF StreamCreate
  <1>2. x \in Stream /\ x # Free
    BY ProviderAssumption DEF Stream
  <1> USE DEF lifecycle, LifecycleType
  <1>3. x.id = IdOf[k]
    OBVIOUS
  <1> HIDE DEF x
  <1>4. \A i \in Position : streams[i] \in Addr /\ streams[i] # a
    BY <1>1, PositionAddr DEF RegistryConsistent
  <1>5. heap'[a] = x /\ \A i \in Position : heap'[streams[i]] = heap[streams[i]]
    BY <1>1, <1>4 DEF MemoryType
  <1>6. heap' \in [Addr -> Stream \cup {Free}]
    BY <1>1, <1>2 DEF MemoryType
  <1>7. CASE Registered(IdOf[k]) = {}
    <2>1. streams' = Append(streams, a) /\ num_streams' = num_streams + 1
      BY <1>1, <1>7 DEF AddStream
    <2>2. /\ streams' \in Seq(Addr)
          /\ Len(streams') = Len(streams) + 1
          /\ \A i \in 1..Len(streams) : streams'[i] = streams[i]
          /\ streams'[Len(streams) + 1] = a
      BY <2>1, AppendProperties DEF MemoryType
    <2>3. \A i \in Position : heap[streams[i]].id # IdOf[k]
      BY <1>7 DEF Registered, Position
    <2>4. MemoryType'
      BY <1>1, <1>6, <2>1, <2>2 DEF MemoryType
    <2>5. num_streams' = Len(streams')
      BY <2>1, <2>2 DEF RegistryConsistent
    <2>6. Len(streams) \in Nat
      BY PositionAddr
    <2>7. ASSUME NEW i \in Position'
          PROVE  i \in Position \/ i = Len(streams) + 1
      BY <2>2, <2>6 DEF Position
    <2>8. \A i \in Position' : heap'[streams'[i]] # Free
      BY <2>7, <2>2, <1>5, <1>2 DEF RegistryConsistent, Position
    <2>9. \A i, j \in Position' : heap'[streams'[i]].id = heap'[streams'[j]].id => i = j
      <3> SUFFICES ASSUME NEW i \in Position', NEW j \in Position',
                          heap'[streams'[i]].id = heap'[streams'[j]].id
                   PROVE  i = j
        OBVIOUS
      <3>1. ASSUME NEW m \in Position
            PROVE  heap'[streams'[m]].id = heap[streams[m]].id /\ heap'[streams'[m]].id # x.id
        BY <3>1, <2>2, <1>5, <2>3, <1>3 DEF Position
      <3>2. heap'[streams'[Len(streams) + 1]].id = x.id
        BY <2>2, <1>5
      <3> QED
        BY <3>1, <3>2, <2>7 DEF RegistryConsistent
    <2> QED
      BY <2>4, <2>5, <2>8, <2>9, <1>1 DEF RegistryConsistent
  <1>8. CASE Registered(IdOf[k]) # {}
    <2>1. UNCHANGED <<streams, num_streams>>
      BY <1>1, <1>8 DEF AddStream
    <2>2. MemoryType'
      BY <1>1, <1>6, <2>1 DEF MemoryType
    <2>3. Position' = Position
      BY <2>1 DEF Position
    <2> QED
      BY <2>1, <2>2, <2>3, <1>1, <1>5 DEF RegistryConsistent
  <1> QED
    BY <1>7, <1>8

(* What destroy does to the memory: the stream at a position of the hash   *)
(* is unlinked and freed, and no other.                                    *)
LEMMA RemoveMemory ==
  ASSUME MemoryInv, NEW i \in Position, RemoveStream(i), provider = "registered",
         provider' = provider
  PROVE  /\ streams' \in Seq(Addr) /\ num_streams' \in Int
         /\ heap' \in [Addr -> Stream \cup {Free}]
         /\ RegistryConsistent'
         /\ \A j \in Position : j # i =>
              /\ heap'[streams[j]] = heap[streams[j]]
              /\ \E m \in Position' : streams'[m] = streams[j]
         /\ \A m \in Position' : \E j \in Position :
              j # i /\ streams'[m] = streams[j]
  <1> USE DEF MemoryInv
  <1>1. /\ heap' = [heap EXCEPT ![streams[i]] = Free]
        /\ streams' = RemoveAt(streams, i) /\ num_streams' = num_streams - 1
    BY DEF RemoveStream
  <1>2. streams \in Seq(Addr) /\ i \in 1..Len(streams) /\ Len(streams) \in Nat
    BY PositionAddr DEF MemoryType, Position
  <1>3. /\ streams' \in Seq(Addr)
        /\ Len(streams') = Len(streams) - 1
        /\ \A m \in 1..(Len(streams) - 1) :
             streams'[m] = IF m < i THEN streams[m] ELSE streams[m + 1]
    BY <1>1, <1>2, RemoveAtProperties
  <1> DEFINE from(m) == IF m < i THEN m ELSE m + 1
  <1>4. ASSUME NEW m \in Position'
        PROVE  /\ from(m) \in Position /\ from(m) # i
               /\ streams'[m] = streams[from(m)]
    BY <1>2, <1>3 DEF Position
  <1>5. ASSUME NEW m \in Position', NEW n \in Position', from(m) = from(n) PROVE m = n
    BY <1>2, <1>3, <1>5 DEF Position
  <1>6. ASSUME NEW j \in Position, j # i
        PROVE  heap'[streams[j]] = heap[streams[j]]
    <2>1. streams[j] \in Addr /\ streams[i] \in Addr
      BY PositionAddr
    <2>2. streams[j] # streams[i]
      BY <1>6 DEF RegistryConsistent
    <2> QED
      BY <2>1, <2>2, <1>1 DEF MemoryType
  <1>7. ASSUME NEW j \in Position, j # i
        PROVE  \E m \in Position' : streams'[m] = streams[j]
    <2>1. CASE j < i
      <3>1. j \in Position' /\ streams'[j] = streams[j]
        BY <2>1, <1>2, <1>3 DEF Position
      <3> QED
        BY <3>1
    <2>2. CASE j > i
      <3>1. j - 1 \in Position' /\ streams'[j - 1] = streams[j]
        BY <2>2, <1>2, <1>3 DEF Position
      <3> QED
        BY <3>1
    <2> QED
      BY <1>7, <2>1, <2>2, <1>2 DEF Position
  <1>8. heap' \in [Addr -> Stream \cup {Free}]
    BY <1>1 DEF MemoryType
  <1>9. num_streams' \in Int /\ num_streams' = Len(streams')
    BY <1>1, <1>3, <1>2 DEF RegistryConsistent
  <1> HIDE DEF from
  <1>10. \A m \in Position' : heap'[streams'[m]] = heap[streams[from(m)]]
    BY <1>4, <1>6
  <1>11. RegistryConsistent'
    <2>1. \A m \in Position' : heap'[streams'[m]] # Free
      BY <1>10, <1>4 DEF RegistryConsistent
    <2>2. ASSUME NEW m \in Position', NEW n \in Position',
                 heap'[streams'[m]].id = heap'[streams'[n]].id
          PROVE  m = n
      <3>1. heap[streams[from(m)]].id = heap[streams[from(n)]].id
        BY <2>2, <1>10
      <3>2. from(m) = from(n)
        BY <3>1, <1>4 DEF RegistryConsistent
      <3> QED
        BY <3>2, <1>5
    <2> QED
      BY <1>9, <2>1, <2>2 DEF RegistryConsistent
  <1> QED
    BY <1>3, <1>4, <1>6, <1>7, <1>8, <1>9, <1>11

LEMMA RemoveAllMemory ==
  ASSUME MemoryInv, RemoveAllStreams, DropAllHandles,
         LifecycleType'
  PROVE  MemoryInv'
  <1>1. streams' = <<>> /\ num_streams' = 0 /\ Len(streams') = 0
    BY DEF RemoveAllStreams
  <1>2. Position' = {}
    BY <1>1 DEF Position
  <1>3. MemoryType'
    BY <1>1 DEF MemoryInv, MemoryType, RemoveAllStreams, DropAllHandles
  <1> QED
    BY <1>1, <1>2, <1>3 DEF MemoryInv, RegistryConsistent

LEMMA RecordMemory ==
  ASSUME MemoryInv, NEW h \in Handle, Record(h)
  PROVE  /\ MemoryInv'
         /\ \A a \in Addr : /\ heap'[a] # Free <=> heap[a] # Free
                            /\ heap'[a].id = heap[a].id /\ heap'[a].key = heap[a].key
  <1> DEFINE b == handle[h]
  <1> USE DEF MemoryInv
  <1>0. CASE UNCHANGED heap
    <2>1. UNCHANGED <<lifecycle, streams, num_streams, handle, made>>
      BY DEF Record, registry, application
    <2> QED
      BY <1>0, <2>1 DEF MemoryType, LifecycleType, lifecycle, RegistryConsistent, Position
  <1> SUFFICES ASSUME heap' # heap
               PROVE  /\ MemoryInv'
                      /\ \A a \in Addr : /\ heap'[a] # Free <=> heap[a] # Free
                                         /\ heap'[a].id = heap[a].id
                                         /\ heap'[a].key = heap[a].key
    BY <1>0
  <1>1. /\ b # Null /\ heap[b] # Free /\ heap[b].buffer_index < MaxSamples
        /\ heap' = [heap EXCEPT ![b].buffer_index = @ + 1]
        /\ UNCHANGED <<lifecycle, streams, num_streams, handle, made>>
    BY DEF Record, registry, application
  <1>2. b \in Addr /\ heap[b] \in Stream
    BY <1>1 DEF MemoryType
  <1> DEFINE x == [heap[b] EXCEPT !.buffer_index = @ + 1]
  <1>3. x \in Stream /\ x # Free /\ x.id = heap[b].id /\ x.key = heap[b].key
    BY <1>1, <1>2, ProviderAssumption DEF Stream
  <1>4. heap' = [heap EXCEPT ![b] = x]
    BY <1>1, <1>2 DEF MemoryType
  <1> HIDE DEF x, b
  <1>5. \A a \in Addr : /\ heap'[a] # Free <=> heap[a] # Free
                       /\ heap'[a].id = heap[a].id /\ heap'[a].key = heap[a].key
    BY <1>1, <1>2, <1>3, <1>4 DEF MemoryType
  <1>6. MemoryType'
    BY <1>1, <1>2, <1>3, <1>4 DEF MemoryType, LifecycleType, lifecycle
  <1>7. Position' = Position
    BY <1>1 DEF Position
  <1>8. RegistryConsistent'
    BY <1>1, <1>5, <1>7, PositionAddr DEF RegistryConsistent, lifecycle
  <1> QED
    BY <1>5, <1>6, <1>8

LEMMA ReachedPosition ==
  ASSUME NEW a PROVE Reached(a) \subseteq Position
  BY DEF Reached, Registered, Position

LEMMA NextMemory ==
  ASSUME MemoryInv, [Next]_vars PROVE MemoryInv'
  <1>1. CASE UNCHANGED vars
    BY <1>1 DEF vars, MemoryInv, MemoryType, LifecycleType, RegistryConsistent, Position
  <1>2. ASSUME NEW h \in Handle, NEW a \in Addr, NEW k \in Key, StreamCreate(h, a, k)
        PROVE  MemoryInv'
    BY <1>2, CreateMemory
  <1>3. ASSUME NEW h \in Handle, Record(h) PROVE MemoryInv'
    BY <1>3, RecordMemory
  <1>4. ASSUME NEW h \in Handle, StreamDestroy(h) PROVE MemoryInv'
    <2>1. /\ handle' \in [Handle -> Addr \cup {Null}] /\ made' \in [Handle -> Key \cup {Null}]
          /\ UNCHANGED lifecycle /\ provider = "registered"
      BY <1>4 DEF StreamDestroy, DropHandle, MemoryInv, MemoryType
    <2>2. CASE UNCHANGED <<streams, num_streams, heap>>
      BY <2>1, <2>2 DEF MemoryInv, MemoryType, LifecycleType, RegistryConsistent, Position, lifecycle
    <2>3. ASSUME NEW i \in Reached(handle[h]), RemoveStream(i)
          PROVE  MemoryInv'
      <3>1. i \in Position
        BY ReachedPosition
      <3> QED
        BY <2>1, <2>3, <3>1, RemoveMemory DEF MemoryInv, MemoryType, LifecycleType, lifecycle
    <2> QED
      BY <1>4, <2>2, <2>3 DEF StreamDestroy
  <1>5. CASE DestroyAllStreams
    <2>1. LifecycleType'
      BY <1>5 DEF DestroyAllStreams, lifecycle, MemoryInv, MemoryType, LifecycleType
    <2> QED
      BY <1>5, <2>1, RemoveAllMemory DEF DestroyAllStreams
  <1>6. CASE ProviderDestroy
    <2>1. LifecycleType'
      <3>1. /\ provider' = "destroyed" /\ pushed' = pushed /\ callbacks' = 0
            /\ finalized' = finalized + 1 /\ margo' = margo
        BY <1>6 DEF ProviderDestroy, FinalizeProvider
      <3> QED
        BY <3>1 DEF MemoryInv, MemoryType, LifecycleType
    <2> QED
      BY <1>6, <2>1, RemoveAllMemory DEF ProviderDestroy, FinalizeProvider
  <1>7. ASSUME NEW push \in {0, 1}, ProviderRegister(push) PROVE MemoryInv'
    BY <1>7 DEF ProviderRegister, registry, application, MemoryInv, MemoryType,
                LifecycleType, RegistryConsistent, Position
  <1>8. CASE MargoFinalize
    <2>1. CASE callbacks > 0 /\ FinalizeProvider
      <3>1. /\ provider' = "destroyed" /\ pushed' = pushed /\ callbacks' = 0
            /\ finalized' = finalized + 1 /\ margo' = "finalized"
        BY <1>8, <2>1 DEF MargoFinalize, FinalizeProvider
      <3>2. LifecycleType'
        BY <3>1 DEF MemoryInv, MemoryType, LifecycleType
      <3> QED
        BY <2>1, <3>2, RemoveAllMemory DEF FinalizeProvider
    <2>2. CASE UNCHANGED <<provider, finalized, registry, heap, application, crashed>>
      <3>1. LifecycleType'
        BY <1>8, <2>2 DEF MargoFinalize, MemoryInv, MemoryType, LifecycleType
      <3> QED
        BY <2>2, <3>1 DEF registry, application, MemoryInv, MemoryType, RegistryConsistent,
                          Position
    <2> QED
      BY <1>8, <2>1, <2>2 DEF MargoFinalize
  <1>9. ASSUME NEW r \in Request, RequestStep(r) PROVE MemoryInv'
    BY <1>9, RequestsAreQuiet
       DEF Quietly, lifecycle, registry, application, MemoryInv, MemoryType, LifecycleType,
           RegistryConsistent, Position
  <1> QED
    BY <1>1, <1>2, <1>3, <1>4, <1>5, <1>6, <1>7, <1>8, <1>9
       DEF Next, Owner, RequestStep, RegisterByDefault, RegisterByBedrock

LEMMA InitMemory == Init => MemoryInv
  BY DEF Init, MemoryInv, MemoryType, LifecycleType, RegistryConsistent, Position

(* The hash and num_streams agree with the heap: every create, destroy and *)
(* destroy-all, also when ids collide, addresses are reused and the stream *)
(* freed is another than the one named (src/provider.c 323-362).           *)
THEOREM RegistryStays == Spec => []RegistryConsistent
  <1>1. Init => MemoryInv
    BY InitMemory
  <1>2. MemoryInv /\ [Next]_vars => MemoryInv'
    BY NextMemory
  <1>3. MemoryInv => RegistryConsistent
    BY DEF MemoryInv
  <1> QED
    BY <1>1, <1>2, <1>3, PTL DEF Spec

----------------------------------------------------------------------------
(* The requests. *)

LEMMA RequestUpdate ==
  ASSUME RequestInv, NEW r \in Request, NEW q \in RequestType, GoodRequest(q),
         request' = [request EXCEPT ![r] = q]
  PROVE  RequestInv'
  BY DEF RequestInv

(* A handler that gives up, or ends a fetch that has copied.               *)
LEMMA AnswerRequest ==
  ASSUME RequestInv, NEW r \in Request, NEW ret \in {"mercury", "invalid_stream", "success"},
         request[r].phase \in {"queued", "transfer"}, Answer(r, ret),
         ret = "success" => request[r].phase = "transfer"
  PROVE  RequestInv'
  <1> DEFINE q == [request[r] EXCEPT !.phase = "answered", !.ret = ret]
  <1>1. request[r] \in RequestType /\ GoodRequest(request[r])
    BY DEF RequestInv
  <1>2. q \in RequestType
    BY <1>1 DEF RequestType
  <1>3. /\ q.phase = "answered" /\ q.ret = ret /\ q.rpc = request[r].rpc
        /\ q.arg = request[r].arg /\ q.count = request[r].count
        /\ q.copy = request[r].copy /\ q.ids = request[r].ids
    BY <1>1 DEF RequestType
  <1>4. request' = [request EXCEPT ![r] = q]
    BY <1>1 DEF Answer, RequestInv, RequestType
  <1> HIDE DEF q
  <1>5. GoodRequest(q)
    BY <1>1, <1>3 DEF GoodRequest, RightCopy
  <1> QED
    BY <1>2, <1>4, <1>5, RequestUpdate

LEMMA SendRequest ==
  ASSUME RequestInv, NEW r \in Request, NEW rpc \in {"fetch", "list"},
         NEW arg \in Id \cup {Null}, NEW n \in Count, Send(r, rpc, arg, n)
  PROVE  RequestInv'
  <1> DEFINE q == [request[r] EXCEPT !.phase = "queued", !.rpc = rpc, !.arg = arg,
                                     !.count = n]
  <1>1. request[r] \in RequestType /\ GoodRequest(request[r])
    BY DEF RequestInv
  <1>2. q \in RequestType
    BY <1>1, ProviderAssumption DEF RequestType
  <1>3. /\ q.phase = "queued" /\ q.ret = request[r].ret /\ q.rpc = rpc
        /\ q.count = n /\ q.ids = request[r].ids
    BY <1>1 DEF RequestType
  <1>4. request' = [request EXCEPT ![r] = q] /\ request[r].phase = "unsent"
    BY <1>1 DEF Send, RequestInv, RequestType
  <1> HIDE DEF q
  <1>5. q.ret = "none" /\ q.ids = <<>> /\ n \in Nat
    BY <1>1, <1>3, <1>4, ProviderAssumption DEF GoodRequest
  <1>6. GoodRequest(q)
    BY <1>3, <1>5 DEF GoodRequest
  <1> QED
    BY <1>2, <1>4, <1>6, RequestUpdate

(* The window of a fetch is right: the latest samples, as many as asked    *)
(* for if there are.                                                       *)
LEMMA WindowRight ==
  ASSUME NEW a, heap[a] \in Stream, NEW n \in Nat, NEW c, c = Window(a, n)
  PROVE  /\ c \in [key : Key \cup {Null}, first : Int, last : Int]
         /\ c.key = heap[a].key /\ c.key \in Key
         /\ c.first >= 1 /\ c.last = heap[a].buffer_index
         /\ c.last - c.first + 1 \in 0..n
         /\ c.last - c.first + 1 < n => c.first = 1
  <1> DEFINE b == heap[a].buffer_index
  <1>1. b \in Nat /\ heap[a].key \in Key
    BY ProviderAssumption DEF Stream
  <1>2. c.key = heap[a].key /\ c.first = b - Smaller(b, n) + 1 /\ c.last = b
    BY DEF Window
  <1>3. c \in [key : Key \cup {Null}, first : Int, last : Int]
    BY <1>1 DEF Window, Smaller
  <1> QED
    BY <1>1, <1>2, <1>3 DEF Smaller

LEMMA CopyRequest ==
  ASSUME MemoryInv, KeyInv, RequestInv, NEW r \in Request, FetchCopy(r)
  PROVE  RequestInv'
  <1>1. request[r] \in RequestType /\ GoodRequest(request[r])
    BY DEF RequestInv
  <1>2. PICK i \in Registered(request[r].arg) :
          request' = [request EXCEPT ![r].phase = "transfer",
                                     ![r].copy = Window(streams[i], request[r].count)]
    BY DEF FetchCopy
  <1> DEFINE c == Window(streams[i], request[r].count)
             q == [request[r] EXCEPT !.phase = "transfer", !.copy = c]
  <1>3. i \in Position /\ heap[streams[i]].id = request[r].arg
    BY DEF Registered, Position
  <1>4. streams[i] \in Addr /\ heap[streams[i]] \in Stream
        /\ IdOf[heap[streams[i]].key] = request[r].arg
    BY <1>3, PositionAddr DEF MemoryInv, MemoryType, RegistryConsistent, KeyInv
  <1>5. request[r].count \in Nat
    BY <1>1 DEF RequestType
  <1>6. /\ c \in [key : Key \cup {Null}, first : Int, last : Int]
        /\ c.key = heap[streams[i]].key /\ c.key \in Key
        /\ c.last - c.first + 1 \in 0..request[r].count
        /\ c.last - c.first + 1 < request[r].count => c.first = 1
    BY <1>4, <1>5, WindowRight
  <1>7. request[r].phase = "queued" /\ request[r].rpc = "fetch"
    BY DEF FetchCopy, Starts
  <1> HIDE DEF c
  <1>8. q \in RequestType
    BY <1>1, <1>6 DEF RequestType
  <1>9. /\ q.phase = "transfer" /\ q.copy = c /\ q.rpc = request[r].rpc
        /\ q.arg = request[r].arg /\ q.count = request[r].count
        /\ q.ret = request[r].ret /\ q.ids = request[r].ids
    BY <1>1 DEF RequestType
  <1>10. request' = [request EXCEPT ![r] = q]
    BY <1>1, <1>2 DEF RequestInv, RequestType, c
  <1> HIDE DEF q
  <1>11. RightCopy(q)
    BY <1>4, <1>6, <1>9 DEF RightCopy
  <1>12. GoodRequest(q)
    BY <1>1, <1>7, <1>9, <1>11 DEF GoodRequest
  <1> QED
    BY <1>8, <1>10, <1>12, RequestUpdate

LEMMA ListRequest ==
  ASSUME MemoryInv, RequestInv, NEW r \in Request, ListReply(r)
  PROVE  RequestInv'
  <1>1. request[r] \in RequestType /\ GoodRequest(request[r])
    BY DEF RequestInv
  <1> DEFINE l == Listed(request[r].count)
             m == Smaller(num_streams, request[r].count)
             q == [request[r] EXCEPT !.phase = "answered", !.ret = "success", !.ids = l]
  <1>2. /\ request[r].phase = "queued" /\ request[r].rpc = "list"
        /\ request' = [request EXCEPT ![r].phase = "answered", ![r].ret = "success",
                                      ![r].ids = l]
    BY DEF ListReply, Starts
  <1>3. m \in Nat /\ m <= request[r].count /\ 1..m \subseteq Position
    BY <1>1, PositionAddr DEF Smaller, MemoryInv, RegistryConsistent, RequestType, Position
  <1>4. \A i \in 1..m : heap[streams[i]].id \in Id
    BY <1>3, PositionAddr DEF MemoryInv, MemoryType, RegistryConsistent, Stream
  <1>5. l = [i \in 1..m |-> heap[streams[i]].id]
    BY DEF Listed
  <1> HIDE DEF l, m
  <1>6. l \in Seq(Id) /\ Len(l) = m /\ \A i \in 1..m : l[i] = heap[streams[i]].id
    BY <1>3, <1>4, <1>5
  <1>7. \A i, j \in 1..Len(l) : l[i] = l[j] => i = j
    BY <1>3, <1>6 DEF MemoryInv, RegistryConsistent
  <1>8. q \in RequestType
    BY <1>1, <1>6 DEF RequestType
  <1>9. /\ q.phase = "answered" /\ q.rpc = "list" /\ q.ids = l /\ q.ret = "success"
        /\ q.count = request[r].count
    BY <1>1, <1>2 DEF RequestType
  <1>10. request' = [request EXCEPT ![r] = q]
    BY <1>1, <1>2 DEF RequestInv, RequestType
  <1> HIDE DEF q
  <1>11. GoodRequest(q)
    BY <1>3, <1>6, <1>7, <1>9 DEF GoodRequest
  <1> QED
    BY <1>8, <1>10, <1>11, RequestUpdate

(* Only a client that sends and a handler change a request.                *)
LEMMA OnlyRequests ==
  ASSUME [Next]_vars, request' # request PROVE \E r \in Request : RequestStep(r)
  <1>1. ASSUME NEW h \in Handle PROVE
           \/ \E a \in Addr, k \in Key : StreamCreate(h, a, k)
           \/ Record(h)
           \/ StreamDestroy(h)
           => UNCHANGED request
    BY DEF StreamCreate, Record, StreamDestroy
  <1>2. DestroyAllStreams \/ ProviderDestroy \/ MargoFinalize => UNCHANGED request
    BY DEF DestroyAllStreams, ProviderDestroy, MargoFinalize
  <1>3. RegisterByDefault \/ RegisterByBedrock \/ UNCHANGED vars => UNCHANGED request
    BY DEF RegisterByDefault, RegisterByBedrock, ProviderRegister, vars
  <1> QED
    BY <1>1, <1>2, <1>3 DEF Next, Owner, RequestStep

LEMMA NextRequest ==
  ASSUME MemoryInv, KeyInv, RequestInv, [Next]_vars PROVE RequestInv'
  <1>1. CASE UNCHANGED request
    BY <1>1 DEF RequestInv
  <1>2. ASSUME NEW r \in Request, RequestStep(r) PROVE RequestInv'
    <2>1. ASSUME NEW n \in Count, NEW id \in Id, SendFetch(r, id, n) PROVE RequestInv'
      BY <2>1, SendRequest DEF SendFetch
    <2>2. ASSUME NEW n \in Count, SendList(r, n) PROVE RequestInv'
      BY <2>2, SendRequest DEF SendList
    <2>3. CASE FetchCopy(r)
      BY <2>3, CopyRequest
    <2>4. CASE ListReply(r)
      BY <2>4, ListRequest
    <2>5. CASE FetchReply(r)
      BY <2>5, AnswerRequest DEF FetchReply
    <2>6. CASE HandlerWithoutProvider(r) \/ FetchFault(r) \/ FetchUnknown(r)
               \/ FetchTransferFailed(r) \/ ListFault(r)
      BY <2>6, <1>1, AnswerRequest
         DEF HandlerWithoutProvider, FetchFault, FetchUnknown, FetchTransferFailed,
             ListFault, Starts, Die
    <2> QED
      BY <1>2, <2>1, <2>2, <2>3, <2>4, <2>5, <2>6 DEF RequestStep, Handler, HandlerProceeds, HandlerFails
  <1>3. ASSUME NEW h \in Handle, NEW a \in Addr, NEW k \in Key, StreamCreate(h, a, k)
        PROVE  RequestInv'
    BY <1>1, <1>3 DEF StreamCreate
  <1>4. ASSUME NEW h \in Handle, Record(h) \/ StreamDestroy(h) PROVE RequestInv'
    BY <1>1, <1>4 DEF Record, StreamDestroy
  <1>5. CASE DestroyAllStreams \/ ProviderDestroy \/ MargoFinalize
    BY <1>1, <1>5 DEF DestroyAllStreams, ProviderDestroy, MargoFinalize
  <1>6. CASE RegisterByDefault \/ RegisterByBedrock
    BY <1>1, <1>6 DEF RegisterByDefault, RegisterByBedrock, ProviderRegister
  <1> QED
    BY <1>1, <1>2, <1>3, <1>4, <1>5, <1>6 DEF Next, Owner, RequestStep, vars

LEMMA NextKey ==
  ASSUME MemoryInv, KeyInv, [Next]_vars PROVE KeyInv'
  <1>1. CASE UNCHANGED heap
    BY <1>1 DEF KeyInv
  <1>2. ASSUME NEW h \in Handle, NEW a \in Addr, NEW k \in Key, StreamCreate(h, a, k)
        PROVE  KeyInv'
    BY <1>2 DEF StreamCreate, KeyInv, MemoryInv, MemoryType
  <1>3. ASSUME NEW h \in Handle, Record(h) PROVE KeyInv'
    BY <1>3, RecordMemory DEF KeyInv
  <1>4. ASSUME NEW h \in Handle, StreamDestroy(h) PROVE KeyInv'
    <2>1. ASSUME NEW i, RemoveStream(i) PROVE KeyInv'
      BY <2>1 DEF RemoveStream, KeyInv, MemoryInv, MemoryType
    <2> QED
      BY <1>1, <1>4, <2>1 DEF StreamDestroy
  <1>5. ASSUME RemoveAllStreams PROVE KeyInv'
    BY <1>5 DEF RemoveAllStreams, KeyInv, MemoryInv, MemoryType
  <1>6. CASE DestroyAllStreams \/ ProviderDestroy \/ MargoFinalize
    BY <1>1, <1>5, <1>6 DEF DestroyAllStreams, ProviderDestroy, MargoFinalize, FinalizeProvider
  <1>7. CASE RegisterByDefault \/ RegisterByBedrock
    BY <1>1, <1>7 DEF RegisterByDefault, RegisterByBedrock, ProviderRegister
  <1>8. ASSUME NEW r \in Request, RequestStep(r) PROVE KeyInv'
    BY <1>1, <1>8, RequestsAreQuiet DEF Quietly
  <1> QED
    BY <1>1, <1>2, <1>3, <1>4, <1>6, <1>7, <1>8 DEF Next, Owner, RequestStep, vars

IInv == MemoryInv /\ KeyInv /\ RequestInv

LEMMA InitIInv == Init => IInv
  <1> SUFFICES ASSUME Init PROVE IInv
    OBVIOUS
  <1>1. KeyInv
    BY DEF Init, KeyInv
  <1>2. Fresh \in RequestType
    BY DEF Fresh, NoCopy, RequestType
  <1>3. GoodRequest(Fresh)
    BY DEF Fresh, GoodRequest
  <1> QED
    BY <1>1, <1>2, <1>3, InitMemory DEF Init, IInv, RequestInv

(* The shape of the memory, the consistency of the hash, the ids of the    *)
(* streams and the requests, together, in every state.                     *)
THEOREM Invariance == Spec => []IInv
  <1>1. IInv /\ [Next]_vars => IInv'
    BY NextMemory, NextKey, NextRequest DEF IInv
  <1> QED
    BY InitIInv, <1>1, PTL DEF Spec

(* The variables keep their types: provider.h, types.h and the RPC structs.*)
THEOREM TypeCorrect == Spec => []TypeOK
  <1>1. IInv => TypeOK
    BY DEF IInv, MemoryInv, MemoryType, LifecycleType, RequestInv, RequestType, TypeOK
  <1> QED
    BY <1>1, Invariance, PTL

(* A handler that copies, copies the latest samples of the stream asked    *)
(* for.                                                                    *)
LEMMA CopiesLatest ==
  ASSUME MemoryInv, RequestInv, NEW r \in Request, FetchCopy(r)
  PROVE  \E i \in Position :
           LET stream == heap[streams[i]]
               c == request'[r].copy
               n == c.last - c.first + 1
           IN /\ stream.id = request[r].arg
              /\ c.key = stream.key
              /\ c.first >= 1 /\ c.last = stream.buffer_index
              /\ n \in 0..request[r].count
              /\ n < request[r].count => c.first = 1
  <1>1. request[r] \in RequestType /\ request \in [Request -> RequestType]
    BY DEF RequestInv
  <1>2. PICK i \in Registered(request[r].arg) :
          request' = [request EXCEPT ![r].phase = "transfer",
                                     ![r].copy = Window(streams[i], request[r].count)]
    BY DEF FetchCopy
  <1> DEFINE stream == heap[streams[i]]
             c == request'[r].copy
  <1>3. i \in Position /\ stream.id = request[r].arg
    BY DEF Registered, Position
  <1>4. stream \in Stream
    BY <1>3, PositionAddr DEF MemoryInv, MemoryType, RegistryConsistent
  <1>5. c = Window(streams[i], request[r].count)
    BY <1>1, <1>2 DEF RequestType
  <1>6. request[r].count \in Nat
    BY <1>1 DEF RequestType
  <1>7. /\ c.key = stream.key
        /\ c.first >= 1 /\ c.last = stream.buffer_index
        /\ c.last - c.first + 1 \in 0..request[r].count
        /\ c.last - c.first + 1 < request[r].count => c.first = 1
    BY <1>4, <1>5, <1>6, WindowRight
  <1> QED
    BY <1>3, <1>7

(* The samples a fetch hands out are the latest of the stream asked for,   *)
(* and sent as they were copied, also when that stream is destroyed while  *)
(* the handler waits for the transfer (src/provider.c 163-235).            *)
THEOREM FetchAnswersRight == Spec => FetchAnswersItsId
  <1>1. ASSUME IInv, [Next]_vars, NEW r \in Request,
               request[r].phase # "transfer", request'[r].phase = "transfer"
        PROVE  FetchCopy(r)
    <2>1. request \in [Request -> RequestType]
      BY <1>1 DEF IInv, RequestInv
    <2>2. request' # request
      BY <1>1
    <2>3. PICK q \in Request : RequestStep(q)
      BY <1>1, <2>2, OnlyRequests
    <2>4. ASSUME NEW rpc, NEW arg, NEW n, Send(q, rpc, arg, n) PROVE FALSE
      BY <1>1, <2>1, <2>4 DEF Send, RequestType
    <2>5. ASSUME NEW ret, Answer(q, ret) PROVE FALSE
      BY <1>1, <2>1, <2>5 DEF Answer, RequestType
    <2>6. ~ ListReply(q)
      BY <1>1, <2>1 DEF ListReply, RequestType
    <2>7. FetchCopy(q)
      BY <2>2, <2>3, <2>4, <2>5, <2>6
         DEF RequestStep, SendFetch, SendList, Handler, HandlerProceeds, HandlerFails,
             HandlerWithoutProvider, FetchFault,
             FetchUnknown, FetchReply, FetchTransferFailed, ListFault, Die
    <2>8. q = r
      BY <1>1, <2>1, <2>7 DEF FetchCopy
    <2> QED
      BY <2>7, <2>8
  <1>2. ASSUME IInv, [Next]_vars, NEW r \in Request,
               request[r].rpc = "fetch", request[r].ret # "success",
               request'[r].ret = "success"
        PROVE  request[r].phase = "transfer" /\ request'[r].copy = request[r].copy
    <2>1. request \in [Request -> RequestType]
      BY <1>2 DEF IInv, RequestInv
    <2>2. PICK q \in Request : RequestStep(q)
      BY <1>2, OnlyRequests
    <2>3. ASSUME NEW rpc, NEW arg, NEW n, Send(q, rpc, arg, n) PROVE FALSE
      BY <1>2, <2>1, <2>3 DEF Send, RequestType
    <2>4. ASSUME NEW ret, ret # "success", Answer(q, ret) PROVE FALSE
      BY <1>2, <2>1, <2>4 DEF Answer, RequestType
    <2>5. ~ ListReply(q) /\ ~ FetchCopy(q)
      BY <1>2, <2>1 DEF ListReply, FetchCopy, Starts, RequestType
    <2>6. FetchReply(q)
      BY <1>2, <2>2, <2>3, <2>4, <2>5
         DEF RequestStep, SendFetch, SendList, Handler, HandlerProceeds, HandlerFails,
             HandlerWithoutProvider, FetchFault,
             FetchUnknown, FetchTransferFailed, ListFault, Die
    <2> QED
      BY <1>2, <2>1, <2>6 DEF FetchReply, Answer, RequestType
  <1>3. IInv /\ [Next]_vars =>
          \A r \in Request :
            /\ request[r].phase # "transfer" /\ request'[r].phase = "transfer" =>
                 \E i \in Position :
                    LET stream == heap[streams[i]]
                        c == request'[r].copy
                        n == c.last - c.first + 1
                    IN /\ stream.id = request[r].arg
                       /\ c.key = stream.key
                       /\ c.first >= 1 /\ c.last = stream.buffer_index
                       /\ n \in 0..request[r].count
                       /\ n < request[r].count => c.first = 1
            /\ request[r].rpc = "fetch" /\ request[r].ret # "success"
               /\ request'[r].ret = "success" =>
                 request[r].phase = "transfer" /\ request'[r].copy = request[r].copy
    BY <1>1, <1>2, CopiesLatest DEF IInv
  <1> QED
    BY <1>3, Invariance, PTL DEF Spec, FetchAnswersItsId

(* A list holds the ids of streams in the hash, each once, no more than    *)
(* max_ids of them and all if there is room (src/provider.c 264-305).      *)
THEOREM ListsRight == Spec => ListWithinMax
  <1> DEFINE Right(q, ids) ==
               /\ Len(ids) <= q.count
               /\ \A i, j \in 1..Len(ids) : ids[i] = ids[j] => i = j
               /\ ToSet(ids) \subseteq Live
               /\ Len(ids) < q.count => Live \subseteq ToSet(ids)
  <1>1. ASSUME IInv, [Next]_vars, NEW r \in Request,
               request[r].rpc = "list", request[r].ret # "success",
               request'[r].ret = "success"
        PROVE  request'[r].ids = Listed(request[r].count)
    <2>1. request \in [Request -> RequestType] /\ GoodRequest(request[r])
      BY <1>1 DEF IInv, RequestInv
    <2>2. PICK q \in Request : RequestStep(q)
      BY <1>1, OnlyRequests
    <2>3. ASSUME NEW rpc, NEW arg, NEW n, Send(q, rpc, arg, n) PROVE FALSE
      BY <1>1, <2>1, <2>3 DEF Send, RequestType
    <2>4. ASSUME NEW ret, ret # "success", Answer(q, ret) PROVE FALSE
      BY <1>1, <2>1, <2>4 DEF Answer, RequestType
    <2>5. ~ FetchCopy(q)
      BY <1>1, <2>1 DEF FetchCopy, Starts, RequestType
    <2>6. ~ FetchReply(q)
      <3>1. request[r].phase # "transfer"
        BY <1>1, <2>1 DEF GoodRequest
      <3> QED
        BY <1>1, <2>1, <3>1 DEF FetchReply, Answer, RequestType
    <2>7. ListReply(q)
      BY <1>1, <2>2, <2>3, <2>4, <2>5, <2>6
         DEF RequestStep, SendFetch, SendList, Handler, HandlerProceeds, HandlerFails,
             HandlerWithoutProvider, FetchFault,
             FetchUnknown, FetchTransferFailed, ListFault, Die
    <2> QED
      BY <1>1, <2>1, <2>7 DEF ListReply, RequestType
  <1>2. ASSUME IInv, NEW r \in Request
        PROVE  Right(request[r], Listed(request[r].count))
    <2> DEFINE n == request[r].count
               m == Smaller(num_streams, n)
    <2>1. n \in Nat /\ MemoryInv
      BY <1>2 DEF IInv, RequestInv, RequestType
    <2>2. /\ Len(streams) \in Nat /\ num_streams = Len(streams)
          /\ m \in 0..n /\ m \in 0..Len(streams)
          /\ m < n => m = Len(streams)
      BY <2>1, PositionAddr DEF Smaller, MemoryInv, RegistryConsistent
    <2> DEFINE l == Listed(n)
    <2>3. l = [i \in 1..m |-> heap[streams[i]].id]
      BY DEF Listed
    <2>4. 1..m \subseteq Position
      BY <2>2 DEF Position
    <2>5. \A i \in 1..m : heap[streams[i]].id \in Id
      BY <2>1, <2>4, PositionAddr DEF MemoryInv, MemoryType, RegistryConsistent, Stream
    <2> HIDE DEF l, m, n
    <2>6. l \in Seq(Id) /\ Len(l) = m /\ DOMAIN l = 1..m
          /\ \A i \in 1..m : l[i] = heap[streams[i]].id
      BY <2>2, <2>3, <2>5
    <2>7. \A i, j \in 1..m : l[i] = l[j] => i = j
      BY <2>1, <2>4, <2>6 DEF MemoryInv, RegistryConsistent
    <2>8. ToSet(l) = {heap[streams[i]].id : i \in 1..m}
      BY <2>6 DEF ToSet
    <2>9. ToSet(l) \subseteq Live
      BY <2>4, <2>8 DEF Live, Position
    <2>10. m < n => Live \subseteq ToSet(l)
      BY <2>2, <2>8 DEF Live
    <2>11. Len(l) <= n
      BY <2>1, <2>2, <2>6
    <2> QED
      BY <2>6, <2>7, <2>9, <2>10, <2>11 DEF n, l
  <1>3. IInv /\ [Next]_vars =>
          \A r \in Request :
            (request[r].rpc = "list" /\ request[r].ret # "success" /\ request'[r].ret = "success") =>
              Right(request[r], request'[r].ids)
    <2> HIDE DEF Right
    <2> QED
      BY <1>1, <1>2
  <1> QED
    BY <1>3, Invariance, PTL DEF Spec, ListWithinMax

----------------------------------------------------------------------------
(* The life of the provider. *)

(* Margo holds the callback exactly while a provider registered with it is *)
(* there and Margo runs; a provider that is there was not finalized.       *)
LifeInv ==
  /\ callbacks = 1 <=> provider = "registered" /\ pushed = 1 /\ margo = "running"
  /\ provider # "destroyed" => finalized = 0
  /\ provider = "destroyed" => finalized = 1
  /\ provider = "none" => pushed = 0
  /\ margo = "finalized" /\ pushed = 1 => provider = "destroyed"

LEMMA NextLife ==
  ASSUME MemoryInv, LifeInv, [Next]_vars PROVE LifeInv'
  <1> USE DEF LifeInv
  <1>1. CASE UNCHANGED lifecycle
    BY <1>1 DEF lifecycle
  <1>2. ASSUME NEW push \in {0, 1}, ProviderRegister(push) PROVE LifeInv'
    BY <1>2 DEF ProviderRegister, Up
  <1>3. CASE ProviderDestroy
    <2>1. /\ provider = "registered" /\ provider' = "destroyed" /\ callbacks' = 0
          /\ finalized' = finalized + 1 /\ UNCHANGED <<pushed, margo>>
      BY <1>3 DEF ProviderDestroy, FinalizeProvider
    <2> QED
      BY <2>1
  <1>4. CASE MargoFinalize
    <2>1. /\ margo = "running" /\ margo' = "finalized" /\ callbacks' = 0 /\ pushed' = pushed
          /\ \/ callbacks > 0 /\ provider' = "destroyed" /\ finalized' = finalized + 1
             \/ callbacks = 0 /\ UNCHANGED <<provider, finalized>>
      BY <1>4 DEF MargoFinalize, FinalizeProvider, Up
    <2> QED
      BY <2>1 DEF MemoryInv, MemoryType, LifecycleType
  <1>5. ASSUME NEW h \in Handle, NEW a \in Addr, NEW k \in Key, StreamCreate(h, a, k)
        PROVE  LifeInv'
    BY <1>1, <1>5 DEF StreamCreate
  <1>6. ASSUME NEW h \in Handle, Record(h) \/ StreamDestroy(h) PROVE LifeInv'
    BY <1>1, <1>6 DEF Record, StreamDestroy
  <1>7. CASE DestroyAllStreams
    BY <1>1, <1>7 DEF DestroyAllStreams
  <1>8. ASSUME NEW r \in Request, RequestStep(r) PROVE LifeInv'
    BY <1>1, <1>8, RequestsAreQuiet DEF Quietly
  <1>9. CASE UNCHANGED vars
    BY <1>1, <1>9 DEF vars, lifecycle
  <1> QED
    BY <1>2, <1>3, <1>4, <1>5, <1>6, <1>7, <1>8, <1>9
       DEF Next, Owner, RequestStep, RegisterByDefault, RegisterByBedrock

(* Whoever ends the provider, the application or Margo, it is finalized    *)
(* once: destroy takes the callback out before it calls it (src/provider.c *)
(* 99-100, 120-131).                                                       *)
THEOREM ProviderFinalizedOnce == Spec => []FinalizedOnce
  <1>1. Init => MemoryInv /\ LifeInv
    BY InitMemory DEF Init, LifeInv
  <1>2. MemoryInv /\ LifeInv /\ [Next]_vars => MemoryInv' /\ LifeInv'
    BY NextMemory, NextLife
  <1>3. MemoryInv /\ LifeInv => FinalizedOnce
    BY DEF LifeInv, FinalizedOnce, MemoryInv, MemoryType, LifecycleType
  <1> QED
    BY <1>1, <1>2, <1>3, PTL DEF Spec

----------------------------------------------------------------------------
(* Ids that differ. *)

(* A handle is taken iff it has a key, no two handles have the same id,    *)
(* every stream of the hash is held, and every stream held is in the hash  *)
(* and made of the key of its handle.                                      *)
OwnInv ==
  /\ \A h \in Handle : handle[h] = Null <=> made[h] = Null
  /\ \A g, h \in Handle :
       (handle[g] # Null /\ handle[h] # Null /\ IdOf[made[g]] = IdOf[made[h]]) => g = h
  /\ \A i \in Position : \E h \in Handle : handle[h] = streams[i]
  /\ HandlesRegistered
  /\ HandlesLive

LEMMA CreateOwn ==
  ASSUME MemoryInv, OwnInv, "same_id" \notin Uses,
         NEW h \in Handle, NEW a \in Addr, NEW k \in Key, StreamCreate(h, a, k)
  PROVE  OwnInv'
  <1> USE DEF MemoryInv
  <1>1. /\ handle[h] = Null /\ heap[a] = Free /\ Held(IdOf[k]) = {}
        /\ heap' = [heap EXCEPT ![a] = [key |-> k, id |-> IdOf[k], buffer_index |-> 0]]
        /\ AddStream(a, IdOf[k])
        /\ handle' = [handle EXCEPT ![h] = a] /\ made' = [made EXCEPT ![h] = k]
    BY DEF StreamCreate
  <1>2. a # Null /\ k # Null
    BY ProviderAssumption
  <1>3. \A g \in Handle : handle[g] # Null => IdOf[made[g]] # IdOf[k]
    BY <1>1 DEF OwnInv, Held, MemoryType
  <1>4. Registered(IdOf[k]) = {}
    <2> SUFFICES ASSUME NEW i \in Position, heap[streams[i]].id = IdOf[k] PROVE FALSE
      BY DEF Registered, Position
    <2>1. PICK g \in Handle : handle[g] = streams[i]
      BY DEF OwnInv
    <2>2. handle[g] # Null
      BY <2>1, PositionAddr, ProviderAssumption
    <2>3. heap[handle[g]].id = IdOf[made[g]]
      BY <2>2 DEF OwnInv, HandlesRegistered
    <2> QED
      BY <2>1, <2>2, <2>3, <1>3
  <1>5. streams' = Append(streams, a)
    BY <1>1, <1>4 DEF AddStream
  <1>6. /\ Len(streams) \in Nat /\ Len(streams') = Len(streams) + 1
        /\ \A i \in Position : streams'[i] = streams[i]
        /\ streams'[Len(streams) + 1] = a
    BY <1>5, AppendProperties, PositionAddr DEF MemoryType, Position
  <1>7. Position' = Position \cup {Len(streams) + 1}
    BY <1>6 DEF Position
  <1>8. /\ handle'[h] = a /\ made'[h] = k
        /\ \A g \in Handle : g # h => handle'[g] = handle[g] /\ made'[g] = made[g]
    BY <1>1 DEF MemoryType
  <1>9. \A i \in Position : heap'[streams[i]] = heap[streams[i]] /\ streams[i] # a
    BY <1>1, PositionAddr DEF MemoryType, RegistryConsistent
  <1>10. heap'[a].id = IdOf[k]
    BY <1>1 DEF MemoryType
  <1>11. \A g \in Handle : handle'[g] = Null <=> made'[g] = Null
    BY <1>2, <1>8 DEF OwnInv
  <1>12. \A f, g \in Handle :
           (handle'[f] # Null /\ handle'[g] # Null /\ IdOf[made'[f]] = IdOf[made'[g]]) => f = g
    BY <1>3, <1>8 DEF OwnInv
  <1>13. \A i \in Position' : \E g \in Handle : handle'[g] = streams'[i]
    <2>1. ASSUME NEW i \in Position PROVE \E g \in Handle : handle'[g] = streams'[i]
      <3>1. PICK g \in Handle : handle[g] = streams[i]
        BY DEF OwnInv
      <3>2. g # h
        BY <3>1, <1>1, PositionAddr, ProviderAssumption
      <3> QED
        BY <3>1, <3>2, <1>6, <1>8
    <2> QED
      BY <2>1, <1>6, <1>7, <1>8
  <1>14. HandlesRegistered'
    <2> SUFFICES ASSUME NEW g \in Handle, handle'[g] # Null
                 PROVE  \E i \in Position' : /\ streams'[i] = handle'[g]
                                             /\ heap'[streams'[i]].id = IdOf[made'[g]]
      BY DEF HandlesRegistered
    <2>1. CASE g = h
      BY <2>1, <1>6, <1>7, <1>8, <1>10
    <2>2. CASE g # h
      <3>1. PICK i \in Position : streams[i] = handle[g] /\ heap[streams[i]].id = IdOf[made[g]]
        BY <2>2, <1>8 DEF OwnInv, HandlesRegistered
      <3> QED
        BY <2>2, <3>1, <1>6, <1>7, <1>8, <1>9
    <2> QED
      BY <2>1, <2>2
  <1>15. HandlesLive'
    <2> SUFFICES ASSUME NEW g \in Handle, handle'[g] # Null
                 PROVE  heap'[handle'[g]] # Free /\ heap'[handle'[g]].key = made'[g]
      BY DEF HandlesLive
    <2>1. heap'[a] \in Stream /\ heap'[a].key = k
      BY <1>1, ProviderAssumption DEF MemoryType, Stream
    <2>2. CASE g # h
      <3>1. PICK i \in Position : streams[i] = handle[g]
        BY <2>2, <1>8 DEF OwnInv, HandlesRegistered
      <3> QED
        BY <2>2, <3>1, <1>8, <1>9 DEF OwnInv, HandlesLive
    <2> QED
      BY <2>1, <2>2, <1>8, ProviderAssumption
  <1> QED
    BY <1>11, <1>12, <1>13, <1>14, <1>15 DEF OwnInv

LEMMA DestroyOwn ==
  ASSUME MemoryInv, OwnInv, NEW h \in Handle, StreamDestroy(h)
  PROVE  OwnInv'
  <1> USE DEF MemoryInv
  <1>1. /\ handle[h] # Null /\ provider = "registered" /\ UNCHANGED lifecycle
        /\ handle' = [handle EXCEPT ![h] = Null] /\ made' = [made EXCEPT ![h] = Null]
    BY DEF StreamDestroy, DropHandle
  <1>2. PICK p \in Position : streams[p] = handle[h] /\ heap[streams[p]].id = IdOf[made[h]]
    BY <1>1 DEF OwnInv, HandlesRegistered
  <1>3. PICK i \in Registered(heap[handle[h]].id) : RemoveStream(i)
    <2>1. p \in Registered(heap[handle[h]].id)
      BY <1>2 DEF Registered, Position
    <2>2. heap[handle[h]] # Free
      BY <1>1 DEF OwnInv, HandlesLive
    <2> QED
      BY <2>1, <2>2 DEF StreamDestroy, Reached
  <1>4. i \in Position /\ i = p
    BY <1>2 DEF Registered, Position, RegistryConsistent
  <1>5. /\ \A j \in Position : j # i =>
              /\ heap'[streams[j]] = heap[streams[j]]
              /\ \E m \in Position' : streams'[m] = streams[j]
        /\ \A m \in Position' : \E j \in Position :
              j # i /\ streams'[m] = streams[j]
    BY <1>1, <1>3, <1>4, RemoveMemory DEF lifecycle
  <1>6. /\ handle'[h] = Null /\ made'[h] = Null
        /\ \A g \in Handle : g # h => handle'[g] = handle[g] /\ made'[g] = made[g]
    BY <1>1 DEF MemoryType
  <1>7. \A m \in Position' : \E g \in Handle : handle'[g] = streams'[m]
    <2> SUFFICES ASSUME NEW m \in Position' PROVE \E g \in Handle : handle'[g] = streams'[m]
      OBVIOUS
    <2>1. PICK j \in Position : j # i /\ streams'[m] = streams[j]
      BY <1>5
    <2>2. PICK g \in Handle : handle[g] = streams[j]
      BY DEF OwnInv
    <2>3. streams[j] # streams[i]
      BY <2>1, <1>4 DEF RegistryConsistent
    <2>4. g # h
      BY <2>2, <2>3, <1>2, <1>4
    <2> QED
      BY <2>1, <2>2, <2>4, <1>6
  <1>8. HandlesRegistered'
    <2> SUFFICES ASSUME NEW g \in Handle, handle'[g] # Null
                 PROVE  \E m \in Position' : /\ streams'[m] = handle'[g]
                                             /\ heap'[streams'[m]].id = IdOf[made'[g]]
      BY DEF HandlesRegistered
    <2>1. g # h /\ handle[g] # Null /\ handle'[g] = handle[g] /\ made'[g] = made[g]
      BY <1>6
    <2>2. PICK j \in Position : streams[j] = handle[g] /\ heap[streams[j]].id = IdOf[made[g]]
      BY <2>1 DEF OwnInv, HandlesRegistered
    <2>3. j # i
      BY <2>1, <2>2, <1>1, <1>2, <1>4 DEF OwnInv
    <2>4. PICK m \in Position' : streams'[m] = streams[j]
      BY <2>3, <1>5
    <2>5. heap'[streams[j]] = heap[streams[j]]
      BY <2>3, <1>5
    <2> QED
      BY <2>1, <2>2, <2>4, <2>5
  <1>9. HandlesLive'
    <2> SUFFICES ASSUME NEW g \in Handle, handle'[g] # Null
                 PROVE  heap'[handle'[g]] # Free /\ heap'[handle'[g]].key = made'[g]
      BY DEF HandlesLive
    <2>1. g # h /\ handle[g] # Null /\ handle'[g] = handle[g] /\ made'[g] = made[g]
      BY <1>6
    <2>2. PICK j \in Position : streams[j] = handle[g] /\ heap[streams[j]].id = IdOf[made[g]]
      BY <2>1 DEF OwnInv, HandlesRegistered
    <2>3. j # i
      BY <2>1, <2>2, <1>1, <1>2, <1>4 DEF OwnInv
    <2> QED
      BY <2>1, <2>2, <2>3, <1>5 DEF OwnInv, HandlesLive
  <1> QED
    BY <1>6, <1>7, <1>8, <1>9 DEF OwnInv

LEMMA NextOwn ==
  ASSUME MemoryInv, OwnInv, "same_id" \notin Uses, [Next]_vars
  PROVE  OwnInv'
  <1>1. CASE UNCHANGED <<streams, heap, handle, made>>
    BY <1>1 DEF OwnInv, HandlesRegistered, HandlesLive, Position
  <1>2. ASSUME NEW h \in Handle, NEW a \in Addr, NEW k \in Key, StreamCreate(h, a, k)
        PROVE  OwnInv'
    BY <1>2, CreateOwn
  <1>3. ASSUME NEW h \in Handle, Record(h) PROVE OwnInv'
    <2>1. UNCHANGED <<streams, handle, made>>
      BY <1>3 DEF Record, registry, application
    <2>2. \A a \in Addr : /\ heap'[a] # Free <=> heap[a] # Free
                         /\ heap'[a].id = heap[a].id /\ heap'[a].key = heap[a].key
      BY <1>3, RecordMemory
    <2>3. \A i \in Position : heap'[streams[i]].id = heap[streams[i]].id
      BY <2>2, PositionAddr DEF MemoryInv
    <2>4. Position' = Position
      BY <2>1 DEF Position
    <2>5. \A h2 \in Handle : handle[h2] # Null => handle[h2] \in Addr
      BY DEF MemoryInv, MemoryType
    <2>6. HandlesLive'
      BY <2>1, <2>2, <2>5 DEF OwnInv, HandlesLive
    <2> QED
      BY <2>1, <2>3, <2>4, <2>6 DEF OwnInv, HandlesRegistered
  <1>4. ASSUME NEW h \in Handle, StreamDestroy(h) PROVE OwnInv'
    BY <1>4, DestroyOwn
  <1>5. CASE RemoveAllStreams /\ DropAllHandles
    <2>1. streams' = <<>> /\ DropAllHandles
      BY <1>5 DEF RemoveAllStreams
    <2>2. Position' = {} /\ \A h \in Handle : handle'[h] = Null /\ made'[h] = Null
      BY <2>1 DEF Position, DropAllHandles
    <2> QED
      BY <2>2 DEF OwnInv, HandlesRegistered, HandlesLive
  <1>6. CASE DestroyAllStreams \/ ProviderDestroy \/ MargoFinalize
    BY <1>1, <1>5, <1>6 DEF DestroyAllStreams, ProviderDestroy, MargoFinalize,
                            FinalizeProvider, registry, application
  <1>7. CASE RegisterByDefault \/ RegisterByBedrock
    BY <1>1, <1>7 DEF RegisterByDefault, RegisterByBedrock, ProviderRegister, registry,
                      application
  <1>8. ASSUME NEW r \in Request, RequestStep(r) PROVE OwnInv'
    BY <1>1, <1>8, RequestsAreQuiet DEF Quietly, registry, application
  <1> QED
    BY <1>1, <1>2, <1>3, <1>4, <1>6, <1>7, <1>8 DEF Next, Owner, RequestStep, vars

LEMMA Ownership ==
  ASSUME "same_id" \notin Uses PROVE Spec => []OwnInv
  <1>1. Init => MemoryInv /\ OwnInv
    BY InitMemory DEF Init, OwnInv, HandlesRegistered, HandlesLive, Position
  <1>2. MemoryInv /\ OwnInv /\ [Next]_vars => MemoryInv' /\ OwnInv'
    BY NextMemory, NextOwn
  <1> QED
    BY <1>1, <1>2, PTL DEF Spec

(* If no two streams the application holds have one id, all of them are in *)
(* the hash under their ids, whatever is created and destroyed around them *)
(* (src/provider.c 133-161, 238-262).                                      *)
THEOREM HandlesFound ==
  ASSUME "same_id" \notin Uses PROVE Spec => []HandlesRegistered
  <1>1. OwnInv => HandlesRegistered
    BY DEF OwnInv
  <1> QED
    BY <1>1, Ownership, PTL

(* On the same condition no destroy frees a stream the application holds   *)
(* (src/provider.c 238-254, 338-351).                                      *)
THEOREM HandlesKept ==
  ASSUME "same_id" \notin Uses PROVE Spec => []HandlesLive
  <1>1. OwnInv => HandlesLive
    BY DEF OwnInv
  <1> QED
    BY <1>1, Ownership, PTL

----------------------------------------------------------------------------
(* The hash implements the abstract registry. *)

Entry == [elem : Addr, key : Id]

(* What the abstract registry holds when the hash holds s in the heap m.   *)
Entries(s, m) == [i \in DOMAIN s |-> [elem |-> s[i], key |-> m[s[i]].id]]

LEMMA EntriesShape ==
  ASSUME NEW s \in Seq(Addr), NEW m, \A i \in 1..Len(s) : m[s[i]].id \in Id
  PROVE  /\ Entries(s, m) \in Seq(Entry) /\ Len(Entries(s, m)) = Len(s)
         /\ DOMAIN Entries(s, m) = 1..Len(s)
         /\ \A i \in 1..Len(s) : Entries(s, m)[i] = [elem |-> s[i], key |-> m[s[i]].id]
  <1>1. Len(s) \in Nat /\ DOMAIN s = 1..Len(s) /\ \A i \in 1..Len(s) : s[i] \in Addr
    BY LenProperties
  <1>2. Entries(s, m) = [i \in 1..Len(s) |-> [elem |-> s[i], key |-> m[s[i]].id]]
    BY <1>1 DEF Entries
  <1>3. \A i \in 1..Len(s) : [elem |-> s[i], key |-> m[s[i]].id] \in Entry
    BY <1>1 DEF Entry
  <1> QED
    BY <1>1, <1>2, <1>3

LEMMA IdsOfMemory ==
  ASSUME MemoryInv
  PROVE  /\ streams \in Seq(Addr)
         /\ \A i \in 1..Len(streams) : heap[streams[i]].id \in Id
  <1>1. \A i \in Position : streams[i] \in Addr /\ heap[streams[i]] \in Stream
    BY PositionAddr DEF MemoryInv, MemoryType, RegistryConsistent
  <1> QED
    BY <1>1 DEF MemoryInv, MemoryType, Position, Stream

(* Two hashes with the same streams under the same ids.                    *)
LEMMA SameEntries ==
  ASSUME NEW s \in Seq(Addr), NEW m, NEW n, \A i \in 1..Len(s) : m[s[i]].id = n[s[i]].id
  PROVE  Entries(s, m) = Entries(s, n)
  BY LenProperties DEF Entries

LEMMA CreateEntries ==
  ASSUME MemoryInv, MemoryInv', NEW h \in Handle, NEW a \in Addr, NEW k \in Key,
         StreamCreate(h, a, k)
  PROVE  \/ UNCHANGED Entries(streams, heap)
         \/ Abstract!Add(a, IdOf[k])
  <1>1. /\ heap[a] = Free /\ AddStream(a, IdOf[k])
        /\ heap' = [heap EXCEPT ![a] = [key |-> k, id |-> IdOf[k], buffer_index |-> 0]]
    BY DEF StreamCreate
  <1>2. heap \in [Addr -> Stream \cup {Free}]
    BY DEF MemoryInv, MemoryType
  <1>3. \A i \in Position : streams[i] \in Addr /\ streams[i] # a
    BY <1>1, PositionAddr DEF MemoryInv, RegistryConsistent
  <1>4. heap'[a].id = IdOf[k] /\ \A i \in Position : heap'[streams[i]].id = heap[streams[i]].id
    BY <1>1, <1>2, <1>3
  <1>5. streams \in Seq(Addr) /\ \A i \in 1..Len(streams) : heap[streams[i]].id \in Id
    BY IdsOfMemory
  <1>6. CASE Registered(IdOf[k]) # {}
    <2>1. UNCHANGED streams
      BY <1>1, <1>6 DEF AddStream
    <2> QED
      BY <1>4, <1>5, <2>1, SameEntries DEF Position
  <1>7. CASE Registered(IdOf[k]) = {}
    <2> DEFINE E == Entries(streams, heap)
               F == Entries(streams', heap')
               x == [elem |-> a, key |-> IdOf[k]]
    <2>1. streams' = Append(streams, a)
      BY <1>1, <1>7 DEF AddStream
    <2>2. /\ streams' \in Seq(Addr)
          /\ Len(streams') = Len(streams) + 1
          /\ \A i \in 1..Len(streams) : streams'[i] = streams[i]
          /\ streams'[Len(streams) + 1] = a
      BY <2>1, AppendProperties DEF MemoryInv, MemoryType
    <2>3. /\ E \in Seq(Entry) /\ Len(E) = Len(streams) /\ DOMAIN E = 1..Len(streams)
          /\ \A i \in 1..Len(streams) :
               E[i] = [elem |-> streams[i], key |-> heap[streams[i]].id]
      BY <1>5, EntriesShape
    <2>4. \A i \in 1..Len(streams') : heap'[streams'[i]].id \in Id
      <3>1. IdOf[k] \in Id /\ Len(streams) \in Nat
        BY <1>5, ProviderAssumption
      <3> QED
        BY <3>1, <1>4, <1>5, <2>2 DEF Position
    <2>5. /\ F \in Seq(Entry) /\ Len(F) = Len(streams')
          /\ \A i \in 1..Len(streams') :
               F[i] = [elem |-> streams'[i], key |-> heap'[streams'[i]].id]
      BY <2>2, <2>4, EntriesShape
    <2>6. x \in Entry
      BY ProviderAssumption DEF Entry
    <2> HIDE DEF E, F, x
    <2>7. /\ Append(E, x) \in Seq(Entry) /\ Len(Append(E, x)) = Len(E) + 1
          /\ \A i \in 1..Len(E) : Append(E, x)[i] = E[i]
          /\ Append(E, x)[Len(E) + 1] = x
      BY <2>3, <2>6, AppendProperties
    <2>8. F = Append(E, x)
      <3>1. ASSUME NEW i \in 1..Len(streams) PROVE F[i] = Append(E, x)[i]
        <4>1. i \in 1..Len(streams') /\ i \in Position
          BY <1>5, <2>2 DEF Position
        <4>2. F[i] = [elem |-> streams[i], key |-> heap[streams[i]].id]
          BY <4>1, <1>4, <2>2, <2>5
        <4> QED
          BY <4>2, <2>3, <2>7
      <3>2. F[Len(streams) + 1] = x
        <4>1. Len(streams) + 1 \in 1..Len(streams')
          BY <1>5, <2>2
        <4> QED
          BY <4>1, <1>4, <2>2, <2>5 DEF x
      <3>3. \A i \in 1..Len(F) : F[i] = Append(E, x)[i]
        BY <1>5, <2>2, <2>3, <2>5, <2>7, <3>1, <3>2
      <3>4. Len(F) = Len(Append(E, x))
        BY <2>2, <2>3, <2>5, <2>7
      <3> QED
        BY <2>5, <2>7, <3>3, <3>4, SeqEqual
    <2>9. \A i \in DOMAIN E : E[i].key # IdOf[k] /\ E[i].elem # a
      BY <1>3, <1>7, <2>3 DEF Registered, Position
    <2> QED
      BY <2>8, <2>9 DEF Abstract!Add, Abstract!Holds, E, F, x, Entries
  <1> QED
    BY <1>6, <1>7

LEMMA RemoveEntries ==
  ASSUME MemoryInv, MemoryInv', NEW i \in Position, RemoveStream(i)
  PROVE  \E k \in Id : Abstract!RemoveKey(k)
  <1> DEFINE E == Entries(streams, heap)
             F == Entries(streams', heap')
             G == RemoveAt(E, i)
  <1>1. /\ heap' = [heap EXCEPT ![streams[i]] = Free]
        /\ streams' = RemoveAt(streams, i)
    BY DEF RemoveStream
  <1>2. /\ streams \in Seq(Addr) /\ i \in 1..Len(streams) /\ Len(streams) \in Nat
        /\ \A j \in 1..Len(streams) : heap[streams[j]].id \in Id
        /\ \A j \in 1..Len(streams) : streams[j] \in Addr
        /\ heap \in [Addr -> Stream \cup {Free}]
    BY IdsOfMemory, PositionAddr DEF Position, MemoryInv, MemoryType
  <1>3. /\ streams' \in Seq(Addr)
        /\ Len(streams') = Len(streams) - 1
        /\ \A m \in 1..(Len(streams) - 1) :
             streams'[m] = IF m < i THEN streams[m] ELSE streams[m + 1]
    <2>1. streams \in Seq(Addr) /\ i \in 1..Len(streams)
      BY <1>2
    <2>2. ASSUME NEW t, t = RemoveAt(streams, i)
          PROVE  /\ t \in Seq(Addr)
                 /\ Len(t) = Len(streams) - 1
                 /\ \A m \in 1..(Len(streams) - 1) :
                      t[m] = IF m < i THEN streams[m] ELSE streams[m + 1]
      BY ONLY <2>1, <2>2, RemoveAtProperties
    <2> QED
      BY ONLY <1>1, <2>1, <2>2
  <1>4. ASSUME NEW j \in 1..Len(streams), j # i
        PROVE  heap'[streams[j]] = heap[streams[j]]
    <2>1. streams[j] # streams[i]
      BY <1>2, <1>4 DEF MemoryInv, RegistryConsistent, Position
    <2> QED
      BY <2>1, <1>1, <1>2
  <1>5. /\ E \in Seq(Entry) /\ Len(E) = Len(streams) /\ DOMAIN E = 1..Len(streams)
        /\ \A j \in 1..Len(streams) :
             E[j] = [elem |-> streams[j], key |-> heap[streams[j]].id]
    BY <1>2, EntriesShape
  <1>6. \A m \in 1..(Len(streams) - 1) :
          heap'[streams'[m]] = heap[IF m < i THEN streams[m] ELSE streams[m + 1]]
    <2> TAKE m \in 1..(Len(streams) - 1)
    <2>1. CASE m < i
      <3>1. m \in 1..Len(streams) /\ m # i
        BY <1>2, <2>1
      <3> QED
        BY <2>1, <3>1, <1>3, <1>4
    <2>2. CASE ~(m < i)
      <3>1. m + 1 \in 1..Len(streams) /\ m + 1 # i
        BY <1>2, <2>2
      <3> QED
        BY <2>2, <3>1, <1>3, <1>4
    <2> QED
      BY <2>1, <2>2
  <1>7. \A m \in 1..Len(streams') : heap'[streams'[m]].id \in Id
    BY <1>2, <1>3, <1>6
  <1>8. /\ F \in Seq(Entry) /\ Len(F) = Len(streams')
        /\ \A m \in 1..Len(streams') :
             F[m] = [elem |-> streams'[m], key |-> heap'[streams'[m]].id]
    BY <1>3, <1>7, EntriesShape
  <1> HIDE DEF E, F
  <1>9. /\ G \in Seq(Entry) /\ Len(G) = Len(E) - 1
        /\ \A m \in 1..(Len(E) - 1) : G[m] = IF m < i THEN E[m] ELSE E[m + 1]
    <2>1. E \in Seq(Entry) /\ i \in 1..Len(E)
      BY <1>2, <1>5
    <2> QED
      BY <2>1, RemoveAtProperties
  <1> HIDE DEF G
  <1>10. \A m \in 1..Len(F) : F[m] = G[m]
    <2> TAKE m \in 1..Len(F)
    <2>1. m \in 1..(Len(streams) - 1)
      BY <1>3, <1>8
    <2>2. F[m] = [elem |-> streams'[m], key |-> heap'[streams'[m]].id]
      BY <2>1, <1>3, <1>8
    <2>3. CASE m < i
      <3>1. m \in 1..Len(streams)
        BY <1>2, <2>1
      <3> QED
        BY <2>1, <2>2, <2>3, <3>1, <1>3, <1>5, <1>6, <1>9
    <2>4. CASE ~(m < i)
      <3>1. m + 1 \in 1..Len(streams)
        BY <1>2, <2>1
      <3> QED
        BY <2>1, <2>2, <2>4, <3>1, <1>3, <1>5, <1>6, <1>9
    <2> QED
      BY <2>3, <2>4
  <1>11. Len(F) = Len(G)
    BY <1>3, <1>5, <1>8, <1>9
  <1>12. F = G
    BY <1>8, <1>9, <1>10, <1>11, SeqEqual
  <1>13. i \in DOMAIN E /\ E[i].key = heap[streams[i]].id /\ E[i].key \in Id
    BY <1>2, <1>5
  <1>14. ASSUME NEW k \in Id, k = E[i].key PROVE Abstract!RemoveKey(k)
    <2>1. i \in Abstract!Holds(k)
      BY <1>13, <1>14 DEF Abstract!Holds, E, Entries
    <2>2. Entries(streams', heap') = RemoveAt(Entries(streams, heap), i)
      BY <1>12 DEF E, F, G
    <2>3. Entries(streams', heap') = Abstract!RemoveAt(Entries(streams, heap), i)
      BY <2>2, Zenon DEF Abstract!RemoveAt, RemoveAt
    <2> QED
      BY <2>1, <2>3, Zenon DEF Abstract!RemoveKey, Entries
  <1> QED
    BY <1>13, <1>14

LEMMA ClearEntries ==
  ASSUME RemoveAllStreams PROVE Abstract!Clear
  <1>1. streams' = <<>>
    BY DEF RemoveAllStreams
  <1> QED
    BY <1>1 DEF Abstract!Clear

LEMMA RecordEntries ==
  ASSUME MemoryInv, NEW h \in Handle, Record(h)
  PROVE  UNCHANGED Entries(streams, heap)
  <1>1. UNCHANGED streams
    BY DEF Record, registry
  <1>2. streams \in Seq(Addr) /\ \A i \in 1..Len(streams) : streams[i] \in Addr
    BY PositionAddr DEF MemoryInv, MemoryType, Position
  <1>3. \A i \in 1..Len(streams) : heap'[streams[i]].id = heap[streams[i]].id
    BY <1>2, RecordMemory
  <1> QED
    BY <1>1, <1>2, <1>3, SameEntries

LEMMA NextEntries ==
  ASSUME MemoryInv, MemoryInv', [Next]_vars
  PROVE  Abstract!Next \/ UNCHANGED Entries(streams, heap)
  <1>1. CASE UNCHANGED <<streams, heap>>
    BY <1>1 DEF Entries
  <1>2. ASSUME NEW h \in Handle, NEW a \in Addr, NEW k \in Key, StreamCreate(h, a, k)
        PROVE  Abstract!Next \/ UNCHANGED Entries(streams, heap)
    <2>1. IdOf[k] \in Id
      BY ProviderAssumption
    <2> QED
      BY <1>2, <2>1, CreateEntries DEF Abstract!Next
  <1>3. ASSUME NEW h \in Handle, Record(h) PROVE UNCHANGED Entries(streams, heap)
    BY <1>3, RecordEntries
  <1>4. ASSUME NEW h \in Handle, StreamDestroy(h)
        PROVE  Abstract!Next \/ UNCHANGED Entries(streams, heap)
    <2>1. ASSUME NEW i \in Reached(handle[h]), RemoveStream(i)
          PROVE  Abstract!Next
      <3>1. i \in Position
        BY ReachedPosition
      <3> QED
        BY <2>1, <3>1, RemoveEntries DEF Abstract!Next
    <2> QED
      BY <1>1, <1>4, <2>1 DEF StreamDestroy
  <1>5. CASE RemoveAllStreams
    BY <1>5, ClearEntries DEF Abstract!Next
  <1>6. CASE DestroyAllStreams \/ ProviderDestroy \/ MargoFinalize
    BY <1>1, <1>5, <1>6
    DEF DestroyAllStreams, ProviderDestroy, MargoFinalize, FinalizeProvider, registry
  <1>7. CASE RegisterByDefault \/ RegisterByBedrock
    BY <1>1, <1>7 DEF RegisterByDefault, RegisterByBedrock, ProviderRegister, registry
  <1>8. ASSUME NEW r \in Request, RequestStep(r) PROVE UNCHANGED <<streams, heap>>
    BY <1>8, RequestsAreQuiet DEF Quietly, registry
  <1>9. CASE UNCHANGED vars
    BY <1>1, <1>9 DEF vars
  <1> QED
    BY <1>1, <1>2, <1>3, <1>4, <1>6, <1>7, <1>8, <1>9 DEF Next, Owner, RequestStep

(* Whatever the application creates, records in and destroys, and however  *)
(* ids collide and addresses are reused, the hash does what an abstract    *)
(* registry may do: it adds a stream under an id it does not hold, takes   *)
(* out the one under an id, or is emptied (src/provider.c 323-362).        *)
THEOREM HashIsARegistry == Spec => RegistrySpec
  <1> DEFINE E == Entries(streams, heap)
  <1>1. Init => Abstract!Init
    BY DEF Init, Abstract!Init
  <1>2. MemoryInv /\ MemoryInv' /\ [Next]_vars => [Abstract!Next]_E
    BY NextEntries
  <1>3. Spec => []MemoryInv
    BY Invariance, PTL DEF IInv
  <1> QED
    BY <1>1, <1>2, <1>3, PTL DEF Spec, RegistrySpec, Abstract!Spec, Entries
----------------------------------------------------------------------------
(* Which streams leave the hash. *)

(* Whatever ids collide, every stream of the hash is held.                 *)
HeldInv == \A i \in Position : \E h \in Handle : handle[h] = streams[i]

LEMMA InToSet ==
  ASSUME NEW S, NEW s \in Seq(S), NEW i \in 1..Len(s) PROVE s[i] \in ToSet(s)
  BY DEF ToSet

(* A stream is held by h and leaves through h: it is the one h reaches.    *)
LEMMA DestroyLeaves ==
  ASSUME MemoryInv, NEW h \in Handle, StreamDestroy(h), NEW j \in Position
  PROVE  \/ /\ \E m \in Position' : streams'[m] = streams[j]
            /\ handle[h] # streams[j]
         \/ /\ heap'[streams[j]] = Free
            /\ handle[h] # Null /\ handle'[h] = Null
            /\ heap[handle[h]] = Free \/ heap[handle[h]].id = heap[streams[j]].id
  <1> USE DEF MemoryInv
  <1>1. /\ handle[h] # Null /\ provider = "registered" /\ UNCHANGED lifecycle
        /\ handle' = [handle EXCEPT ![h] = Null]
    BY DEF StreamDestroy, DropHandle
  <1>2. handle'[h] = Null
    BY <1>1 DEF MemoryType
  <1>3. streams[j] \in Addr /\ heap[streams[j]] # Free
    BY PositionAddr DEF RegistryConsistent
  <1>4. handle[h] = streams[j] => j \in Reached(handle[h]) /\ Reached(handle[h]) \subseteq {j}
    BY <1>3 DEF Reached, Registered, Position, RegistryConsistent
  <1>5. CASE UNCHANGED streams /\ handle[h] # streams[j]
    BY <1>5 DEF Position
  <1>6. ASSUME NEW i \in Reached(handle[h]), RemoveStream(i), i # j
        PROVE  handle[h] # streams[j] /\ \E m \in Position' : streams'[m] = streams[j]
    <2>1. i \in Position
      BY ReachedPosition
    <2>2. \E m \in Position' : streams'[m] = streams[j]
      BY <1>1, <1>6, <2>1, RemoveMemory DEF lifecycle
    <2> QED
      BY <1>4, <1>6, <2>2
  <1>7. ASSUME j \in Reached(handle[h]), RemoveStream(j)
        PROVE  /\ heap'[streams[j]] = Free
               /\ heap[handle[h]] = Free \/ heap[handle[h]].id = heap[streams[j]].id
    BY <1>3, <1>7 DEF RemoveStream, MemoryType, Reached, Registered
  <1>8. \/ UNCHANGED streams /\ handle[h] # streams[j]
        \/ \E i \in Reached(handle[h]) : RemoveStream(i)
    BY <1>3, <1>4 DEF StreamDestroy
  <1> QED
    BY <1>1, <1>2, <1>5, <1>6, <1>7, <1>8

LEMMA NextHeld ==
  ASSUME MemoryInv, HeldInv, [Next]_vars PROVE HeldInv'
  <1> USE DEF MemoryInv
  <1>1. CASE UNCHANGED <<streams, handle>>
    BY <1>1 DEF HeldInv, Position
  <1>2. ASSUME NEW h \in Handle, NEW a \in Addr, NEW k \in Key, StreamCreate(h, a, k)
        PROVE  HeldInv'
    <2>1. /\ handle[h] = Null /\ handle' = [handle EXCEPT ![h] = a]
          /\ streams' = streams \/ streams' = Append(streams, a)
      BY <1>2 DEF StreamCreate, AddStream
    <2>2. handle'[h] = a /\ \A g \in Handle : handle[g] # Null => handle'[g] = handle[g]
      BY <2>1 DEF MemoryType
    <2>3. ASSUME NEW i \in Position PROVE \E g \in Handle : handle'[g] = streams[i]
      BY <2>2, PositionAddr, ProviderAssumption DEF HeldInv
    <2>4. CASE streams' = streams
      BY <2>3, <2>4 DEF HeldInv, Position
    <2>5. CASE streams' = Append(streams, a)
      <3>1. /\ Len(streams') = Len(streams) + 1 /\ Len(streams) \in Nat
            /\ \A i \in 1..Len(streams) : streams'[i] = streams[i]
            /\ streams'[Len(streams) + 1] = a
        BY <2>5, AppendProperties, PositionAddr DEF MemoryType
      <3>2. ASSUME NEW i \in 1..Len(streams') PROVE \E g \in Handle : handle'[g] = streams'[i]
        <4>1. CASE i \in 1..Len(streams)
          BY <4>1, <2>3, <3>1 DEF Position
        <4>2. CASE i = Len(streams) + 1
          BY <4>2, <2>2, <3>1
        <4> QED
          BY <4>1, <4>2, <3>1
      <3> QED
        BY <3>2 DEF HeldInv, Position
    <2> QED
      BY <2>1, <2>4, <2>5
  <1>3. ASSUME NEW h \in Handle, Record(h) PROVE HeldInv'
    BY <1>1, <1>3 DEF Record, registry, application
  <1>4. ASSUME NEW h \in Handle, StreamDestroy(h) PROVE HeldInv'
    <2>1. handle' = [handle EXCEPT ![h] = Null] /\ provider = "registered" /\ UNCHANGED lifecycle
      BY <1>4 DEF StreamDestroy, DropHandle
    <2>2. \A g \in Handle : g # h => handle'[g] = handle[g]
      BY <2>1 DEF MemoryType
    <2>3. ASSUME NEW j \in Position, handle[h] # streams[j]
          PROVE  \E g \in Handle : handle'[g] = streams[j]
      BY <2>2, <2>3 DEF HeldInv
    <2>4. ASSUME NEW j \in Position, handle[h] = streams[j]
          PROVE  /\ j \in Reached(handle[h]) /\ Reached(handle[h]) \subseteq {j}
                 /\ heap[handle[h]] # Free
      BY <2>4 DEF Reached, Registered, Position, RegistryConsistent
    <2>5. CASE UNCHANGED streams /\ \A j \in Position : handle[h] # streams[j]
      BY <2>3, <2>5 DEF HeldInv, Position
    <2>6. ASSUME NEW i \in Reached(handle[h]), RemoveStream(i)
          PROVE  HeldInv'
      <3>1. i \in Position
        BY ReachedPosition
      <3>2. \A m \in Position' : \E j \in Position : j # i /\ streams'[m] = streams[j]
        BY <2>1, <2>6, <3>1, RemoveMemory DEF lifecycle
      <3>3. \A j \in Position : j # i => handle[h] # streams[j]
        BY <2>4
      <3> QED
        BY <2>3, <3>2, <3>3 DEF HeldInv
    <2>7. \/ UNCHANGED streams /\ \A j \in Position : handle[h] # streams[j]
          \/ \E i \in Reached(handle[h]) : RemoveStream(i)
      BY <1>4, <2>4 DEF StreamDestroy
    <2> QED
      BY <2>5, <2>6, <2>7
  <1>5. CASE RemoveAllStreams
    <2>1. streams' = <<>>
      BY <1>5 DEF RemoveAllStreams
    <2> QED
      BY <2>1 DEF HeldInv, Position
  <1>6. CASE DestroyAllStreams \/ ProviderDestroy \/ MargoFinalize
    BY <1>1, <1>5, <1>6 DEF DestroyAllStreams, ProviderDestroy, MargoFinalize,
                            FinalizeProvider, registry, application
  <1>7. CASE RegisterByDefault \/ RegisterByBedrock
    BY <1>1, <1>7 DEF RegisterByDefault, RegisterByBedrock, ProviderRegister, registry,
                      application
  <1>8. ASSUME NEW r \in Request, RequestStep(r) PROVE HeldInv'
    BY <1>1, <1>8, RequestsAreQuiet DEF Quietly, registry, application
  <1> QED
    BY <1>1, <1>2, <1>3, <1>4, <1>6, <1>7, <1>8 DEF Next, Owner, RequestStep, vars

(* What a stream that leaves the hash leaves behind.                       *)
LEMMA NextLeaves ==
  ASSUME MemoryInv, MemoryInv', HeldInv, [Next]_vars, NEW i \in Position, streams[i] \notin ToSet(streams')
  PROVE  /\ heap'[streams[i]] = Free
         /\ \E h \in Handle :
              /\ handle[h] # Null /\ handle'[h] = Null
              /\ heap[handle[h]] = Free \/ heap[handle[h]].id = heap[streams[i]].id
  <1>0. streams \in Seq(Addr) /\ streams' \in Seq(Addr) /\ streams[i] \in Addr
    BY PositionAddr DEF MemoryInv, MemoryType
  <1>1. ASSUME NEW m \in Position', streams'[m] = streams[i] PROVE FALSE
    BY <1>0, <1>1, InToSet DEF Position
  <1>2. CASE UNCHANGED streams
    BY <1>1, <1>2 DEF Position
  <1>3. ASSUME NEW h \in Handle, NEW a \in Addr, NEW k \in Key, StreamCreate(h, a, k)
        PROVE  FALSE
    <2>1. streams' = streams \/ streams' = Append(streams, a)
      BY <1>3 DEF StreamCreate, AddStream
    <2>2. i \in 1..Len(streams') /\ streams'[i] = streams[i]
      BY <1>0, <2>1, AppendProperties, PositionAddr DEF Position, MemoryInv
    <2> QED
      BY <1>1, <2>2 DEF Position
  <1>4. ASSUME NEW h \in Handle, StreamDestroy(h)
        PROVE  /\ heap'[streams[i]] = Free
               /\ \E g \in Handle :
                    /\ handle[g] # Null /\ handle'[g] = Null
                    /\ heap[handle[g]] = Free \/ heap[handle[g]].id = heap[streams[i]].id
    BY <1>1, <1>4, DestroyLeaves
  <1>5. ASSUME RemoveAllStreams, DropAllHandles
        PROVE  /\ heap'[streams[i]] = Free
               /\ \E g \in Handle :
                    /\ handle[g] # Null /\ handle'[g] = Null
                    /\ heap[handle[g]] = Free \/ heap[handle[g]].id = heap[streams[i]].id
    <2>1. PICK g \in Handle : handle[g] = streams[i]
      BY DEF HeldInv
    <2>2. handle[g] # Null /\ handle'[g] = Null
      BY <1>0, <1>5, <2>1, ProviderAssumption DEF DropAllHandles
    <2>3. streams[i] \in ToSet(streams)
      BY <1>0, InToSet DEF Position
    <2>4. heap'[streams[i]] = Free
      BY <1>0, <1>5, <2>3 DEF RemoveAllStreams
    <2> QED
      BY <2>1, <2>2, <2>4
  <1>6. ASSUME NEW h \in Handle, Record(h) PROVE UNCHANGED streams
    BY <1>6 DEF Record, registry
  <1>7. RegisterByDefault \/ RegisterByBedrock \/ UNCHANGED vars => UNCHANGED streams
    BY DEF RegisterByDefault, RegisterByBedrock, ProviderRegister, registry, vars
  <1>8. ASSUME NEW r \in Request, RequestStep(r) PROVE UNCHANGED streams
    BY <1>8, RequestsAreQuiet DEF Quietly, registry
  <1>9. DestroyAllStreams \/ ProviderDestroy \/ MargoFinalize =>
          (RemoveAllStreams /\ DropAllHandles) \/ UNCHANGED streams
    BY DEF DestroyAllStreams, ProviderDestroy, MargoFinalize, FinalizeProvider, registry
  <1> QED
    BY <1>2, <1>3, <1>4, <1>5, <1>6, <1>7, <1>8, <1>9 DEF Next, Owner, RequestStep

(* A stream leaves the hash to be freed, because the application gave up a *)
(* handle with its id, or one that pointed to freed memory (src/provider.c *)
(* 238-262, 338-362).                                                      *)
THEOREM StreamsLeaveRightly == Spec => LeavesWithItsId
  <1>1. Init => HeldInv
    BY DEF Init, HeldInv, Position
  <1>2. IInv /\ HeldInv /\ [Next]_vars => HeldInv'
    BY NextHeld DEF IInv
  <1>3. IInv /\ IInv' /\ HeldInv /\ [Next]_vars =>
          \A i \in Position : streams[i] \notin ToSet(streams') =>
            /\ heap'[streams[i]] = Free
            /\ \E h \in Handle :
                 /\ handle[h] # Null /\ handle'[h] = Null
                 /\ heap[handle[h]] = Free \/ heap[handle[h]].id = heap[streams[i]].id
    BY NextLeaves DEF IInv
  <1> QED
    BY <1>1, <1>2, <1>3, Invariance, PTL DEF Spec, LeavesWithItsId

----------------------------------------------------------------------------
(* What it takes for the process to die. *)

(* Each use of memory that was freed or never set, and what the            *)
(* application, its clients and Mercury must do first.                     *)
CrashCause ==
  /\ crashed = "stream read after free" => "destroy" \in Uses
  /\ crashed = "stream used after free" => {"destroy", "same_id"} \subseteq Uses
  /\ crashed = "provider read after free" => {"provider_destroy", "margo_finalize"} \cap Uses # {}
  /\ crashed = "provider missing" => "provider_destroy" \in Uses
  /\ crashed = "answer to an unknown id" =>
       {"unknown_id", "destroy", "destroy_all"} \cap Uses # {}
  /\ crashed = "freed what was never set" => "mercury_fails" \in Uses

CrashType ==
  crashed \in {"no", "stream read after free", "stream used after free",
               "provider read after free", "provider missing",
               "answer to an unknown id", "freed what was never set"}

(* If streams are only created, and ids are asked for that exist, the id   *)
(* of a request is still in the hash when its handler starts.              *)
KnownInv ==
  {"unknown_id", "destroy", "destroy_all"} \cap Uses = {} =>
    \A r \in Request :
      request[r].phase = "queued" /\ request[r].rpc = "fetch" /\ provider # "destroyed" =>
        Registered(request[r].arg) # {}

(* Only the application destroys the provider while Margo runs.            *)
DestroyedInv ==
  provider = "destroyed" =>
    \/ "provider_destroy" \in Uses
    \/ "margo_finalize" \in Uses /\ margo = "finalized"

(* Only a destroy can free what the application holds, and only if ids     *)
(* collide.                                                                *)
HeldLive == \A h \in Handle : handle[h] # Null => heap[handle[h]] # Free

AliveInv ==
  /\ "same_id" \notin Uses => OwnInv
  /\ "destroy" \notin Uses => HeldLive

CrashInv == KnownInv /\ DestroyedInv /\ AliveInv /\ CrashCause /\ CrashType

(* Neither a new stream nor a new sample takes an id out of the hash.      *)
LEMMA CreateKeepsIds ==
  ASSUME MemoryInv, NEW h \in Handle, NEW a \in Addr, NEW k \in Key, StreamCreate(h, a, k),
         NEW id, Registered(id) # {}
  PROVE  Registered(id)' # {}
  <1>1. PICK i \in Position : heap[streams[i]].id = id
    BY DEF Registered, Position
  <1>2. /\ streams \in Seq(Addr) /\ i \in 1..Len(streams) /\ streams[i] \in Addr
        /\ heap[streams[i]] # Free /\ heap \in [Addr -> Stream \cup {Free}]
    BY PositionAddr DEF MemoryInv, MemoryType, RegistryConsistent, Position
  <1>3. heap[a] = Free /\ heap' = [heap EXCEPT ![a] = [key |-> k, id |-> IdOf[k], buffer_index |-> 0]]
    BY DEF StreamCreate
  <1>4. streams' = streams \/ streams' = Append(streams, a)
    BY DEF StreamCreate, AddStream
  <1>5. i \in 1..Len(streams') /\ streams'[i] = streams[i]
    BY <1>2, <1>4
  <1>6. heap'[streams[i]] = heap[streams[i]]
    BY <1>2, <1>3
  <1>7. i \in Registered(id)'
    BY <1>1, <1>5, <1>6 DEF Registered
  <1> QED
    BY <1>7

LEMMA NextKnown ==
  ASSUME MemoryInv, RequestInv, KnownInv, [Next]_vars PROVE KnownInv'
  <1> SUFFICES ASSUME {"unknown_id", "destroy", "destroy_all"} \cap Uses = {},
                      NEW r \in Request, request'[r].phase = "queued",
                      request'[r].rpc = "fetch", provider' # "destroyed"
               PROVE  Registered(request[r].arg)' # {}
    BY DEF KnownInv, Registered
  <1>1. request[r] \in RequestType /\ request \in [Request -> RequestType]
    BY DEF RequestInv
  <1>2. ASSUME UNCHANGED request, provider # "destroyed"
        PROVE  Registered(request[r].arg) # {} /\ request'[r] = request[r]
    BY <1>2 DEF KnownInv
  <1>3. CASE UNCHANGED <<request, provider, streams, heap>>
    <2>1. provider # "destroyed"
      BY <1>3
    <2> QED
      BY <1>2, <1>3, <2>1 DEF Registered
  <1>4. ASSUME NEW h \in Handle, NEW a \in Addr, NEW k \in Key, StreamCreate(h, a, k)
        PROVE  Registered(request[r].arg)' # {}
    <2>1. UNCHANGED request /\ provider = "registered"
      BY <1>4 DEF StreamCreate
    <2>2. Registered(request[r].arg)' # {}
      <3> DEFINE id == request[r].arg
      <3>1. Registered(id) # {}
        BY <1>2, <2>1
      <3> HIDE DEF id
      <3>2. \E i \in 1..Len(streams') : heap'[streams'[i]].id = id
        BY <1>4, <3>1, CreateKeepsIds DEF Registered
      <3> QED
        BY <2>1, <3>2 DEF Registered, id
    <2> QED
      BY <2>1, <2>2
  <1>5. ASSUME NEW h \in Handle, Record(h) PROVE Registered(request[r].arg)' # {}
    <2>1. UNCHANGED <<request, provider>>
      BY <1>5 DEF Record, lifecycle
    <2>2. PICK i \in Position : heap[streams[i]].id = request[r].arg
      BY <1>2, <2>1 DEF Registered, Position
    <2>3. streams' = streams /\ streams[i] \in Addr
      BY <1>5, PositionAddr DEF Record, registry, MemoryInv
    <2>4. heap'[streams[i]].id = request[r].arg
      BY <1>5, <2>2, <2>3, RecordMemory
    <2> QED
      BY <2>1, <2>3, <2>4 DEF Registered, Position
  <1>6. ASSUME NEW h \in Handle, StreamDestroy(h) PROVE FALSE
    BY <1>6 DEF StreamDestroy
  <1>7. CASE DestroyAllStreams
    BY <1>7 DEF DestroyAllStreams
  <1>8. CASE ProviderDestroy
    BY <1>8 DEF ProviderDestroy, FinalizeProvider
  <1>9. CASE MargoFinalize
    <2>1. UNCHANGED request /\ request[r].phase # "queued"
      BY <1>9 DEF MargoFinalize
    <2> QED
      BY <2>1
  <1>10. ASSUME NEW push, ProviderRegister(push) PROVE Registered(request[r].arg)' # {}
    <2>1. provider = "none" /\ UNCHANGED <<request, streams, heap>>
      BY <1>10 DEF ProviderRegister, registry
    <2> QED
      BY <1>2, <2>1 DEF Registered
  <1>11. ASSUME NEW q \in Request, RequestStep(q) PROVE Registered(request[r].arg)' # {}
    <2>1. UNCHANGED <<provider, streams, heap>>
      BY <1>11, RequestsAreQuiet DEF Quietly, lifecycle, registry
    <2>2. CASE request'[r] = request[r]
      BY <2>1, <2>2 DEF KnownInv, Registered
    <2>3. ASSUME NEW id, NEW n, SendFetch(q, id, n), q = r
          PROVE  Registered(request[r].arg)' # {}
      <3>1. request'[r].arg = id
        BY <1>1, <2>3 DEF SendFetch, Send
      <3>2. id \in Live
        BY <2>3 DEF SendFetch
      <3> QED
        BY <2>1, <3>1, <3>2 DEF Live, Registered
    <2>4. ASSUME NEW n, SendList(q, n), q = r
          PROVE  FALSE
      BY <1>1, <2>4 DEF SendList, Send, RequestType
    <2>5. ASSUME Handler(q), q = r PROVE request'[r] = request[r]
      <3>1. ASSUME NEW ret, Answer(q, ret) PROVE FALSE
        BY <1>1, <2>5, <3>1 DEF Answer, RequestType
      <3>2. ~ FetchCopy(q) /\ ~ ListReply(q)
        BY <1>1, <2>5 DEF FetchCopy, ListReply, RequestType
      <3> QED
        BY <2>5, <3>1, <3>2
        DEF Handler, HandlerProceeds, HandlerFails, HandlerWithoutProvider, FetchFault,
            FetchUnknown, FetchReply,
            FetchTransferFailed, ListFault, Die
    <2>6. ASSUME q # r PROVE request'[r] = request[r]
      BY <1>1, <1>11, <2>6
      DEF RequestStep, SendFetch, SendList, Send, Handler, HandlerProceeds, HandlerFails,
          HandlerWithoutProvider,
          FetchFault, FetchCopy, FetchUnknown, FetchReply, FetchTransferFailed, ListReply,
          ListFault, Answer, Die
    <2> QED
      BY <1>11, <2>2, <2>3, <2>4, <2>5, <2>6 DEF RequestStep
  <1> QED
    BY <1>3, <1>4, <1>5, <1>6, <1>7, <1>8, <1>9, <1>10, <1>11
       DEF Next, Owner, RequestStep, RegisterByDefault, RegisterByBedrock, vars

LEMMA NextDestroyed ==
  ASSUME DestroyedInv, [Next]_vars PROVE DestroyedInv'
  <1>1. CASE UNCHANGED lifecycle
    BY <1>1 DEF DestroyedInv, lifecycle
  <1>2. CASE ProviderDestroy
    BY <1>2 DEF ProviderDestroy, DestroyedInv
  <1>3. CASE MargoFinalize
    BY <1>3 DEF MargoFinalize, DestroyedInv
  <1>4. ASSUME NEW push, ProviderRegister(push) PROVE DestroyedInv'
    BY <1>4 DEF ProviderRegister, DestroyedInv
  <1>5. ASSUME NEW h \in Handle PROVE
           \/ \E a \in Addr, k \in Key : StreamCreate(h, a, k)
           \/ Record(h)
           \/ StreamDestroy(h)
           => UNCHANGED lifecycle
    BY DEF StreamCreate, Record, StreamDestroy
  <1>6. ASSUME NEW r \in Request, RequestStep(r) PROVE UNCHANGED lifecycle
    BY <1>6, RequestsAreQuiet DEF Quietly
  <1>7. DestroyAllStreams \/ UNCHANGED vars => UNCHANGED lifecycle
    BY DEF DestroyAllStreams, vars, lifecycle
  <1> QED
    BY <1>1, <1>2, <1>3, <1>4, <1>5, <1>6, <1>7
       DEF Next, Owner, RequestStep, RegisterByDefault, RegisterByBedrock

LEMMA NextHeldLive ==
  ASSUME MemoryInv, HeldLive, "destroy" \notin Uses, [Next]_vars PROVE HeldLive'
  <1>0. \A h \in Handle : handle[h] # Null => handle[h] \in Addr
    BY DEF MemoryInv, MemoryType
  <1>1. CASE UNCHANGED <<heap, handle>>
    BY <1>1 DEF HeldLive
  <1>2. ASSUME NEW h \in Handle, NEW a \in Addr, NEW k \in Key, StreamCreate(h, a, k)
        PROVE  HeldLive'
    <2> DEFINE x == [key |-> k, id |-> IdOf[k], buffer_index |-> 0]
    <2>1. x # Free
      <3>1. x \in Stream
        BY ProviderAssumption DEF Stream
      <3> QED
        BY <3>1, ProviderAssumption
    <2>2. heap' = [heap EXCEPT ![a] = x] /\ handle' = [handle EXCEPT ![h] = a]
      BY <1>2 DEF StreamCreate
    <2> HIDE DEF x
    <2> QED
      BY <1>0, <2>1, <2>2 DEF HeldLive, MemoryInv, MemoryType
  <1>3. ASSUME NEW h \in Handle, Record(h) PROVE HeldLive'
    <2>1. UNCHANGED handle
      BY <1>3 DEF Record, application
    <2> QED
      BY <1>0, <1>3, <2>1, RecordMemory DEF HeldLive
  <1>4. ASSUME NEW h \in Handle, StreamDestroy(h) PROVE FALSE
    BY <1>4 DEF StreamDestroy
  <1>5. CASE DropAllHandles
    BY <1>5 DEF DropAllHandles, HeldLive
  <1>6. CASE DestroyAllStreams \/ ProviderDestroy \/ MargoFinalize
    BY <1>1, <1>5, <1>6
       DEF DestroyAllStreams, ProviderDestroy, MargoFinalize, FinalizeProvider, application
  <1>7. CASE RegisterByDefault \/ RegisterByBedrock
    BY <1>1, <1>7 DEF RegisterByDefault, RegisterByBedrock, ProviderRegister, application
  <1>8. ASSUME NEW r \in Request, RequestStep(r) PROVE HeldLive'
    BY <1>1, <1>8, RequestsAreQuiet DEF Quietly, application
  <1> QED
    BY <1>1, <1>2, <1>3, <1>4, <1>6, <1>7, <1>8 DEF Next, Owner, RequestStep, vars

LEMMA NextCrash ==
  ASSUME KnownInv, DestroyedInv, AliveInv, CrashCause, CrashType, [Next]_vars
  PROVE  CrashCause' /\ CrashType'
  <1> USE DEF CrashCause, CrashType
  <1>1. CASE UNCHANGED crashed
    BY <1>1
  <1>2. ASSUME NEW h \in Handle, StreamDestroy(h) PROVE CrashCause' /\ CrashType'
    <2>1. "destroy" \in Uses /\ (crashed' = crashed \/ crashed' \in {"no", "stream read after free"})
      BY <1>2 DEF StreamDestroy
    <2> QED
      BY <2>1
  <1>3. CASE ProviderDestroy
    BY <1>3 DEF ProviderDestroy, FinalizeProvider
  <1>4. CASE MargoFinalize
    <2>1. "margo_finalize" \in Uses
          /\ (crashed' = crashed \/ crashed' \in {"no", "provider read after free"})
      BY <1>4 DEF MargoFinalize, FinalizeProvider
    <2> QED
      BY <2>1
  <1>5. ASSUME NEW r \in Request, HandlerWithoutProvider(r) PROVE CrashCause' /\ CrashType'
    BY <1>5 DEF HandlerWithoutProvider, Die, DestroyedInv, Up
  <1>6. ASSUME NEW r \in Request, FetchFault(r) PROVE CrashCause' /\ CrashType'
    BY <1>1, <1>6 DEF FetchFault, Die, Answer
  <1>7. ASSUME NEW r \in Request, FetchUnknown(r) PROVE CrashCause' /\ CrashType'
    <2>1. /\ request[r].phase = "queued" /\ request[r].rpc = "fetch" /\ provider = "registered"
          /\ Registered(request[r].arg) = {}
          /\ crashed' = crashed \/ crashed' = "answer to an unknown id"
      BY <1>7 DEF FetchUnknown, Starts, Die, Answer
    <2> QED
      BY <2>1 DEF KnownInv
  <1>8. ASSUME NEW r \in Request, FetchTransferFailed(r) PROVE CrashCause' /\ CrashType'
    <2>1. CASE UNCHANGED crashed
      BY <2>1
    <2>2. CASE provider = "destroyed" /\ crashed' = "provider read after free"
      BY <2>2 DEF DestroyedInv
    <2> QED
      BY <1>8, <2>1, <2>2 DEF FetchTransferFailed, Die, Answer
  <1>9. ASSUME NEW r \in Request,
               \/ \E n \in Count : (\E id \in Id : SendFetch(r, id, n)) \/ SendList(r, n)
               \/ FetchCopy(r) \/ FetchReply(r) \/ ListReply(r) \/ ListFault(r)
        PROVE  UNCHANGED crashed
    BY <1>9 DEF SendFetch, SendList, Send, FetchCopy, FetchReply, ListReply, ListFault, Answer
  <1>10. ASSUME NEW h \in Handle, \E a \in Addr, k \in Key : StreamCreate(h, a, k)
         PROVE  UNCHANGED crashed
    BY <1>10 DEF StreamCreate
  <1>12. ASSUME NEW h \in Handle, Record(h) PROVE CrashCause' /\ CrashType'
    <2>1. CASE handle[h] # Null /\ heap[handle[h]] = Free
      <3>1. {"destroy", "same_id"} \subseteq Uses
        BY <2>1 DEF AliveInv, OwnInv, HandlesLive, HeldLive
      <3>2. crashed' \in {"no", "stream used after free"}
        BY <1>12, <2>1 DEF Record
      <3> QED
        BY <3>1, <3>2
    <2> QED
      BY <1>1, <1>12, <2>1 DEF Record
  <1>11. DestroyAllStreams \/ RegisterByDefault \/ RegisterByBedrock \/ UNCHANGED vars
           => UNCHANGED crashed
    BY DEF DestroyAllStreams, RegisterByDefault, RegisterByBedrock, ProviderRegister, vars
  <1> HIDE DEF CrashCause, CrashType
  <1> QED
    BY <1>1, <1>2, <1>3, <1>4, <1>5, <1>6, <1>7, <1>8, <1>9, <1>10, <1>11, <1>12
       DEF Next, Owner, Handler, HandlerProceeds, HandlerFails

LEMMA CrashInvariance == Spec => []CrashInv
  <1>1. Init => CrashInv
    <2>1. Init => AliveInv
      BY DEF Init, AliveInv, HeldLive, OwnInv, HandlesRegistered, HandlesLive, Position
    <2> QED
      BY <2>1 DEF Init, Fresh, CrashInv, KnownInv, DestroyedInv, CrashCause, CrashType
  <1>2. IInv /\ AliveInv /\ [Next]_vars => AliveInv'
    BY NextOwn, NextHeldLive DEF IInv, AliveInv
  <1>3. IInv /\ CrashInv /\ [Next]_vars => CrashInv'
    BY <1>2, NextKnown, NextDestroyed, NextCrash DEF IInv, CrashInv
  <1> QED
    BY <1>1, <1>3, Invariance, PTL DEF Spec

(* The process dies of nothing but what CrashCause says: of a request that *)
(* is served late only if the application destroys its provider itself,    *)
(* never because it ends Margo; of an id that is not there only if clients *)
(* ask for ids that never were or streams are destroyed (src/provider.c    *)
(* 111-118, 163-235, 238-262).                                             *)
THEOREM CrashesNeedACause == Spec => []CrashCause
  <1>1. CrashInv => CrashCause
    BY DEF CrashInv
  <1> QED
    BY <1>1, CrashInvariance, PTL
=============================================================================
