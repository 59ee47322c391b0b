------------------------------ MODULE Provider ------------------------------
(***************************************************************************)
(* A provider: its life from registration to margo_finalize, its hash of   *)
(* streams, the heap they live in, the calls of the application that owns  *)
(* it (create, record, destroy, destroy all, destroy the provider) and the *)
(* two RPC handlers that read it, all of src/provider.c.                   *)
(*                                                                         *)
(* Everything runs on one Argobots execution stream, the one margo_init    *)
(* makes in bin/server.c: a call or a handler runs until it blocks, so a   *)
(* handler is cut where it waits for Mercury (margo_bulk_transfer,         *)
(* margo_respond) and nowhere else.  Where the code reads memory that was  *)
(* freed or never written, the process may die or go on: both are steps.   *)
(***************************************************************************)
EXTENDS Integers, Sequences, SequencesExt

CONSTANTS
  Handle,      \* the aggregator_stream_t variables of the application
  Addr,        \* the addresses calloc may return for a stream
  Key,         \* what a stream is created from: a namespace, a name and tags
  Id,          \* the stream ids
  IdOf,        \* IdOf[k]: the id the library computes from k
  Request,     \* the RPCs clients send
  Count,       \* the counts a request may carry
  MaxSamples,  \* bound: the samples recorded in one stream
  Uses,        \* what the environment does: a subset of Use below
  Free, Null   \* an address that holds nothing; no address

Use == {"destroy",           \* streams are destroyed one by one
        "destroy_all",       \* or all together
        "provider_destroy",  \* the provider is destroyed
        "no_callback",       \* it is registered as the Bedrock module does
        "margo_finalize",    \* the application ends Margo
        "same_id",           \* two live streams are created with one id
        "unknown_id",        \* a fetch may name an id nobody created
        "mercury_fails"}     \* a Mercury call may return an error

(* An aggregator_stream, its buffer reduced to the number of samples.      *)
Stream == [key : Key, id : Id, buffer_index : 0..MaxSamples]

ASSUME ProviderAssumption ==
  /\ IdOf \in [Key -> Id]
  /\ Count \subseteq Nat
  /\ MaxSamples \in Nat
  /\ Uses \subseteq Use
  /\ Null \notin Addr
  /\ Null \notin Key
  /\ Free \notin Stream

VARIABLES
  provider,     \* "none", "registered", or "destroyed" and its memory freed
  pushed,       \* the push_finalize_callback it was registered with: 0 or 1
  callbacks,    \* how many finalize callbacks Margo holds for the provider
  finalized,    \* how often aggregator_finalize_provider was called (history)
  margo,        \* "running", or "finalized" by margo_finalize
  streams,      \* provider->streams: the addresses in the hash, oldest first
  num_streams,  \* provider->num_streams
  heap,         \* heap[a]: the aggregator_stream at a, or Free
  handle,       \* handle[h]: the stream the application holds in h, or Null
  made,         \* made[h]: the key h was created from (history)
  request,      \* request[r]: the state of an RPC
  crashed       \* why the process died, "no" while it lives

vars == <<provider, pushed, callbacks, finalized, margo, streams, num_streams, heap,
          handle, made, request, crashed>>
lifecycle == <<provider, pushed, callbacks, finalized, margo>>
registry == <<streams, num_streams>>
application == <<handle, made>>

NoCopy == [key |-> Null, first |-> 1, last |-> 0]

Fresh == [phase |-> "unsent", rpc |-> "none", arg |-> Null, count |-> 0,
          copy |-> NoCopy, ids |-> <<>>, ret |-> "none"]

Init ==
  /\ provider = "none"
  /\ pushed = 0
  /\ callbacks = 0
  /\ finalized = 0
  /\ margo = "running"
  /\ streams = <<>>
  /\ num_streams = 0
  /\ heap = [a \in Addr |-> Free]
  /\ handle = [h \in Handle |-> Null]
  /\ made = [h \in Handle |-> Null]
  /\ request = [r \in Request |-> Fresh]
  /\ crashed = "no"

Up == crashed = "no" /\ margo = "running"

----------------------------------------------------------------------------
(* The hash of streams. *)

Registered(id) == {i \in 1..Len(streams) : heap[streams[i]].id = id}

(* Mutant: the hash is not searched for the id first.                      *)
AddStreamUnchecked(a, id) ==
  /\ streams' = Append(streams, a)
  /\ num_streams' = num_streams + 1

(* add_stream: an id that is already there is left alone, and the error is *)
(* not looked at by the caller.                                            *)
AddStream(a, id) ==
  IF Registered(id) = {}
    THEN /\ streams' = Append(streams, a)
         /\ num_streams' = num_streams + 1
    ELSE UNCHANGED <<streams, num_streams>>

(* Mutant: the oldest stream is unlinked, not the one freed.               *)
RemoveStreamUnlinkFirst(i) ==
  /\ heap' = [heap EXCEPT ![streams[i]] = Free]
  /\ streams' = Tail(streams)
  /\ num_streams' = num_streams - 1

(* Mutant: the oldest stream is freed, not the one unlinked.               *)
RemoveStreamFreeFirst(i) ==
  /\ heap' = [heap EXCEPT ![Head(streams)] = Free]
  /\ streams' = RemoveAt(streams, i)
  /\ num_streams' = num_streams - 1

(* remove_stream: unlinks and frees the stream at position i.              *)
RemoveStream(i) ==
  /\ heap' = [heap EXCEPT ![streams[i]] = Free]
  /\ streams' = RemoveAt(streams, i)
  /\ num_streams' = num_streams - 1

(* Mutant: the hash is emptied and the count is not reset.                 *)
RemoveAllStreamsKeepCount ==
  /\ heap' = [a \in Addr |-> IF a \in ToSet(streams) THEN Free ELSE heap[a]]
  /\ streams' = <<>>
  /\ UNCHANGED num_streams

RemoveAllStreams ==
  /\ heap' = [a \in Addr |-> IF a \in ToSet(streams) THEN Free ELSE heap[a]]
  /\ streams' = <<>>
  /\ num_streams' = 0

----------------------------------------------------------------------------
(* The application. *)

Held(id) == {h \in Handle : made[h] \in Key /\ IdOf[made[h]] = id}

(* aggregator_provider_stream_create returns AGGREGATOR_SUCCESS and the    *)
(* new stream whether or not the hash took it.                             *)
StreamCreate(h, a, k) ==
  /\ Up
  /\ provider = "registered"
  /\ handle[h] = Null
  /\ heap[a] = Free
  /\ Held(IdOf[k]) = {} \/ "same_id" \in Uses
  /\ heap' = [heap EXCEPT ![a] = [key |-> k, id |-> IdOf[k], buffer_index |-> 0]]
  /\ AddStream(a, IdOf[k])
  /\ handle' = [handle EXCEPT ![h] = a]
  /\ made' = [made EXCEPT ![h] = k]
  /\ UNCHANGED <<lifecycle, request, crashed>>

(* The application records through a handle it has not destroyed.  If the  *)
(* stream was freed all the same, under another handle with its id, the    *)
(* update goes to freed memory; if the address was given out again, to the *)
(* stream that lives there now.                                            *)
Record(h) ==
  /\ Up
  /\ handle[h] # Null
  /\ \/ /\ heap[handle[h]] # Free
        /\ heap[handle[h]].buffer_index < MaxSamples
        /\ heap' = [heap EXCEPT ![handle[h]].buffer_index = @ + 1]
        /\ UNCHANGED crashed
     \/ /\ heap[handle[h]] = Free
        /\ crashed' \in {"no", "stream used after free"}
        /\ UNCHANGED heap
  /\ UNCHANGED <<lifecycle, registry, application, request>>

DropHandle(h) ==
  /\ handle' = [handle EXCEPT ![h] = Null]
  /\ made' = [made EXCEPT ![h] = Null]

(* The streams that the id found at a may lead to.                         *)
Reached(a) == IF heap[a] = Free THEN 1..Len(streams) ELSE Registered(heap[a].id)

(* The stream destroyed is the one the hash has under the id of h, and     *)
(* that id may be read from freed memory.  Its structure is freed first    *)
(* and its mutex and buffer are read from it afterwards.                   *)
StreamDestroy(h) ==
  /\ Up
  /\ "destroy" \in Uses
  /\ handle[h] # Null
  /\ provider = "registered"
  /\ \/ /\ heap[handle[h]] # Free
        /\ Reached(handle[h]) = {}
        /\ UNCHANGED <<streams, num_streams, heap, crashed>>
     \/ /\ heap[handle[h]] = Free
        /\ crashed' \in {"no", "stream read after free"}
        /\ UNCHANGED <<streams, num_streams, heap>>
     \/ \E i \in Reached(handle[h]) :
          /\ RemoveStream(i)
          /\ crashed' \in {"no", "stream read after free"}
  /\ DropHandle(h)
  /\ UNCHANGED <<lifecycle, request>>

DropAllHandles ==
  /\ handle' = [h \in Handle |-> Null]
  /\ made' = [h \in Handle |-> Null]

DestroyAllStreams ==
  /\ Up
  /\ "destroy_all" \in Uses
  /\ provider = "registered"
  /\ RemoveAllStreams
  /\ DropAllHandles
  /\ UNCHANGED <<lifecycle, request, crashed>>

(* aggregator_finalize_provider frees the provider, then logs with         *)
(* provider->mid.                                                          *)
FinalizeProvider ==
  /\ finalized' = finalized + 1
  /\ provider' = "destroyed"
  /\ RemoveAllStreams
  /\ DropAllHandles
  /\ crashed' \in {"no", "provider read after free"}

(* Mutant: the finalize callback is left with Margo.                       *)
ProviderDestroyNoPop ==
  /\ Up
  /\ "provider_destroy" \in Uses
  /\ provider = "registered"
  /\ FinalizeProvider
  /\ UNCHANGED <<pushed, callbacks, margo, request>>

ProviderDestroy ==
  /\ Up
  /\ "provider_destroy" \in Uses
  /\ provider = "registered"
  /\ callbacks' = 0
  /\ FinalizeProvider
  /\ UNCHANGED <<pushed, margo, request>>

----------------------------------------------------------------------------
(* The life of the provider. *)

(* One provider per process; a second registration under its id is refused *)
(* before it has changed anything.                                         *)
ProviderRegister(push) ==
  /\ Up
  /\ provider = "none"
  /\ provider' = "registered"
  /\ pushed' = push
  /\ callbacks' = push
  /\ UNCHANGED <<finalized, margo, registry, heap, application, request, crashed>>

(* The arguments of AGGREGATOR_PROVIDER_ARGS_INIT, or none.                *)
RegisterByDefault == ProviderRegister(1)

(* The Bedrock module zeroes its arguments.                                *)
RegisterByBedrock == "no_callback" \in Uses /\ ProviderRegister(0)

(* margo_finalize waits for the handlers and runs the callbacks it holds.  *)
MargoFinalize ==
  /\ Up
  /\ "margo_finalize" \in Uses
  /\ \A r \in Request : request[r].phase \in {"unsent", "answered"}
  /\ margo' = "finalized"
  /\ callbacks' = 0
  /\ \/ callbacks > 0 /\ FinalizeProvider
     \/ callbacks = 0 /\ UNCHANGED <<provider, finalized, registry, heap, application, crashed>>
  /\ UNCHANGED <<pushed, request>>

----------------------------------------------------------------------------
(* The RPCs. *)

Live == {heap[streams[i]].id : i \in 1..Len(streams)}

(* What the RPCs change is their own state and, at worst, the life of the  *)
(* process.                                                                *)
Quietly == UNCHANGED <<lifecycle, registry, heap, application>>

Answer(r, ret) ==
  /\ request' = [request EXCEPT ![r].phase = "answered", ![r].ret = ret]
  /\ Quietly
  /\ UNCHANGED crashed

Die(why) ==
  /\ crashed' = why
  /\ Quietly
  /\ UNCHANGED request

(* A request reaches a registered RPC and Margo makes a ULT for it.        *)
Send(r, rpc, arg, n) ==
  /\ Up
  /\ request[r].phase = "unsent"
  /\ provider = "registered"
  /\ request' = [request EXCEPT ![r].phase = "queued", ![r].rpc = rpc,
                                ![r].arg = arg, ![r].count = n]
  /\ Quietly
  /\ UNCHANGED crashed

SendFetch(r, id, n) ==
  /\ id \in Live \/ "unknown_id" \in Uses
  /\ Send(r, "fetch", id, n)

SendList(r, n) == Send(r, "list", Null, n)

(* A handler starts and finds its provider.                                *)
Starts(r, rpc) ==
  /\ Up
  /\ request[r].phase = "queued"
  /\ request[r].rpc = rpc
  /\ provider = "registered"

(* The RPC was deregistered after the request was queued:                  *)
(* margo_registered_data returns no provider and the handler uses it.      *)
HandlerWithoutProvider(r) ==
  /\ Up
  /\ request[r].phase = "queued"
  /\ provider = "destroyed"
  /\ Die("provider missing")

(* margo_get_input fails in a fetch: b and local_bulk are freed although   *)
(* they were never set; margo_bulk_create fails: local_bulk only.          *)
FetchFault(r) ==
  /\ "mercury_fails" \in Uses
  /\ Starts(r, "fetch")
  /\ Die("freed what was never set") \/ Answer(r, "mercury")

Smaller(m, n) == IF m < n THEN m ELSE n

(* Mutant: the copy starts at the beginning of the buffer.                 *)
WindowOldest(a, n) ==
  [key |-> heap[a].key, first |-> 1, last |-> Smaller(heap[a].buffer_index, n)]

(* The latest n samples of the stream at a, by their positions.            *)
Window(a, n) ==
  [key |-> heap[a].key,
   first |-> heap[a].buffer_index - Smaller(heap[a].buffer_index, n) + 1,
   last |-> heap[a].buffer_index]

(* Mutant: whatever the id, the oldest stream is copied.                   *)
FetchCopyFirst(r) ==
  /\ Starts(r, "fetch")
  /\ streams # <<>>
  /\ request' = [request EXCEPT ![r].phase = "transfer",
                                ![r].copy = Window(Head(streams), request[r].count)]
  /\ Quietly
  /\ UNCHANGED crashed

(* aggregator_stream_fetch_ult up to margo_bulk_transfer.                  *)
FetchCopy(r) ==
  /\ Starts(r, "fetch")
  /\ \E i \in Registered(request[r].arg) :
       request' = [request EXCEPT ![r].phase = "transfer",
                                  ![r].copy = Window(streams[i], request[r].count)]
  /\ Quietly
  /\ UNCHANGED crashed

(* The id is not in the hash: out.name and out.ns are encoded although     *)
(* they were never set.                                                    *)
FetchUnknown(r) ==
  /\ Starts(r, "fetch")
  /\ Registered(request[r].arg) = {}
  /\ Die("answer to an unknown id") \/ Answer(r, "invalid_stream")

(* Mutant: a handler whose stream was destroyed meanwhile does not respond.*)
FetchReplyIfStillThere(r) ==
  /\ Up
  /\ request[r].phase = "transfer"
  /\ Registered(request[r].arg) # {}
  /\ Answer(r, "success")

(* The transfer is over and the handler responds.                          *)
FetchReply(r) ==
  /\ Up
  /\ request[r].phase = "transfer"
  /\ Answer(r, "success")

(* The transfer failed: the handler logs with provider->mid.               *)
FetchTransferFailed(r) ==
  /\ "mercury_fails" \in Uses
  /\ Up
  /\ request[r].phase = "transfer"
  /\ \/ Answer(r, "mercury")
     \/ provider = "destroyed" /\ Die("provider read after free")

(* Mutant: the loop over the hash does not advance.                        *)
ListedNotAdvancing(n) == [i \in 1..Smaller(num_streams, n) |-> heap[Head(streams)].id]

(* Mutant: the addresses of the streams are sent for their ids.            *)
ListedAddresses(n) == [i \in 1..Smaller(num_streams, n) |-> streams[i]]

(* The first ids of the hash, as many as the client has asked for.         *)
Listed(n) == [i \in 1..Smaller(num_streams, n) |-> heap[streams[i]].id]

(* aggregator_list_streams_ult: nothing in it waits before the response.   *)
ListReply(r) ==
  /\ Starts(r, "list")
  /\ request' = [request EXCEPT ![r].phase = "answered", ![r].ret = "success",
                                ![r].ids = Listed(request[r].count)]
  /\ Quietly
  /\ UNCHANGED crashed

(* margo_get_input fails: the handler responds without a look at provider. *)
ListFault(r) ==
  /\ "mercury_fails" \in Uses
  /\ Up
  /\ request[r].phase = "queued"
  /\ request[r].rpc = "list"
  /\ Answer(r, "mercury")

----------------------------------------------------------------------------
HandlerProceeds(r) ==
  \/ HandlerWithoutProvider(r)
  \/ FetchCopy(r)
  \/ FetchUnknown(r)
  \/ FetchReply(r)
  \/ ListReply(r)

HandlerFails(r) ==
  \/ FetchFault(r)
  \/ FetchTransferFailed(r)
  \/ ListFault(r)

Handler(r) == HandlerProceeds(r) \/ HandlerFails(r)

(* The process that owns the provider.                                     *)
Owner ==
  \/ RegisterByDefault
  \/ RegisterByBedrock
  \/ MargoFinalize
  \/ \E h \in Handle :
        \/ \E a \in Addr, k \in Key : StreamCreate(h, a, k)
        \/ Record(h)
        \/ StreamDestroy(h)
  \/ DestroyAllStreams
  \/ ProviderDestroy

Next ==
  \/ Owner
  \/ \E r \in Request :
        \/ \E n \in Count :
             \/ \E id \in Id : SendFetch(r, id, n)
             \/ SendList(r, n)
        \/ Handler(r)

Spec == Init /\ [][Next]_vars

(* Margo runs every handler ULT it made, and Mercury ends every transfer,  *)
(* with success unless it fails.  It need not fail.                        *)
FairSpec == Spec /\ \A r \in Request : WF_vars(HandlerProceeds(r))

----------------------------------------------------------------------------
(* Properties. *)

Position == 1..Len(streams)

TypeOK ==
  /\ provider \in {"none", "registered", "destroyed"}
  /\ pushed \in {0, 1}
  /\ callbacks \in {0, 1}
  /\ finalized \in Nat
  /\ margo \in {"running", "finalized"}
  /\ streams \in Seq(Addr)
  /\ num_streams \in Int
  /\ heap \in [Addr -> Stream \cup {Free}]
  /\ handle \in [Handle -> Addr \cup {Null}]
  /\ made \in [Handle -> Key \cup {Null}]
  /\ request \in [Request ->
       [phase : {"unsent", "queued", "transfer", "answered"},
        rpc : {"none", "fetch", "list"},
        arg : Id \cup {Null},
        count : Nat,
        copy : [key : Key \cup {Null}, first : Int, last : Int],
        ids : Seq(Id),
        ret : {"none", "success", "invalid_stream", "mercury"}]]

(* The hash holds live streams, one per id, and num_streams, with which    *)
(* the list handler sizes its array, is how many there are: also when ids  *)
(* collide, when addresses are reused and when the destroy of one stream   *)
(* hits another.                                                           *)
RegistryConsistent ==
  /\ num_streams = Len(streams)
  /\ \A i \in Position : heap[streams[i]] # Free
  /\ \A i, j \in Position : heap[streams[i]].id = heap[streams[j]].id => i = j
  /\ provider # "registered" => streams = <<>>

(* The provider is finalized once at most, by the application or by Margo, *)
(* and if it was registered with push_finalize_callback it has been when   *)
(* margo_finalize returns.                                                 *)
FinalizedOnce ==
  /\ finalized <= 1
  /\ margo = "finalized" /\ pushed = 1 => finalized = 1

(* Every stream the application has created and not destroyed is in the    *)
(* hash under its id, so that clients can fetch it.  It needs ids that     *)
(* differ: the error of add_stream is not returned.                        *)
HandlesRegistered ==
  \A h \in Handle : handle[h] # Null =>
    \E i \in Position : streams[i] = handle[h] /\ heap[streams[i]].id = IdOf[made[h]]

(* Every stream the application has created and not destroyed is still the *)
(* one it created: destroying one stream frees no other.  It too needs ids *)
(* that differ: the stream destroyed is looked up by its id.               *)
HandlesLive ==
  \A h \in Handle : handle[h] # Null =>
    heap[handle[h]] # Free /\ heap[handle[h]].key = made[h]

(* The samples a fetch hands out were, when its handler copied them, the   *)
(* latest ones of the stream with the id asked for, as many as asked for   *)
(* or all there were; they are sent as they were copied, also when that    *)
(* stream is destroyed, or another put at its address, during the transfer.*)
FetchAnswersItsId ==
  [][\A r \in Request :
       /\ request[r].phase # "transfer" /\ request'[r].phase = "transfer" =>
            \E i \in Position :
               LET stream == heap[streams[i]]
                   c == request'[r].copy
                   n == c.last - c.first + 1
               IN /\ stream.id = request[r].arg
                  /\ c.key = stream.key
                  /\ c.first >= 1 /\ c.last = stream.buffer_index
                  /\ n \in 0..request[r].count
                  /\ n < request[r].count => c.first = 1
       /\ request[r].rpc = "fetch" /\ request[r].ret # "success"
          /\ request'[r].ret = "success" =>
            request[r].phase = "transfer" /\ request'[r].copy = request[r].copy]_vars

(* A list holds ids of streams that are in the hash when it is answered,   *)
(* each once and no more than were asked for, and leaves one out only if   *)
(* it is full.                                                             *)
ListWithinMax ==
  [][\A r \in Request :
       (request[r].rpc = "list" /\ request[r].ret # "success" /\ request'[r].ret = "success") =>
         LET ids == request'[r].ids IN
         /\ Len(ids) <= request[r].count
         /\ \A i, j \in 1..Len(ids) : ids[i] = ids[j] => i = j
         /\ ToSet(ids) \subseteq Live
         /\ Len(ids) < request[r].count => Live \subseteq ToSet(ids)]_vars

(* A stream leaves the hash only to be freed, and only because the         *)
(* application gives up a handle to a stream with its id: no other stream  *)
(* is taken for it.  A handle whose stream was freed already, under        *)
(* another handle with the same id, may cost any stream.                   *)
LeavesWithItsId ==
  [][\A i \in Position : streams[i] \notin ToSet(streams') =>
       /\ heap'[streams[i]] = Free
       /\ \E h \in Handle :
            /\ handle[h] # Null /\ handle'[h] = Null
            /\ heap[handle[h]] = Free \/ heap[handle[h]].id = heap[streams[i]].id]_vars

(* A fetch of an id that no stream has is answered with                    *)
(* AGGREGATOR_ERR_INVALID_STREAM.                                          *)
UnknownIdRefused == crashed # "answer to an unknown id"

(* The hash of the provider implements the abstract registry: also with    *)
(* ids that collide, every step adds one stream, last and under an id that *)
(* is not there, takes one out and leaves the others in their order, or    *)
(* empties the hash.  Which stream is taken out LeavesWithItsId says.      *)
Abstract ==
  INSTANCE Registry WITH
    Elem <- Addr, Key <- Id,
    streams <- [i \in DOMAIN streams |-> [elem |-> streams[i], key |-> heap[streams[i]].id]]

RegistrySpec == Abstract!Spec

(* Every request Margo has accepted is answered while the process lives.   *)
Answered ==
  \A r \in Request :
    (request[r].phase = "queued") ~> (request[r].phase = "answered" \/ ~Up)
=============================================================================
