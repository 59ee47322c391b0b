------------------------------- MODULE Client -------------------------------
(***************************************************************************)
(* A client: the aggregator_client, the reference-counted handles of       *)
(* remote streams, the two calls that send RPCs (src/client.c, from        *)
(* aggregator_client_init on) and the provider handle of the Bedrock       *)
(* module.                                                                 *)
(*                                                                         *)
(* The threads of the application share one execution stream, so a call is *)
(* cut where it waits, in margo_provider_forward, and nowhere else.  What  *)
(* the server answers is any answer; Aggregator puts the provider there.   *)
(***************************************************************************)
EXTENDS Integers, FiniteSets

CONSTANTS
  Remote,              \* the addresses calloc may return for a stream handle
  Id,                  \* the stream ids
  Rpc,                 \* the calls of remote_stream_fetch and remote_list_streams
  Requested,           \* the counts the application passes to them
  STREAM_BUFFER_SIZE,
  MaxRefs,             \* bound: the references to one handle
  Faults,              \* the Mercury calls that may fail: a subset of Fault below
  Decoded,             \* the numbers an int64_t that was never set may hold
  Null                 \* no id

Fault == {"bulk",      \* margo_bulk_create
          "create",    \* margo_create
          "forward",   \* margo_provider_forward
          "output"}    \* margo_get_output

(* A region that was never set may make margo_provider_forward fail, which *)
(* encodes it.                                                             *)
ASSUME ClientAssumption ==
  /\ Requested \subseteq Int
  /\ STREAM_BUFFER_SIZE \in Nat \ {0}
  /\ MaxRefs \in Nat \ {0}
  /\ Faults \subseteq Fault
  /\ "bulk" \in Faults => "forward" \in Faults
  /\ Decoded \subseteq Int
  /\ Null \notin Id

VARIABLES
  client,              \* "none", "live", or "freed" by client_finalize
  num_stream_handles,  \* client->num_stream_handles
  warned,              \* 1 once client_finalize has found handles not released
  remote,              \* remote[a]: the aggregator_stream_handle at a, or NoRemote
  refs,                \* refs[a]: the references the application has to it (history)
  rpc,                 \* rpc[r]: the state of a call, its RPC handle and its region
  ph,                  \* the Bedrock provider handle: "none", "live" or "freed"
  fault                \* the first use of memory that was freed or never set, or "no"

vars == <<client, num_stream_handles, warned, remote, refs, rpc, ph, fault>>
handles == <<client, num_stream_handles, warned, remote, refs>>

NoRemote == [stream_id |-> Null, refcount |-> 0]

Unused == [phase |-> "unused", op |-> "none", stream_id |-> Null, count |-> 0,
           hg |-> "none", region |-> "none", ret |-> "none", got |-> 0]

Init ==
  /\ client = "none"
  /\ num_stream_handles = 0
  /\ warned = 0
  /\ remote = [a \in Remote |-> NoRemote]
  /\ refs = [a \in Remote |-> 0]
  /\ rpc = [r \in Rpc |-> Unused]
  /\ ph = "none"
  /\ fault = "no"

(* The process goes on, or it does not, after a use it should not make.    *)
MayFault(why) == fault' \in {"no", why}

(* The client is read through a handle that may have outlived it.          *)
ReadClient == IF client = "live" THEN UNCHANGED fault ELSE MayFault("client used after free")

----------------------------------------------------------------------------
(* The client and its handles. *)

ClientInit ==
  /\ client = "none"
  /\ client' = "live"
  /\ num_stream_handles' = 0
  /\ UNCHANGED <<warned, remote, refs, rpc, ph, fault>>

(* The handles that are left are warned about and keep their pointers.     *)
ClientFinalize ==
  /\ client = "live"
  /\ client' = "freed"
  /\ warned' = IF num_stream_handles # 0 THEN 1 ELSE warned
  /\ UNCHANGED <<num_stream_handles, remote, refs, rpc, ph, fault>>

(* If the address cannot be duplicated nothing is left of the handle.      *)
HandleCreate(a, id) ==
  /\ client = "live"
  /\ remote[a] = NoRemote
  /\ remote' = [remote EXCEPT ![a] = [stream_id |-> id, refcount |-> 1]]
  /\ num_stream_handles' = num_stream_handles + 1
  /\ refs' = [refs EXCEPT ![a] = 1]
  /\ UNCHANGED <<client, warned, rpc, ph, fault>>

RefIncr(a) ==
  /\ refs[a] \in 1..(MaxRefs - 1)
  /\ remote' = [remote EXCEPT ![a].refcount = @ + 1]
  /\ refs' = [refs EXCEPT ![a] = @ + 1]
  /\ UNCHANGED <<client, num_stream_handles, warned, rpc, ph, fault>>

(* Mutant: the client counts every release, not every handle.              *)
ReleaseCountsEach(a) ==
  /\ refs[a] > 0
  /\ refs' = [refs EXCEPT ![a] = @ - 1]
  /\ remote' = [remote EXCEPT ![a] = IF @.refcount = 1 THEN NoRemote
                                     ELSE [@ EXCEPT !.refcount = @ - 1]]
  /\ num_stream_handles' = num_stream_handles - 1
  /\ ReadClient
  /\ UNCHANGED <<client, warned, rpc, ph>>

(* Mutant: the handle is freed with its first release.                     *)
ReleaseFrees(a) ==
  /\ refs[a] > 0
  /\ refs' = [refs EXCEPT ![a] = @ - 1]
  /\ remote' = [remote EXCEPT ![a] = NoRemote]
  /\ num_stream_handles' = num_stream_handles - 1
  /\ ReadClient
  /\ UNCHANGED <<client, warned, rpc, ph>>

(* The last release counts and frees through the client of the handle.     *)
Release(a) ==
  /\ refs[a] > 0
  /\ refs' = [refs EXCEPT ![a] = @ - 1]
  /\ IF remote[a].refcount = 1
       THEN /\ remote' = [remote EXCEPT ![a] = NoRemote]
            /\ num_stream_handles' =
                 IF client = "live" THEN num_stream_handles - 1 ELSE num_stream_handles
            /\ ReadClient
       ELSE /\ remote' = [remote EXCEPT ![a].refcount = @ - 1]
            /\ UNCHANGED <<num_stream_handles, fault>>
  /\ UNCHANGED <<client, warned, rpc, ph>>

(* The Bedrock module copies the client's address and forgets its mid,     *)
ProviderHandleCreate ==
  /\ client = "live"
  /\ ph = "none"
  /\ ph' = "live"
  /\ UNCHANGED <<handles, rpc, fault>>

(* with which the address is to be freed.                                  *)
ProviderHandleDestroy ==
  /\ ph = "live"
  /\ ph' = "freed"
  /\ MayFault("mid never set")
  /\ UNCHANGED <<handles, rpc>>

----------------------------------------------------------------------------
(* The calls. *)

(* margo_create makes the RPC handle, or fails and the call returns.       *)
Start(r, call) ==
  /\ rpc[r].phase = "unused"
  /\ \/ rpc' = [rpc EXCEPT ![r] = [call EXCEPT !.phase = "sent", !.hg = "open"]]
     \/ /\ "create" \in Faults
        /\ rpc' = [rpc EXCEPT ![r] = [call EXCEPT !.phase = "returned", !.ret = "mercury"]]
  /\ UNCHANGED <<handles, ph>>

(* The call r, in its wait, returns.                                       *)
Return(r, ret, n, region) ==
  /\ rpc[r].phase = "sent"
  /\ rpc' = [rpc EXCEPT ![r].phase = "returned", ![r].ret = ret, ![r].got = n,
                        ![r].hg = "destroyed", ![r].region = region]
  /\ UNCHANGED <<handles, ph>>

(* Mutant: a negative count is passed on.                                  *)
ClampAboveOnly(n) == IF n >= STREAM_BUFFER_SIZE THEN STREAM_BUFFER_SIZE ELSE n

Clamp(n) ==
  IF n >= STREAM_BUFFER_SIZE \/ n < 0 THEN STREAM_BUFFER_SIZE ELSE n

(* What margo_bulk_create leaves in local_bulk: its result is not looked   *)
(* at.                                                                     *)
NewRegions == {"registered"} \cup {region \in {"unset"} : "bulk" \in Faults}

(* aggregator_remote_stream_fetch up to its wait.  The id is copied; the   *)
(* handle is not looked at again.  A region that was never set is encoded  *)
(* all the same.                                                           *)
FetchBegin(r, a, n) ==
  /\ refs[a] > 0
  /\ \E region \in NewRegions :
       /\ Start(r, [Unused EXCEPT !.op = "fetch", !.stream_id = remote[a].stream_id,
                                  !.count = Clamp(n), !.region = region])
       /\ ReadClient \/ (region = "unset" /\ MayFault("region never set"))

ListBegin(r, n) ==
  /\ client = "live"
  /\ n >= 0
  /\ Start(r, [Unused EXCEPT !.op = "list", !.count = n])
  /\ UNCHANGED fault

(* Mutant: the region is freed although the server may still write to it.  *)
ForwardFailsFreesRegion(r) ==
  /\ Return(r, "mercury", 0, IF rpc[r].region = "none" THEN "none" ELSE "freed")
  /\ UNCHANGED fault

(* margo_provider_forward fails: the region stays registered.              *)
ForwardFails(r) ==
  /\ Return(r, "mercury", 0, rpc[r].region)
  /\ UNCHANGED fault

(* margo_get_output fails, and a fetch frees what was not decoded.         *)
OutputFails(r) ==
  /\ Return(r, "mercury", 0, rpc[r].region)
  /\ IF rpc[r].op = "fetch" THEN MayFault("freed what was not decoded") ELSE UNCHANGED fault

(* Mutant: the early return of an error skips the clean-up.                *)
FetchEndErrorEarly(r, ret, n) ==
  /\ rpc[r].op = "fetch"
  /\ Return(r, ret, n, IF ret = "success" THEN "freed" ELSE "registered")
  /\ IF ret = "success" THEN UNCHANGED fault ELSE MayFault("name never set")

(* The count and the strings are taken from the answer whatever its ret:   *)
(* after an error they are what the server has never set.  A region that   *)
(* was never set is freed too.                                             *)
FetchEnd(r, ret, n) ==
  /\ rpc[r].op = "fetch"
  /\ Return(r, ret, n, IF rpc[r].region = "unset" THEN "unset" ELSE "freed")
  /\ \/ UNCHANGED fault
     \/ ret # "success" /\ MayFault("name never set")
     \/ rpc[r].region = "unset" /\ MayFault("region never set")

ListEnd(r, ret, n) ==
  /\ rpc[r].op = "list"
  /\ Return(r, ret, IF ret = "success" THEN n ELSE 0, "none")
  /\ UNCHANGED fault

----------------------------------------------------------------------------
(* What the application does. *)
Application ==
  /\ fault = "no"
  /\ \/ ClientInit
     \/ ClientFinalize
     \/ \E a \in Remote :
          \/ \E id \in Id : HandleCreate(a, id)
          \/ RefIncr(a)
          \/ Release(a)
          \/ \E r \in Rpc, n \in Requested : FetchBegin(r, a, n)
     \/ \E r \in Rpc, n \in Requested : ListBegin(r, n)

(* What Bedrock does.                                                      *)
Bedrock ==
  /\ fault = "no"
  /\ ProviderHandleCreate \/ ProviderHandleDestroy

(* What any server and network may do.                                     *)
Server(r) ==
  /\ fault = "no"
  /\ \/ "forward" \in Faults /\ ForwardFails(r)
     \/ "output" \in Faults /\ OutputFails(r)
     \/ \E ret \in {"success", "invalid_stream", "mercury"} :
          \/ \E n \in 0..rpc[r].count : FetchEnd(r, ret, n) \/ ListEnd(r, ret, n)
          \/ \E n \in Decoded : ret # "success" /\ FetchEnd(r, ret, n)

Next == Application \/ Bedrock \/ \E r \in Rpc : Server(r)

Spec == Init /\ [][Next]_vars

----------------------------------------------------------------------------
(* Properties. *)

TypeOK ==
  /\ client \in {"none", "live", "freed"}
  /\ num_stream_handles \in Nat
  /\ warned \in {0, 1}
  /\ remote \in [Remote -> [stream_id : Id \cup {Null}, refcount : Nat]]
  /\ refs \in [Remote -> Nat]
  /\ rpc \in [Rpc -> [phase : {"unused", "sent", "returned"},
                      op : {"none", "fetch", "list"},
                      stream_id : Id \cup {Null},
                      count : Nat,
                      hg : {"none", "open", "destroyed"},
                      region : {"none", "registered", "unset", "freed"},
                      ret : {"none", "success", "invalid_stream", "mercury"},
                      got : Int]]
  /\ ph \in {"none", "live", "freed"}
  /\ fault \in {"no", "client used after free", "mid never set", "region never set",
                "freed what was not decoded", "name never set"}

(* A handle is allocated as long as somebody has a reference to it and no  *)
(* longer, and the client counts the handles that are: also when several   *)
(* threads share handles and addresses are reused.                         *)
HandleWhileHeld ==
  /\ \A a \in Remote : remote[a].refcount = refs[a]
  /\ client = "live" =>
       num_stream_handles = Cardinality({a \in Remote : refs[a] > 0})

(* A client is used after it was freed only if client_finalize has warned  *)
(* of handles that were not released.                                      *)
WarnedBeforeStaleUse == fault = "client used after free" => warned = 1

(* A call that is over has given back its RPC handle, and its region       *)
(* unless it failed before the answer was decoded; a call that waits has   *)
(* them both, whatever became of the stream handle and the client, but for *)
(* the region that margo_bulk_create did not make.                         *)
CallsGiveBack ==
  \A r \in Rpc :
    /\ rpc[r].hg = "open" <=> rpc[r].phase = "sent"
    /\ (rpc[r].phase = "sent" /\ rpc[r].op = "fetch") => rpc[r].region \in NewRegions
    /\ (rpc[r].phase = "returned" /\ rpc[r].region = "registered") => rpc[r].ret = "mercury"
=============================================================================
