----------------------------- MODULE Aggregator -----------------------------
(***************************************************************************)
(* A client and a provider, in two processes: the calls of the one are the *)
(* requests of the other.  A request may be served long after its call has *)
(* given up, streams and the provider may be destroyed while calls are     *)
(* under way, and a fetch writes into the memory of the client.            *)
(***************************************************************************)
EXTENDS Provider

CONSTANTS
  Remote, Requested, STREAM_BUFFER_SIZE, MaxRefs, Faults, Decoded   \* as in Client

VARIABLES
  client, num_stream_handles, warned, remote, refs, rpc, ph, fault,   \* as in Client
  seen   \* seen[r]: the right answers to the call r since it began (history)

C == INSTANCE Client WITH Rpc <- Request

(* The requests carry the counts of the calls.  A region that was never    *)
(* set may make every Mercury call fail that handles it, on both sides.    *)
ASSUME AggregatorAssumption ==
  /\ Requested \subseteq Int
  /\ STREAM_BUFFER_SIZE \in Nat \ {0}
  /\ MaxRefs \in Nat \ {0}
  /\ Faults \subseteq C!Fault
  /\ "bulk" \in Faults => "forward" \in Faults /\ "mercury_fails" \in Uses
  /\ Decoded \subseteq Int
  /\ Null \notin Id
  /\ {C!Clamp(n) : n \in Requested} \cup {n \in Requested : n >= 0} \subseteq Count

clientVars == <<client, num_stream_handles, warned, remote, refs, rpc, ph, fault>>
system == <<vars, clientVars, seen>>

AggregatorInit ==
  /\ Init
  /\ C!Init
  /\ seen = [r \in Request |-> {}]

----------------------------------------------------------------------------
(* The calls and the requests they make. *)

(* What the provider should answer the call r now: the window of the       *)
(* stream, if there is one, or the ids.                                    *)
RightAnswers(r) ==
  IF rpc[r].op = "fetch"
    THEN {Window(streams[i], rpc[r].count) : i \in Registered(rpc[r].stream_id)}
    ELSE {Listed(rpc[r].count)}

Observe ==
  seen' = [r \in Request |->
             IF rpc'[r].phase = "sent"
               THEN (IF rpc[r].phase = "sent" THEN seen[r] ELSE {}) \cup RightAnswers(r)'
               ELSE {}]

(* Mercury delivers the request of a call; if a call can fail in its wait, *)
(* it may have failed before.                                              *)
Deliver(r) ==
  /\ rpc[r].phase = "sent" \/ (rpc[r].hg = "destroyed" /\ "forward" \in Faults)
  /\ \/ rpc[r].op = "fetch" /\ SendFetch(r, rpc[r].stream_id, rpc[r].count)
     \/ rpc[r].op = "list" /\ SendList(r, rpc[r].count)
  /\ UNCHANGED clientVars

(* No provider takes the request, or its process is gone.                  *)
Undeliverable(r) == ~Up \/ (request[r].phase = "unsent" /\ provider # "registered")

(* The count of a fetch as the client decodes it: exact after success;     *)
(* otherwise the handler may have set none, nor the strings, and the       *)
(* client decodes anything, or fails to.                                   *)
FetchCounts(r) ==
  IF request[r].ret = "success"
    THEN {request[r].copy.last - request[r].copy.first + 1}
    ELSE Decoded

Return(r) ==
  /\ fault = "no"
  /\ \/ Undeliverable(r) /\ C!ForwardFails(r)
     \/ /\ request[r].phase = "answered"
        /\ \/ ("output" \in Faults \/ request[r].ret # "success") /\ C!OutputFails(r)
           \/ \E n \in FetchCounts(r) : C!FetchEnd(r, request[r].ret, n)
           \/ C!ListEnd(r, request[r].ret, Len(request[r].ids))
  /\ UNCHANGED vars

(* Mercury fails a call in its wait, whatever becomes of its request.      *)
GiveUp(r) ==
  /\ fault = "no"
  /\ "forward" \in Faults
  /\ C!ForwardFails(r)
  /\ UNCHANGED vars

HandlerStep(r) == Handler(r) /\ UNCHANGED clientVars

AggregatorNext ==
  /\ \/ C!Application /\ UNCHANGED vars
     \/ Owner /\ UNCHANGED clientVars
     \/ \E r \in Request : Deliver(r) \/ HandlerStep(r) \/ Return(r) \/ GiveUp(r)
  /\ Observe

AggregatorSpec == AggregatorInit /\ [][AggregatorNext]_system

(* Margo runs the handlers, and Mercury delivers every request and every   *)
(* answer, or refuses the request; it need not fail a call or a handler.   *)
AggregatorFairSpec ==
  /\ AggregatorSpec
  /\ \A r \in Request :
       /\ WF_system(Deliver(r) /\ Observe)
       /\ WF_system(HandlerProceeds(r) /\ UNCHANGED clientVars /\ Observe)
       /\ WF_system(Return(r) /\ Observe)

----------------------------------------------------------------------------
(* Properties. *)

(* A call that succeeds returns what was right at one moment between its   *)
(* beginning and its end: the latest samples of the stream then registered *)
(* under the id of its handle, or the ids then registered, and as many as  *)
(* it says.  Streams may be recorded in, destroyed, and created again, and *)
(* the handle released, while it waits.  A fetch whose region              *)
(* margo_bulk_create did not make, unnoticed, is promised nothing.         *)
AnswersOfTheCall ==
  [][\A r \in Request :
       (/\ rpc[r].phase = "sent" /\ rpc[r].region # "unset"
        /\ rpc'[r].phase = "returned" /\ rpc'[r].ret = "success") =>
         IF rpc[r].op = "fetch"
           THEN /\ request[r].copy \in seen[r]
                /\ rpc'[r].got = request[r].copy.last - request[r].copy.first + 1
           ELSE /\ request[r].ids \in seen[r]
                /\ rpc'[r].got = Len(request[r].ids)]_system

(* The provider writes samples only into a region that the client has not  *)
(* freed: a fetch that failed in its wait may be served afterwards.  Unless *)
(* margo_bulk_create may fail, the region is still registered.             *)
TransferTargetLive ==
  \A r \in Request : request[r].phase = "transfer" => rpc[r].region \in C!NewRegions

(* Every call returns while both processes live, also when the provider is *)
(* registered late or destroyed meanwhile.                                 *)
CallsAnswered ==
  \A r \in Request :
    (rpc[r].phase = "sent") ~> (rpc[r].phase = "returned" \/ ~Up \/ fault # "no")
=============================================================================
