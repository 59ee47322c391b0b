-------------------------- MODULE AggregatorProofs --------------------------
(***************************************************************************)
(* What holds of a client and a provider that call each other, for any     *)
(* number of streams, handles and calls and whichever Mercury calls fail:  *)
(* the provider in this system is the provider that ProviderProofs is      *)
(* about, it writes only into memory the client still lends it, and a call *)
(* that succeeds returns what was right at one moment of it.               *)
(***************************************************************************)
EXTENDS Aggregator, ProviderProofs

(* The client against any server and network: every Mercury call may fail, *)
(* and what was never set may hold any number.                             *)
CP == INSTANCE ClientProofs WITH Rpc <- Request, Faults <- C!Fault, Decoded <- Int

CallType ==
  [phase : {"unused", "sent", "returned"},
   op : {"none", "fetch", "list"},
   stream_id : Id \cup {Null},
   count : Nat,
   hg : {"none", "open", "destroyed"},
   region : {"none", "registered", "unset", "freed"},
   ret : {"none", "success", "invalid_stream", "mercury"},
   got : Int]

(* A handle that somebody holds has its id.                                *)
HandleInv ==
  /\ remote \in [Remote -> [stream_id : Id \cup {Null}, refcount : Nat]]
  /\ refs \in [Remote -> Nat]
  /\ \A a \in Remote : remote[a].refcount = refs[a]
  /\ \A a \in Remote : refs[a] > 0 => remote[a].stream_id \in Id

(* A call c that has been made carries what a request may carry, and has a *)
(* region but where margo_bulk_create may fail.                            *)
GoodCall(c) ==
  /\ c.phase = "unused" => c.hg = "none"
  /\ c.phase = "sent" => c.hg = "open"
  /\ c.phase # "unused" => c.count \in Count /\ c.op \in {"fetch", "list"}
  /\ c.phase # "unused" /\ c.op = "fetch" => c.stream_id \in Id
  /\ c.region = "unset" => "bulk" \in Faults

CallInv ==
  /\ rpc \in [Request -> CallType]
  /\ \A r \in Request : GoodCall(rpc[r])

(* The request q is the one of the call c: made once the RPC handle of the *)
(* call was, with the words of the call; and until it is answered the      *)
(* region of a fetch stays as it was made.                                 *)
Matches(q, c) ==
  /\ q.phase # "unsent" => /\ c.hg # "none" /\ q.rpc = c.op /\ q.count = c.count
                           /\ c.op = "fetch" => q.arg = c.stream_id
  /\ c.op = "fetch" /\ c.hg # "none" /\ q.phase # "answered" => c.region \in {"registered", "unset"}

(* What the handler has for a call that waits was right since it began.    *)
Observed(q, c, answers) ==
  c.phase = "sent" =>
    /\ c.op = "fetch" /\ (q.phase = "transfer" \/ q.ret = "success") => q.copy \in answers
    /\ c.op = "list" /\ q.ret = "success" => q.ids \in answers

PairInv ==
  \A r \in Request : Matches(request[r], rpc[r]) /\ Observed(request[r], rpc[r], seen[r])

SystemInv == IInv /\ HandleInv /\ CallInv /\ PairInv

----------------------------------------------------------------------------
(* The handles. *)

LEMMA ApplicationHandles ==
  ASSUME HandleInv, C!Application PROVE HandleInv'
  <1>1. CASE UNCHANGED <<remote, refs>>
    BY <1>1 DEF HandleInv
  <1>2. ASSUME NEW a \in Remote, NEW id \in Id, C!HandleCreate(a, id)
        PROVE  HandleInv'
    BY <1>2 DEF C!HandleCreate, HandleInv
  <1>3. ASSUME NEW a \in Remote, C!RefIncr(a)
        PROVE  HandleInv'
    <2>1. refs[a] > 0
      BY <1>3, AggregatorAssumption DEF C!RefIncr, HandleInv
    <2> QED
      BY <1>3, <2>1 DEF C!RefIncr, HandleInv
  <1>4. ASSUME NEW a \in Remote, C!Release(a)
        PROVE  HandleInv'
    <2>1. refs' = [refs EXCEPT ![a] = @ - 1] /\ refs[a] > 0 /\ refs[a] \in Nat
      BY <1>4 DEF C!Release, HandleInv
    <2>2. CASE refs[a] = 1
      <3>1. remote' = [remote EXCEPT ![a] = [stream_id |-> Null, refcount |-> 0]]
        BY <1>4, <2>2 DEF C!Release, C!NoRemote, HandleInv
      <3> QED
        BY <2>1, <2>2, <3>1 DEF HandleInv
    <2>3. CASE refs[a] # 1
      <3>1. remote' = [remote EXCEPT ![a].refcount = @ - 1]
        BY <1>4, <2>3 DEF C!Release, HandleInv
      <3> QED
        BY <2>1, <2>3, <3>1 DEF HandleInv
    <2> QED
      BY <2>2, <2>3
  <1> QED
    BY <1>1, <1>2, <1>3, <1>4
    DEF C!Application, C!ClientInit, C!ClientFinalize, C!FetchBegin, C!ListBegin, C!Start,
        C!handles

----------------------------------------------------------------------------
(* The calls. *)

SetCall(r, c) == rpc' = [rpc EXCEPT ![r] = c]

(* The call r begins as c.                                                 *)
Begins(r, c) ==
  /\ rpc[r].phase = "unused"
  /\ \/ c.phase = "sent" /\ c.hg = "open"
     \/ c.phase = "returned" /\ c.hg = "none" /\ c.ret = "mercury"
  /\ c.op = "fetch" => c.region \in {"registered", "unset"}

(* The call r, in its wait, ends as c.                                     *)
Ends(r, c) ==
  /\ rpc[r].phase = "sent"
  /\ c.phase = "returned" /\ c.hg = "destroyed"
  /\ c.op = rpc[r].op /\ c.stream_id = rpc[r].stream_id /\ c.count = rpc[r].count
  /\ c.region = rpc[r].region \/ request[r].phase = "answered"

LEMMA StartBegins ==
  ASSUME NEW r \in Request, NEW call \in CallType, call.hg = "none",
         call.count \in Count, call.op \in {"fetch", "list"},
         call.op = "fetch" => call.region \in C!NewRegions /\ call.stream_id \in Id,
         call.op = "list" => call.region = "none",
         C!Start(r, call)
  PROVE  \E c \in CallType : GoodCall(c) /\ Begins(r, c) /\ SetCall(r, c)
  <1> DEFINE s == [call EXCEPT !.phase = "sent", !.hg = "open"]
             f == [call EXCEPT !.phase = "returned", !.ret = "mercury"]
  <1>1. rpc[r].phase = "unused" /\ (SetCall(r, s) \/ SetCall(r, f))
    BY DEF C!Start, SetCall
  <1>2. s \in CallType /\ GoodCall(s) /\ f \in CallType /\ GoodCall(f)
    BY DEF CallType, GoodCall, C!NewRegions
  <1>3. Begins(r, s) /\ Begins(r, f)
    BY <1>1 DEF CallType, Begins, C!NewRegions
  <1> QED
    BY <1>1, <1>2, <1>3

(* The words of a call before it begins.                                   *)
LEMMA UnusedCall ==
  C!Unused \in CallType /\ C!Unused.hg = "none"
  BY DEF C!Unused, CallType

LEMMA ApplicationCalls ==
  ASSUME HandleInv, C!Application
  PROVE  \/ UNCHANGED rpc
         \/ \E r \in Request, c \in CallType : GoodCall(c) /\ Begins(r, c) /\ SetCall(r, c)
  <1>1. ASSUME NEW a \in Remote, NEW r \in Request, NEW n \in Requested, C!FetchBegin(r, a, n)
        PROVE  \E c \in CallType : GoodCall(c) /\ Begins(r, c) /\ SetCall(r, c)
    <2> DEFINE Sent(region) ==
                 [C!Unused EXCEPT !.op = "fetch", !.stream_id = remote[a].stream_id,
                                  !.count = C!Clamp(n), !.region = region]
    <2>1. C!Clamp(n) \in Count /\ C!Clamp(n) \in Nat
      BY AggregatorAssumption, ProviderAssumption
    <2>2. remote[a].stream_id \in Id
      BY <1>1 DEF C!FetchBegin, HandleInv
    <2>3. PICK region \in C!NewRegions : C!Start(r, Sent(region))
      BY <1>1 DEF C!FetchBegin
    <2> DEFINE call == Sent(region)
    <2>4. call \in CallType /\ call.hg = "none" /\ call.count \in Count
          /\ call.op = "fetch" /\ call.region \in C!NewRegions /\ call.stream_id \in Id
      BY <2>1, <2>2, UnusedCall DEF CallType, C!NewRegions
    <2> HIDE DEF call
    <2>5. C!Start(r, call)
      BY <2>3 DEF call
    <2> QED
      BY <2>4, <2>5, StartBegins
  <1>2. ASSUME NEW r \in Request, NEW n \in Requested, C!ListBegin(r, n)
        PROVE  \E c \in CallType : GoodCall(c) /\ Begins(r, c) /\ SetCall(r, c)
    <2> DEFINE call == [C!Unused EXCEPT !.op = "list", !.count = n]
    <2>1. n \in Count /\ n \in Nat
      BY <1>2, AggregatorAssumption, ProviderAssumption DEF C!ListBegin
    <2>2. call \in CallType /\ call.hg = "none" /\ call.count \in Count /\ call.op = "list"
          /\ call.region = "none"
      BY <2>1, UnusedCall DEF CallType, C!Unused
    <2>3. C!Start(r, call)
      BY <1>2 DEF C!ListBegin
    <2> HIDE DEF call
    <2> QED
      BY <2>2, <2>3, StartBegins
  <1> QED
    BY <1>1, <1>2
    DEF C!Application, C!ClientInit, C!ClientFinalize, C!HandleCreate, C!RefIncr, C!Release

LEMMA ReturnEnds ==
  ASSUME CallInv, NEW r \in Request, NEW ret \in {"success", "invalid_stream", "mercury"},
         NEW n \in Int, NEW region \in {"none", "registered", "unset", "freed"},
         region = rpc[r].region \/ request[r].phase = "answered",
         region = "unset" => region = rpc[r].region,
         C!Return(r, ret, n, region)
  PROVE  \E c \in CallType : /\ GoodCall(c) /\ Ends(r, c) /\ SetCall(r, c)
                             /\ c.ret = ret /\ c.got = n
  <1> DEFINE c == [rpc[r] EXCEPT !.phase = "returned", !.ret = ret, !.got = n,
                                 !.hg = "destroyed", !.region = region]
  <1>1. rpc[r] \in CallType /\ GoodCall(rpc[r]) /\ rpc[r].phase = "sent"
    BY DEF CallInv, C!Return
  <1>2. c \in CallType /\ GoodCall(c) /\ c.ret = ret /\ c.got = n
    BY <1>1 DEF CallType, GoodCall
  <1>3. SetCall(r, c)
    BY DEF C!Return, SetCall
  <1>4. Ends(r, c)
    BY <1>1 DEF CallType, Ends
  <1> QED
    BY <1>2, <1>3, <1>4

(* One call changes to a call that is good.                                *)
LEMMA OneCall ==
  ASSUME CallInv, NEW r \in Request, NEW c \in CallType, GoodCall(c), SetCall(r, c)
  PROVE  /\ CallInv' /\ rpc'[r] = c
         /\ \A s \in Request : s # r => rpc'[s] = rpc[s]
  BY DEF CallInv, SetCall

(* An answer of the server ends a call, and leaves its region alone unless *)
(* the request was answered.                                               *)
LEMMA ServerEnds ==
  ASSUME CallInv, RequestInv, NEW r \in Request, Return(r) \/ GiveUp(r)
  PROVE  \E c \in CallType : GoodCall(c) /\ Ends(r, c) /\ SetCall(r, c)
  <1>1. /\ rpc[r] \in CallType /\ rpc[r].count \in Nat
        /\ rpc[r].region \in {"none", "registered", "unset", "freed"}
        /\ request[r] \in RequestType
    BY DEF CallInv, CallType, RequestInv
  <1>2. ASSUME C!Return(r, "mercury", 0, rpc[r].region)
        PROVE  \E c \in CallType : GoodCall(c) /\ Ends(r, c) /\ SetCall(r, c)
    BY <1>1, <1>2, ReturnEnds
  <1>3. ASSUME request[r].phase = "answered", NEW n \in Int,
               C!FetchEnd(r, request[r].ret, n) \/ C!ListEnd(r, request[r].ret, n)
        PROVE  \E c \in CallType : GoodCall(c) /\ Ends(r, c) /\ SetCall(r, c)
    <2> DEFINE ret == request[r].ret
               got == IF ret = "success" THEN n ELSE 0
               region == IF rpc[r].region = "unset" THEN "unset" ELSE "freed"
    <2>1. ret \in {"success", "invalid_stream", "mercury"}
      BY <1>1, <1>3 DEF RequestType, RequestInv, GoodRequest
    <2>2. C!Return(r, ret, n, region) \/ C!Return(r, ret, got, "none")
      BY <1>3 DEF C!FetchEnd, C!ListEnd
    <2>3. got \in Int /\ region \in {"unset", "freed"}
          /\ (region = "unset" => region = rpc[r].region)
      OBVIOUS
    <2> HIDE DEF ret, got, region
    <2> QED
      BY <1>3, <2>1, <2>2, <2>3, ReturnEnds DEF ret
  <1>4. FetchCounts(r) \subseteq Int /\ Len(request[r].ids) \in Int
    <2>1. /\ request[r].copy.last - request[r].copy.first + 1 \in Int
          /\ Len(request[r].ids) \in Int
      BY <1>1 DEF RequestType
    <2> QED
      BY <2>1, AggregatorAssumption DEF FetchCounts
  <1>5. CASE C!ForwardFails(r) \/ C!OutputFails(r)
    BY <1>2, <1>5 DEF C!ForwardFails, C!OutputFails
  <1> QED
    BY <1>3, <1>4, <1>5 DEF Return, GiveUp

----------------------------------------------------------------------------
(* The requests. *)

(* What a handler's step does to its request.                              *)
LEMMA HandlerEffect ==
  ASSUME RequestInv, NEW r \in Request, Handler(r)
  PROVE  /\ \A s \in Request : s # r => request'[s] = request[s]
         /\ request'[r].rpc = request[r].rpc /\ request'[r].arg = request[r].arg
         /\ request'[r].count = request[r].count
         /\ request[r].phase \in {"queued", "transfer"} /\ request'[r].phase # "unsent"
         /\ request[r].rpc = "fetch" /\ (request'[r].phase = "transfer" \/ request'[r].ret = "success") =>
              \/ request[r].phase = "transfer" /\ request'[r].copy = request[r].copy
              \/ \E i \in Registered(request[r].arg) :
                   request'[r].copy = Window(streams[i], request[r].count)
         /\ request[r].rpc = "list" /\ request'[r].ret = "success" =>
              request'[r].ids = Listed(request[r].count)
  <1>1. /\ request \in [Request -> RequestType]
        /\ request[r] \in RequestType /\ GoodRequest(request[r])
    BY DEF RequestInv
  <1>2. CASE UNCHANGED request /\ request[r].phase = "queued"
    BY <1>1, <1>2 DEF GoodRequest
  <1>3. ASSUME NEW ret \in {"mercury", "invalid_stream"}, Answer(r, ret),
               request[r].phase \in {"queued", "transfer"}
        PROVE  /\ \A s \in Request : s # r => request'[s] = request[s]
               /\ request'[r].rpc = request[r].rpc /\ request'[r].arg = request[r].arg
               /\ request'[r].count = request[r].count
               /\ request'[r].phase = "answered" /\ request'[r].ret = ret
    BY <1>1, <1>3 DEF Answer, RequestType
  <1>4. CASE HandlerWithoutProvider(r)
    BY <1>2, <1>4 DEF HandlerWithoutProvider, Die
  <1>5. CASE FetchFault(r) \/ FetchUnknown(r) \/ FetchTransferFailed(r) \/ ListFault(r)
    <2>1. request[r].phase \in {"queued", "transfer"}
      BY <1>5 DEF FetchFault, FetchUnknown, FetchTransferFailed, ListFault, Starts
    <2>2. \/ Answer(r, "mercury") \/ Answer(r, "invalid_stream")
          \/ UNCHANGED request
      BY <1>5 DEF FetchFault, FetchUnknown, FetchTransferFailed, ListFault, Die
    <2>3. CASE UNCHANGED request
      BY <1>1, <2>1, <2>3 DEF GoodRequest
    <2> QED
      BY <1>3, <2>1, <2>2, <2>3
  <1>6. CASE FetchCopy(r)
    <2>1. PICK i \in Registered(request[r].arg) :
            request' = [request EXCEPT ![r].phase = "transfer",
                                       ![r].copy = Window(streams[i], request[r].count)]
      BY <1>6 DEF FetchCopy
    <2>2. request[r].phase = "queued" /\ request[r].rpc = "fetch"
      BY <1>6 DEF FetchCopy, Starts
    <2>3. /\ \A s \in Request : s # r => request'[s] = request[s]
          /\ request'[r].rpc = request[r].rpc /\ request'[r].arg = request[r].arg
          /\ request'[r].count = request[r].count /\ request'[r].phase = "transfer"
          /\ request'[r].copy = Window(streams[i], request[r].count)
      BY <1>1, <2>1 DEF RequestType
    <2> QED
      BY <2>2, <2>3
  <1>7. CASE FetchReply(r)
    <2>1. request[r].phase = "transfer" /\ request[r].rpc = "fetch"
      BY <1>1, <1>7 DEF FetchReply, GoodRequest
    <2>2. /\ \A s \in Request : s # r => request'[s] = request[s]
          /\ request'[r].rpc = request[r].rpc /\ request'[r].arg = request[r].arg
          /\ request'[r].count = request[r].count /\ request'[r].phase = "answered"
          /\ request'[r].copy = request[r].copy
      BY <1>1, <1>7 DEF FetchReply, Answer, RequestType
    <2> QED
      BY <2>1, <2>2
  <1>8. CASE ListReply(r)
    <2>1. /\ request[r].phase = "queued" /\ request[r].rpc = "list"
          /\ request' = [request EXCEPT ![r].phase = "answered", ![r].ret = "success",
                                        ![r].ids = Listed(request[r].count)]
      BY <1>8 DEF ListReply, Starts
    <2>2. /\ \A s \in Request : s # r => request'[s] = request[s]
          /\ request'[r].rpc = request[r].rpc /\ request'[r].arg = request[r].arg
          /\ request'[r].count = request[r].count /\ request'[r].phase = "answered"
          /\ request'[r].ids = Listed(request[r].count)
      BY <1>1, <2>1 DEF RequestType
    <2> QED
      BY <2>1, <2>2
  <1> QED
    BY <1>4, <1>5, <1>6, <1>7, <1>8 DEF Handler, HandlerProceeds, HandlerFails

(* What the delivery of a request does to it.                              *)
LEMMA DeliverEffect ==
  ASSUME RequestInv, CallInv, NEW r \in Request, Deliver(r)
  PROVE  /\ \A s \in Request : s # r => request'[s] = request[s]
         /\ request'[r].phase = "queued" /\ request'[r].ret = "none"
         /\ request'[r].rpc = rpc[r].op /\ request'[r].count = rpc[r].count
         /\ rpc[r].op = "fetch" => request'[r].arg = rpc[r].stream_id
         /\ rpc[r].hg # "none" /\ request[r].phase = "unsent"
  <1>1. /\ request \in [Request -> RequestType]
        /\ request[r] \in RequestType /\ GoodRequest(request[r]) /\ GoodCall(rpc[r])
    BY DEF RequestInv, CallInv
  <1>2. rpc[r].hg # "none"
    BY <1>1 DEF Deliver, GoodCall
  <1>3. ASSUME NEW op, NEW arg, Send(r, op, arg, rpc[r].count)
        PROVE  /\ \A s \in Request : s # r => request'[s] = request[s]
               /\ request'[r].phase = "queued" /\ request'[r].ret = "none"
               /\ request'[r].rpc = op /\ request'[r].count = rpc[r].count
               /\ request'[r].arg = arg /\ request[r].phase = "unsent"
    BY <1>1, <1>3 DEF Send, RequestType, GoodRequest
  <1>4. \/ rpc[r].op = "fetch" /\ Send(r, "fetch", rpc[r].stream_id, rpc[r].count)
        \/ rpc[r].op = "list" /\ Send(r, "list", Null, rpc[r].count)
    BY DEF Deliver, SendFetch, SendList
  <1> QED
    BY <1>2, <1>3, <1>4

(* The delivery is a step of the provider: its counts and ids are such as  *)
(* requests may carry.                                                     *)
LEMMA DeliverIsSend ==
  ASSUME CallInv, NEW r \in Request, Deliver(r) PROVE Next
  <1>1. GoodCall(rpc[r])
    BY DEF CallInv
  <1>2. rpc[r].count \in Count /\ (rpc[r].op = "fetch" => rpc[r].stream_id \in Id)
    BY <1>1 DEF Deliver, GoodCall
  <1> QED
    BY <1>2 DEF Deliver, Next

----------------------------------------------------------------------------
(* Every step of the system is a step of the provider, or none of it.      *)
LEMMA StepOfProvider ==
  ASSUME CallInv, AggregatorNext PROVE [Next]_vars
  BY DeliverIsSend DEF AggregatorNext, HandlerStep, Return, GiveUp, Next

(* What the calls of a step are.                                           *)
LEMMA StepOfCalls ==
  ASSUME HandleInv, CallInv, RequestInv, AggregatorNext
  PROVE  \/ UNCHANGED rpc
         \/ \E r \in Request, c \in CallType :
              /\ GoodCall(c) /\ SetCall(r, c) /\ UNCHANGED vars
              /\ Begins(r, c) \/ Ends(r, c)
  <1>1. CASE C!Application /\ UNCHANGED vars
    BY <1>1, ApplicationCalls
  <1>2. ASSUME NEW r \in Request, Return(r) \/ GiveUp(r)
        PROVE  \E c \in CallType : /\ GoodCall(c) /\ SetCall(r, c) /\ UNCHANGED vars
                                   /\ Ends(r, c)
    <2>1. UNCHANGED vars
      BY <1>2 DEF Return, GiveUp
    <2> QED
      BY <1>2, <2>1, ServerEnds
  <1>3. CASE UNCHANGED clientVars
    BY <1>3 DEF clientVars
  <1> QED
    BY <1>1, <1>2, <1>3 DEF AggregatorNext, Deliver, HandlerStep

(* The right answers of a call that goes on are kept, and those of the new *)
(* state are added.                                                        *)
LEMMA SeenGrows ==
  ASSUME Observe, NEW r \in Request, rpc'[r].phase = "sent"
  PROVE  /\ RightAnswers(r)' \subseteq seen'[r]
         /\ rpc[r].phase = "sent" => seen[r] \subseteq seen'[r]
  BY DEF Observe

LEMMA PairKept ==
  ASSUME Observe, NEW r \in Request, UNCHANGED <<request[r], rpc[r]>>,
         Matches(request[r], rpc[r]), Observed(request[r], rpc[r], seen[r])
  PROVE  Matches(request'[r], rpc'[r]) /\ Observed(request'[r], rpc'[r], seen'[r])
  <1>1. rpc[r].phase = "sent" => seen[r] \subseteq seen'[r]
    BY SeenGrows
  <1> QED
    BY <1>1 DEF Matches, Observed

(* A call begins or ends.                                                  *)
LEMMA PairCall ==
  ASSUME RequestInv, CallInv, PairInv, Observe, UNCHANGED vars,
         NEW r \in Request, NEW c \in CallType, GoodCall(c), SetCall(r, c),
         Begins(r, c) \/ Ends(r, c)
  PROVE  PairInv'
  <1>1. UNCHANGED request
    BY DEF vars
  <1>2. /\ rpc'[r] = c
        /\ \A s \in Request : s # r => rpc'[s] = rpc[s]
    BY OneCall
  <1>3. GoodCall(rpc[r]) /\ GoodRequest(request[r]) /\ Matches(request[r], rpc[r])
    BY DEF CallInv, RequestInv, PairInv
  <1>4. CASE Begins(r, c)
    <2>1. request[r].phase = "unsent" /\ request[r].ret = "none"
      BY <1>3, <1>4 DEF Begins, GoodCall, GoodRequest, Matches
    <2> QED
      BY <1>1, <1>2, <1>4, <2>1, PairKept DEF PairInv, Begins, Matches, Observed
  <1>5. CASE Ends(r, c)
    <2>1. Matches(request[r], c)
      BY <1>3, <1>5 DEF Ends, GoodCall, Matches
    <2>2. c.phase # "sent"
      BY <1>5 DEF Ends
    <2> QED
      BY <1>1, <1>2, <2>1, <2>2, PairKept DEF PairInv, Observed
  <1> QED
    BY <1>4, <1>5

(* A request is delivered.                                                 *)
LEMMA PairDeliver ==
  ASSUME RequestInv, CallInv, PairInv, Observe, NEW r \in Request, Deliver(r)
  PROVE  PairInv'
  <1>1. UNCHANGED rpc
    BY DEF Deliver, clientVars
  <1>2. /\ \A s \in Request : s # r => request'[s] = request[s]
        /\ request'[r].phase = "queued" /\ request'[r].ret = "none"
        /\ request'[r].rpc = rpc[r].op /\ request'[r].count = rpc[r].count
        /\ rpc[r].op = "fetch" => request'[r].arg = rpc[r].stream_id
        /\ rpc[r].hg # "none" /\ request[r].phase = "unsent"
    BY DeliverEffect
  <1>3. Matches(request[r], rpc[r])
    BY DEF PairInv
  <1>4. Matches(request'[r], rpc[r]) /\ Observed(request'[r], rpc[r], seen'[r])
    BY <1>2, <1>3 DEF Matches, Observed
  <1> QED
    BY <1>1, <1>2, <1>4, PairKept DEF PairInv

(* A handler works on a request: what it takes from the hash and the heap  *)
(* is what is right at that moment.                                        *)
LEMMA PairHandler ==
  ASSUME RequestInv, CallInv, PairInv, Observe, NEW r \in Request, HandlerStep(r)
  PROVE  PairInv'
  <1>1. UNCHANGED rpc /\ Handler(r)
    BY DEF HandlerStep, clientVars
  <1>2. Quietly
    BY <1>1, RequestsAreQuiet DEF RequestStep
  <1>3. /\ \A s \in Request : s # r => request'[s] = request[s]
        /\ request'[r].rpc = request[r].rpc /\ request'[r].arg = request[r].arg
        /\ request'[r].count = request[r].count
        /\ request[r].phase \in {"queued", "transfer"} /\ request'[r].phase # "unsent"
        /\ request[r].rpc = "fetch" /\ (request'[r].phase = "transfer" \/ request'[r].ret = "success") =>
             \/ request[r].phase = "transfer" /\ request'[r].copy = request[r].copy
             \/ \E i \in Registered(request[r].arg) :
                  request'[r].copy = Window(streams[i], request[r].count)
        /\ request[r].rpc = "list" /\ request'[r].ret = "success" =>
             request'[r].ids = Listed(request[r].count)
    BY <1>1, HandlerEffect
  <1>4. Matches(request[r], rpc[r]) /\ Observed(request[r], rpc[r], seen[r])
    BY DEF PairInv
  <1>5. Matches(request'[r], rpc[r])
    BY <1>3, <1>4 DEF Matches
  <1>6. Observed(request'[r], rpc[r], seen'[r])
    <2> SUFFICES ASSUME rpc[r].phase = "sent"
                 PROVE  Observed(request'[r], rpc[r], seen'[r])
      BY DEF Observed
    <2>1. RightAnswers(r)' \subseteq seen'[r] /\ seen[r] \subseteq seen'[r]
      BY <1>1, SeenGrows
    <2>2. request[r].rpc = rpc[r].op /\ request[r].count = rpc[r].count
          /\ (rpc[r].op = "fetch" => request[r].arg = rpc[r].stream_id)
      BY <1>3, <1>4 DEF Matches
    <2>3. UNCHANGED <<streams, num_streams, heap>>
      BY <1>2 DEF Quietly, registry
    <2>4. CASE rpc[r].op = "fetch"
      <3>1. RightAnswers(r)' =
              {Window(streams[i], rpc[r].count) : i \in Registered(rpc[r].stream_id)}
        BY <1>1, <2>3, <2>4 DEF RightAnswers, Registered, Window, Smaller
      <3>2. ASSUME request'[r].phase = "transfer" \/ request'[r].ret = "success"
            PROVE  request'[r].copy \in seen'[r]
        <4>1. CASE request[r].phase = "transfer" /\ request'[r].copy = request[r].copy
          BY <1>4, <2>1, <2>4, <4>1 DEF Observed
        <4>2. CASE \E i \in Registered(request[r].arg) :
                     request'[r].copy = Window(streams[i], request[r].count)
          BY <2>1, <2>2, <2>4, <3>1, <4>2
        <4> QED
          BY <1>3, <2>2, <2>4, <3>2, <4>1, <4>2
      <3> QED
        BY <2>4, <3>2 DEF Observed
    <2>5. CASE rpc[r].op = "list"
      <3>1. RightAnswers(r)' = {Listed(rpc[r].count)}
        BY <1>1, <2>3, <2>5 DEF RightAnswers, Listed, Smaller
      <3> QED
        BY <1>3, <2>1, <2>2, <2>5, <3>1 DEF Observed
    <2> QED
      BY <2>4, <2>5 DEF Observed
  <1> QED
    BY <1>1, <1>3, <1>5, <1>6, PairKept DEF PairInv

(* The application of the provider does not touch requests and calls.      *)
LEMMA OwnerKeepsRequests == Owner => UNCHANGED request
  BY DEF Owner, RegisterByDefault, RegisterByBedrock, ProviderRegister, MargoFinalize,
     StreamCreate, Record, StreamDestroy, DestroyAllStreams, ProviderDestroy

LEMMA NextPair ==
  ASSUME RequestInv, HandleInv, CallInv, PairInv, AggregatorNext
  PROVE  PairInv'
  <1>1. Observe
    BY DEF AggregatorNext
  <1>2. CASE UNCHANGED <<request, rpc>>
    BY <1>1, <1>2, PairKept DEF PairInv
  <1>3. ASSUME NEW r \in Request, Deliver(r) PROVE PairInv'
    BY <1>1, <1>3, PairDeliver
  <1>4. ASSUME NEW r \in Request, HandlerStep(r) PROVE PairInv'
    BY <1>1, <1>4, PairHandler
  <1>5. CASE Owner /\ UNCHANGED clientVars
    BY <1>2, <1>5, OwnerKeepsRequests DEF clientVars
  <1>6. CASE UNCHANGED vars
    <2>1. UNCHANGED request
      BY <1>6 DEF vars
    <2> QED
      BY <1>1, <1>2, <1>6, <2>1, StepOfCalls, PairCall
  <1> QED
    BY <1>3, <1>4, <1>5, <1>6 DEF AggregatorNext, Return, GiveUp

(* Only the application of the client gives or takes references.           *)
LEMMA CallsKeepHandles ==
  ASSUME AggregatorNext
  PROVE  C!Application \/ UNCHANGED <<remote, refs>>
  <1>1. ASSUME NEW r \in Request, Deliver(r) \/ HandlerStep(r) PROVE UNCHANGED <<remote, refs>>
    BY <1>1 DEF Deliver, HandlerStep, clientVars
  <1>2. ASSUME NEW r \in Request, NEW ret, NEW n, NEW region, C!Return(r, ret, n, region)
        PROVE  UNCHANGED <<remote, refs>>
    BY <1>2 DEF C!Return, C!handles
  <1>3. ASSUME NEW r \in Request, C!ForwardFails(r) \/ C!OutputFails(r)
        PROVE  UNCHANGED <<remote, refs>>
    BY <1>2, <1>3 DEF C!ForwardFails, C!OutputFails
  <1>4. ASSUME NEW r \in Request, NEW ret, NEW n, C!FetchEnd(r, ret, n) \/ C!ListEnd(r, ret, n)
        PROVE  UNCHANGED <<remote, refs>>
    BY <1>2, <1>4 DEF C!FetchEnd, C!ListEnd
  <1>5. ASSUME NEW r \in Request, Return(r) \/ GiveUp(r) PROVE UNCHANGED <<remote, refs>>
    BY <1>3, <1>4, <1>5 DEF Return, GiveUp
  <1>6. CASE Owner /\ UNCHANGED clientVars
    BY <1>6 DEF clientVars
  <1> QED
    BY <1>1, <1>5, <1>6 DEF AggregatorNext

LEMMA NextSystem ==
  ASSUME SystemInv, [AggregatorNext]_system
  PROVE  SystemInv' /\ [Next]_vars
  <1>1. IInv /\ HandleInv /\ CallInv /\ PairInv /\ RequestInv
    BY DEF SystemInv, IInv
  <1>2. CASE AggregatorNext
    <2>1. [Next]_vars
      BY <1>1, <1>2, StepOfProvider
    <2>2. IInv'
      BY <1>1, <2>1, NextMemory, NextKey, NextRequest DEF IInv
    <2>3. HandleInv'
      <3>1. CASE C!Application
        BY <1>1, <3>1, ApplicationHandles
      <3>2. CASE UNCHANGED <<remote, refs>>
        BY <1>1, <3>2 DEF HandleInv
      <3> QED
        BY <1>2, <3>1, <3>2, CallsKeepHandles
    <2>4. CallInv'
      <3>1. CASE UNCHANGED rpc
        BY <1>1, <3>1 DEF CallInv
      <3> QED
        BY <1>1, <1>2, <3>1, StepOfCalls, OneCall
    <2>5. PairInv'
      BY <1>1, <1>2, NextPair
    <2> QED
      BY <2>1, <2>2, <2>3, <2>4, <2>5 DEF SystemInv
  <1>3. CASE UNCHANGED system
    <2>1. UNCHANGED vars /\ UNCHANGED <<remote, refs, rpc, seen, request>>
      BY <1>3 DEF system, clientVars, vars
    <2>2. IInv'
      BY <1>1, <2>1, NextMemory, NextKey, NextRequest DEF IInv
    <2>3. HandleInv' /\ CallInv' /\ PairInv'
      BY <1>1, <2>1 DEF HandleInv, CallInv, PairInv
    <2> QED
      BY <2>1, <2>2, <2>3 DEF SystemInv
  <1> QED
    BY <1>2, <1>3

LEMMA InitSystem == AggregatorInit => SystemInv
  <1> SUFFICES ASSUME AggregatorInit PROVE SystemInv
    OBVIOUS
  <1>1. Init /\ C!Init
    BY DEF AggregatorInit
  <1>2. IInv
    BY <1>1, InitIInv
  <1>3. HandleInv
    BY <1>1 DEF C!Init, C!NoRemote, HandleInv
  <1>4. \A r \in Request : rpc[r] = C!Unused /\ request[r] = Fresh
    BY <1>1 DEF C!Init, Init
  <1>5. CallInv
    <2>1. rpc = [r \in Request |-> C!Unused]
      BY <1>1 DEF C!Init
    <2>2. GoodCall(C!Unused)
      BY DEF C!Unused, GoodCall
    <2> QED
      BY <2>1, <2>2, UnusedCall DEF CallInv
  <1>6. PairInv
    BY <1>4 DEF PairInv, Matches, Observed, C!Unused, Fresh
  <1> QED
    BY <1>2, <1>3, <1>5, <1>6 DEF SystemInv

----------------------------------------------------------------------------
(* The theorems. *)

THEOREM SystemInvariance == AggregatorSpec => []SystemInv
  <1>1. SystemInv /\ [AggregatorNext]_system => SystemInv'
    BY NextSystem
  <1> QED
    BY <1>1, InitSystem, PTL DEF AggregatorSpec

(* The provider that serves this client is the provider of Provider: its   *)
(* requests carry no more than clients may send.                           *)
THEOREM ProviderWithin == AggregatorSpec => Spec
  <1>1. AggregatorInit => Init
    BY DEF AggregatorInit
  <1>2. SystemInv /\ [AggregatorNext]_system => [Next]_vars
    BY NextSystem
  <1> QED
    BY <1>1, <1>2, SystemInvariance, PTL DEF AggregatorSpec, Spec

(* Whatever its clients do, the provider keeps its promises to them and to *)
(* the application: its hash is a registry that a stream leaves only with  *)
(* its id or at a destruction, an answer is the copy or the list that was  *)
(* asked for, it is finalized once, and the process dies only of a cause   *)
(* that CrashCause names (src/provider.c 108-262).                         *)
THEOREM ProviderKeepsItsWord ==
  AggregatorSpec =>
    /\ RegistrySpec /\ LeavesWithItsId /\ FetchAnswersItsId /\ ListWithinMax
    /\ [](RegistryConsistent /\ FinalizedOnce /\ CrashCause)
  BY ProviderWithin, HashIsARegistry, StreamsLeaveRightly, RegistryStays, FetchAnswersRight,
     ListsRight, ProviderFinalizedOnce, CrashesNeedACause, PTL

(* So the streams the application of the provider holds stay its own and   *)
(* in the hash also here, if no two of them have one id.                   *)
THEOREM HandlesKeptInSystem ==
  ASSUME "same_id" \notin Uses
  PROVE  AggregatorSpec => [](HandlesLive /\ HandlesRegistered)
  BY ProviderWithin, HandlesKept, HandlesFound, PTL

(* margo_bulk_transfer of the fetch handler finds the region of the client *)
(* registered, also for a call that has failed in its wait meanwhile; only *)
(* where margo_bulk_create may fail it may find one that was never set.    *)
THEOREM TransfersReachTheirTarget == AggregatorSpec => []TransferTargetLive
  <1>1. SystemInv => TransferTargetLive
    <2> SUFFICES ASSUME SystemInv, NEW r \in Request, request[r].phase = "transfer"
                 PROVE  rpc[r].region \in C!NewRegions
      BY DEF TransferTargetLive
    <2>1. /\ GoodRequest(request[r]) /\ GoodCall(rpc[r])
          /\ Matches(request[r], rpc[r])
      BY DEF SystemInv, IInv, RequestInv, CallInv, PairInv
    <2> QED
      BY <2>1 DEF GoodRequest, GoodCall, Matches, C!NewRegions
  <1> QED
    BY <1>1, SystemInvariance, PTL

(* A call that succeeds ends in a Return with an answered request.         *)
LEMMA SuccessfulReturn ==
  ASSUME SystemInv, AggregatorNext, NEW r \in Request,
         rpc[r].phase = "sent", rpc'[r].phase = "returned", rpc'[r].ret = "success"
  PROVE  /\ request[r].phase = "answered" /\ request[r].ret = "success"
         /\ \/ /\ rpc[r].op = "fetch"
               /\ rpc'[r].got = request[r].copy.last - request[r].copy.first + 1
            \/ rpc[r].op = "list" /\ rpc'[r].got = Len(request[r].ids)
  <1>1. IInv /\ HandleInv /\ CallInv /\ PairInv /\ RequestInv
    BY DEF SystemInv, IInv
  <1>2. ASSUME C!Application PROVE FALSE
    BY <1>1, <1>2, ApplicationCalls DEF CallInv, Begins, SetCall
  <1>3. rpc \in [Request -> CallType]
    BY <1>1 DEF CallInv
  <1>4. ASSUME NEW s \in Request, NEW ret, NEW n, NEW region, C!Return(s, ret, n, region)
        PROVE  s = r /\ ret = "success" /\ rpc'[r].got = n
    <2>1. s = r
      BY <1>3, <1>4 DEF C!Return
    <2> QED
      BY <1>3, <1>4, <2>1 DEF C!Return, CallType
  <1>5. ~ C!ForwardFails(r) /\ ~ C!OutputFails(r)
    <2>1. ASSUME C!Return(r, "mercury", 0, rpc[r].region) PROVE FALSE
      BY <1>4, <2>1
    <2> QED
      BY <2>1 DEF C!ForwardFails, C!OutputFails
  <1>6. PICK s \in Request : Return(s) \/ GiveUp(s)
    BY <1>2 DEF AggregatorNext, Deliver, HandlerStep, clientVars
  <1>7. s = r
    BY <1>4, <1>6
    DEF Return, GiveUp, C!ForwardFails, C!OutputFails, C!FetchEnd, C!ListEnd
  <1>8. /\ request[r].phase = "answered"
        /\ \/ \E n \in FetchCounts(r) : C!FetchEnd(r, request[r].ret, n)
           \/ C!ListEnd(r, request[r].ret, Len(request[r].ids))
    BY <1>5, <1>6, <1>7 DEF Return, GiveUp
  <1>9. CASE \E n \in FetchCounts(r) : C!FetchEnd(r, request[r].ret, n)
    <2>1. PICK n \in FetchCounts(r) : C!FetchEnd(r, request[r].ret, n)
      BY <1>9
    <2>2. /\ rpc[r].op = "fetch" /\ request[r].ret = "success" /\ rpc'[r].got = n
      BY <1>4, <2>1 DEF C!FetchEnd
    <2> QED
      BY <1>8, <2>1, <2>2 DEF FetchCounts
  <1>10. CASE C!ListEnd(r, request[r].ret, Len(request[r].ids))
    <2>1. rpc[r].op = "list" /\ request[r].ret = "success"
          /\ rpc'[r].got = IF request[r].ret = "success" THEN Len(request[r].ids) ELSE 0
      BY <1>4, <1>10 DEF C!ListEnd
    <2> QED
      BY <1>8, <2>1
  <1> QED
    BY <1>8, <1>9, <1>10

(* A call that succeeds returns what was right at one moment between its   *)
(* beginning and its end (src/client.c 185-349, src/provider.c 164-335),   *)
(* whatever was recorded, created and destroyed meanwhile.                 *)
THEOREM AnswersRightInTime == AggregatorSpec => AnswersOfTheCall
  <1>1. ASSUME SystemInv, [AggregatorNext]_system
        PROVE  [\A r \in Request :
                  (/\ rpc[r].phase = "sent" /\ rpc[r].region # "unset"
                   /\ rpc'[r].phase = "returned" /\ rpc'[r].ret = "success") =>
                    IF rpc[r].op = "fetch"
                      THEN /\ request[r].copy \in seen[r]
                           /\ rpc'[r].got = request[r].copy.last - request[r].copy.first + 1
                      ELSE /\ request[r].ids \in seen[r]
                           /\ rpc'[r].got = Len(request[r].ids)]_system
    BY <1>1, SuccessfulReturn DEF SystemInv, PairInv, Observed
  <1> QED
    BY <1>1, SystemInvariance, PTL DEF AggregatorSpec, AnswersOfTheCall

----------------------------------------------------------------------------
(* The client is one that ClientProofs is about. *)

(* A call begins, and ends, as it would if more calls could fail.          *)
LEMMA StartAnyFaults ==
  ASSUME NEW r \in Request, NEW call, C!Start(r, call) PROVE CP!Start(r, call)
  BY AggregatorAssumption DEF C!Start, CP!Start, C!handles, CP!handles, C!Fault

LEMMA ApplicationAnyFaults == C!Application => CP!Application
  <1> SUFFICES ASSUME C!Application PROVE CP!Application
    OBVIOUS
  <1>1. fault = "no"
    BY DEF C!Application
  <1>2. CASE C!ClientInit
    BY <1>1, <1>2 DEF C!ClientInit, CP!ClientInit, CP!Application
  <1>3. CASE C!ClientFinalize
    BY <1>1, <1>3 DEF C!ClientFinalize, CP!ClientFinalize, CP!Application
  <1>4. ASSUME NEW a \in Remote, NEW id \in Id, C!HandleCreate(a, id) PROVE CP!Application
    <2>1. CP!HandleCreate(a, id)
      BY <1>4 DEF C!HandleCreate, CP!HandleCreate, C!NoRemote, CP!NoRemote
    <2> QED
      BY <1>1, <2>1 DEF CP!Application
  <1>5. ASSUME NEW a \in Remote, C!RefIncr(a) PROVE CP!Application
    <2>1. CP!RefIncr(a)
      BY <1>5 DEF C!RefIncr, CP!RefIncr
    <2> QED
      BY <1>1, <2>1 DEF CP!Application
  <1>6. ASSUME NEW a \in Remote, C!Release(a) PROVE CP!Application
    <2>1. CP!Release(a)
      BY <1>6 DEF C!Release, CP!Release, C!NoRemote, CP!NoRemote, C!ReadClient, CP!ReadClient,
                  C!MayFault, CP!MayFault
    <2> QED
      BY <1>1, <2>1 DEF CP!Application
  <1>7. ASSUME NEW a \in Remote, NEW r \in Request, NEW n \in Requested, C!FetchBegin(r, a, n)
        PROVE  CP!Application
    <2>1. C!NewRegions \subseteq CP!NewRegions
      BY DEF C!NewRegions, CP!NewRegions, C!Fault
    <2>2. CP!FetchBegin(r, a, n)
      BY <1>7, <2>1, StartAnyFaults
      DEF C!FetchBegin, CP!FetchBegin, C!Unused, CP!Unused, C!Clamp, CP!Clamp, C!ReadClient,
          CP!ReadClient, C!MayFault, CP!MayFault
    <2> QED
      BY <1>1, <2>2 DEF CP!Application
  <1>8. ASSUME NEW r \in Request, NEW n \in Requested, C!ListBegin(r, n)
        PROVE  CP!Application
    <2>1. CP!ListBegin(r, n)
      BY <1>8, StartAnyFaults DEF C!ListBegin, CP!ListBegin, C!Unused, CP!Unused
    <2> QED
      BY <1>1, <2>1 DEF CP!Application
  <1> QED
    BY <1>2, <1>3, <1>4, <1>5, <1>6, <1>7, <1>8 DEF C!Application

LEMMA EndsAnyFaults ==
  ASSUME NEW r \in Request
  PROVE  /\ C!ForwardFails(r) => CP!ForwardFails(r)
         /\ C!OutputFails(r) => CP!OutputFails(r)
         /\ \A ret, n : /\ C!FetchEnd(r, ret, n) => CP!FetchEnd(r, ret, n)
                        /\ C!ListEnd(r, ret, n) => CP!ListEnd(r, ret, n)
  <1>1. \A ret, n, region : C!Return(r, ret, n, region) => CP!Return(r, ret, n, region)
    BY DEF C!Return, CP!Return, C!handles, CP!handles
  <1>2. \A why : C!MayFault(why) => CP!MayFault(why)
    BY DEF C!MayFault, CP!MayFault
  <1>3. C!ForwardFails(r) => CP!ForwardFails(r)
    BY <1>1 DEF C!ForwardFails, CP!ForwardFails
  <1>4. C!OutputFails(r) => CP!OutputFails(r)
    BY <1>1, <1>2 DEF C!OutputFails, CP!OutputFails
  <1>5. ASSUME NEW ret, NEW n
        PROVE  /\ C!FetchEnd(r, ret, n) => CP!FetchEnd(r, ret, n)
               /\ C!ListEnd(r, ret, n) => CP!ListEnd(r, ret, n)
    BY <1>1, <1>2 DEF C!FetchEnd, CP!FetchEnd, C!ListEnd, CP!ListEnd
  <1> QED
    BY <1>3, <1>4, <1>5

(* This server answers no more than any server may.                        *)
LEMMA ServerWithin ==
  ASSUME SystemInv, NEW r \in Request, Return(r) \/ GiveUp(r)
  PROVE  CP!Server(r)
  <1>1. fault = "no"
    BY DEF Return, GiveUp
  <1>2. /\ request[r] \in RequestType /\ GoodRequest(request[r])
        /\ rpc[r] \in CallType /\ Matches(request[r], rpc[r])
    BY DEF SystemInv, IInv, RequestInv, CallInv, PairInv
  <1>3. CASE C!ForwardFails(r) \/ C!OutputFails(r)
    <2>1. CP!ForwardFails(r) \/ CP!OutputFails(r)
      BY <1>3, EndsAnyFaults
    <2> QED
      BY <1>1, <2>1 DEF CP!Server, C!Fault
  <1>4. ASSUME request[r].phase = "answered", NEW n \in FetchCounts(r),
               C!FetchEnd(r, request[r].ret, n)
        PROVE  CP!Server(r)
    <2>1. request[r].ret \in {"success", "invalid_stream", "mercury"}
      BY <1>2, <1>4 DEF RequestType, GoodRequest
    <2>2. CASE request[r].ret = "success"
      <3>1. n \in 0..rpc[r].count
        BY <1>2, <1>4, <2>2 DEF C!FetchEnd, FetchCounts, GoodRequest, RightCopy, Matches
      <3>2. CP!FetchEnd(r, request[r].ret, n)
        BY <1>4, EndsAnyFaults
      <3> QED
        BY <1>1, <2>1, <3>1, <3>2 DEF CP!Server
    <2>3. CASE request[r].ret # "success"
      <3>1. n \in Int
        BY <1>4, <2>3, AggregatorAssumption DEF FetchCounts
      <3>2. CP!FetchEnd(r, request[r].ret, n)
        BY <1>4, EndsAnyFaults
      <3> QED
        BY <1>1, <2>1, <2>3, <3>1, <3>2 DEF CP!Server
    <2> QED
      BY <2>2, <2>3
  <1>5. ASSUME request[r].phase = "answered",
               C!ListEnd(r, request[r].ret, Len(request[r].ids))
        PROVE  CP!Server(r)
    <2> DEFINE n == IF request[r].ret = "success" THEN Len(request[r].ids) ELSE 0
    <2>1. request[r].ret \in {"success", "invalid_stream", "mercury"}
      BY <1>2, <1>5 DEF RequestType, GoodRequest
    <2>2. n \in 0..rpc[r].count
      BY <1>2, <1>5 DEF GoodRequest, Matches, RequestType, CallType
    <2>3. CP!ListEnd(r, request[r].ret, n)
      <3>1. C!ListEnd(r, request[r].ret, n)
        BY <1>5 DEF C!ListEnd
      <3> QED
        BY <3>1, EndsAnyFaults
    <2> HIDE DEF n
    <2> QED
      BY <1>1, <2>1, <2>2, <2>3 DEF CP!Server
  <1> QED
    BY <1>3, <1>4, <1>5 DEF Return, GiveUp

(* The client in this system is a client of Client, whatever the server    *)
(* and the network there do, and whichever Mercury calls fail here: so     *)
(* what ClientProofs proves of every server holds (src/client.c 15-349).   *)
THEOREM ClientWithin == AggregatorSpec => CP!Spec
  <1>1. AggregatorInit => CP!Init
    BY DEF AggregatorInit, C!Init, CP!Init, C!NoRemote, CP!NoRemote, C!Unused, CP!Unused
  <1>2. ASSUME SystemInv, AggregatorNext PROVE CP!Next \/ UNCHANGED CP!vars
    <2>1. CASE UNCHANGED clientVars
      BY <2>1 DEF clientVars, CP!vars
    <2>2. ASSUME NEW r \in Request, Return(r) \/ GiveUp(r)
          PROVE  CP!Next
      BY <1>2, <2>2, ServerWithin DEF CP!Next
    <2>3. CASE C!Application
      BY <2>3, ApplicationAnyFaults DEF CP!Next
    <2> QED
      BY <1>2, <2>1, <2>2, <2>3 DEF AggregatorNext, Deliver, HandlerStep
  <1>3. UNCHANGED system => UNCHANGED CP!vars
    BY DEF system, clientVars, CP!vars
  <1>4. SystemInv /\ [AggregatorNext]_system => [CP!Next]_CP!vars
    BY <1>2, <1>3
  <1> QED
    BY <1>1, <1>4, SystemInvariance, PTL DEF AggregatorSpec, CP!Spec

(* With this provider, handles live while they are held and are counted,   *)
(* the client is used after it was freed only when it has warned, and a    *)
(* call gives back what it took, but its region after a Mercury failure;   *)
(* the region is one margo_bulk_create made, unless it may fail            *)
(* (src/client.c 15-349).                                                  *)
THEOREM ClientKeepsItsWord ==
  AggregatorSpec => [](/\ C!HandleWhileHeld
                       /\ C!WarnedBeforeStaleUse
                       /\ C!CallsGiveBack)
  <1>1. CP!Spec => [](CP!HandleWhileHeld /\ CP!WarnedBeforeStaleUse /\ CP!CallsGiveBack)
    <2> USE AggregatorAssumption DEF CP!ClientAssumption, C!Fault, CP!Fault
    <2>1. CP!Spec => []CP!HandleWhileHeld
      BY CP!HandlesWhileHeld
    <2>2. CP!Spec => []CP!WarnedBeforeStaleUse
      BY CP!WarnedFirst
    <2>3. CP!Spec => []CP!CallsGiveBack
      BY CP!CallsReturnAll
    <2> QED
      BY <2>1, <2>2, <2>3, PTL
  <1>2. CP!HandleWhileHeld <=> C!HandleWhileHeld
    BY Zenon DEF C!HandleWhileHeld, CP!HandleWhileHeld, C!Cardinality, CP!Cardinality
  <1>3. CP!WarnedBeforeStaleUse <=> C!WarnedBeforeStaleUse
    BY DEF C!WarnedBeforeStaleUse, CP!WarnedBeforeStaleUse
  <1>4. SystemInv /\ CP!CallsGiveBack => C!CallsGiveBack
    <2>1. SystemInv => \A r \in Request : rpc[r].region = "unset" => "bulk" \in Faults
      BY DEF SystemInv, CallInv, GoodCall
    <2> QED
      BY <2>1 DEF C!CallsGiveBack, CP!CallsGiveBack, C!NewRegions, CP!NewRegions
  <1>5. SystemInv /\ CP!HandleWhileHeld /\ CP!WarnedBeforeStaleUse /\ CP!CallsGiveBack =>
          C!HandleWhileHeld /\ C!WarnedBeforeStaleUse /\ C!CallsGiveBack
    BY <1>2, <1>3, <1>4
  <1> QED
    BY <1>1, <1>5, ClientWithin, SystemInvariance, PTL
----------------------------------------------------------------------------
(* Use that destroys nothing. *)

(* A provider that only creates streams and records in them, on a network  *)
(* that delivers: each call of a client returns with success, unless it    *)
(* was made before the provider was there.                                 *)
QuietRight ==
  /\ crashed = "no"
  /\ fault # "no" => warned = 1
  /\ \A r \in Request :
       rpc[r].phase = "returned" =>
         \/ rpc[r].ret = "success"
         \/ rpc[r].ret = "mercury" /\ request[r].phase = "unsent"

QuietUse == Uses \subseteq {"same_id", "no_callback"} /\ Faults = {}

AnsweredWell ==
  /\ margo = "running"
  /\ \A r \in Request : request[r].phase = "answered" => request[r].ret = "success"

ReturnedWell ==
  /\ fault \in {"no", "client used after free"}
  /\ \A r \in Request :
       rpc[r].phase = "returned" =>
         \/ rpc[r].ret = "success"
         \/ rpc[r].ret = "mercury" /\ request[r].phase = "unsent"

LEMMA QuietHandler ==
  ASSUME QuietUse, SystemInv, CrashInv, AnsweredWell, NEW r \in Request, Handler(r)
  PROVE  request'[r].phase = "answered" => request'[r].ret = "success"
  <1>1. provider # "destroyed"
    BY DEF QuietUse, CrashInv, DestroyedInv
  <1>2. request \in [Request -> RequestType]
    BY DEF SystemInv, IInv, RequestInv
  <1>3. ~ FetchUnknown(r)
    BY <1>1 DEF FetchUnknown, Starts, QuietUse, CrashInv, KnownInv
  <1>4. FetchCopy(r) \/ FetchReply(r) \/ ListReply(r)
    BY <1>1, <1>3 DEF Handler, HandlerProceeds, HandlerFails, HandlerWithoutProvider, FetchFault,
                      FetchTransferFailed, ListFault,
                      QuietUse
  <1>5. CASE FetchCopy(r)
    BY <1>2, <1>5 DEF FetchCopy, RequestType
  <1>6. CASE FetchReply(r)
    BY <1>2, <1>6 DEF FetchReply, Answer, RequestType
  <1>7. CASE ListReply(r)
    BY <1>2, <1>7 DEF ListReply, RequestType
  <1> QED
    BY <1>4, <1>5, <1>6, <1>7

LEMMA NextAnswered ==
  ASSUME QuietUse, SystemInv, CrashInv, AnsweredWell, AggregatorNext
  PROVE  AnsweredWell'
  <1>1. CASE UNCHANGED vars
    BY <1>1 DEF vars, AnsweredWell
  <1>2. CASE Owner
    <2>1. UNCHANGED <<request, margo>>
      BY <1>2, OwnerKeepsRequests
      DEF Owner, RegisterByDefault, RegisterByBedrock, ProviderRegister, MargoFinalize,
          StreamCreate, Record, StreamDestroy, DestroyAllStreams, ProviderDestroy,
          lifecycle, QuietUse
    <2> QED
      BY <2>1 DEF AnsweredWell
  <1>3. ASSUME NEW r \in Request, Deliver(r) PROVE AnsweredWell'
    <2>1. /\ \A s \in Request : s # r => request'[s] = request[s]
          /\ request'[r].phase = "queued"
      BY <1>3, DeliverEffect DEF SystemInv, IInv
    <2>2. UNCHANGED margo
      BY <1>3 DEF Deliver, SendFetch, SendList, Send, Quietly, lifecycle
    <2> QED
      BY <2>1, <2>2 DEF AnsweredWell
  <1>4. ASSUME NEW r \in Request, Handler(r) PROVE AnsweredWell'
    <2>1. \A s \in Request : s # r => request'[s] = request[s]
      BY <1>4, HandlerEffect DEF SystemInv, IInv
    <2>2. UNCHANGED margo
      BY <1>4, RequestsAreQuiet DEF RequestStep, Quietly, lifecycle
    <2>3. request'[r].phase = "answered" => request'[r].ret = "success"
      BY <1>4, QuietHandler
    <2> QED
      BY <2>1, <2>2, <2>3 DEF AnsweredWell
  <1> QED
    BY <1>1, <1>2, <1>3, <1>4 DEF AggregatorNext, HandlerStep, Return, GiveUp

(* A call ends with the answer of its request, or without a request.       *)
LEMMA QuietReturn ==
  ASSUME QuietUse, SystemInv, CrashInv, AnsweredWell, crashed = "no",
         NEW r \in Request, Return(r) \/ GiveUp(r)
  PROVE  /\ UNCHANGED <<request, fault>>
         /\ \/ \E n, region : C!Return(r, "success", n, region)
            \/ request[r].phase = "unsent" /\ \E region : C!Return(r, "mercury", 0, region)
  <1>1. Return(r) /\ UNCHANGED request
    BY DEF GiveUp, Return, QuietUse, vars
  <1>2. CASE Undeliverable(r) /\ C!ForwardFails(r)
    <2>1. request[r].phase = "unsent"
      BY <1>2 DEF Undeliverable, Up, AnsweredWell
    <2> QED
      BY <1>1, <1>2, <2>1 DEF C!ForwardFails
  <1>3. CASE request[r].phase = "answered"
             /\ ((\E n : C!FetchEnd(r, request[r].ret, n))
                 \/ (\E n : C!ListEnd(r, request[r].ret, n)))
    <2>1. request[r].ret = "success" /\ rpc[r].region # "unset"
      BY <1>3 DEF AnsweredWell, SystemInv, CallInv, GoodCall, QuietUse
    <2> QED
      BY <1>1, <1>3, <2>1 DEF C!FetchEnd, C!ListEnd
  <1>4. ~ (("output" \in Faults \/ request[r].ret # "success") /\ request[r].phase = "answered")
    BY DEF QuietUse, AnsweredWell
  <1> QED
    BY <1>1, <1>2, <1>3, <1>4 DEF Return

LEMMA NextReturned ==
  ASSUME QuietUse, SystemInv, CrashInv, AnsweredWell, ReturnedWell, crashed = "no",
         AggregatorNext
  PROVE  ReturnedWell'
  <1>1. rpc \in [Request -> CallType]
    BY DEF SystemInv, CallInv
  <1>2. CASE UNCHANGED <<request, rpc, fault>>
    BY <1>2 DEF ReturnedWell
  <1>3. ASSUME NEW r \in Request, Deliver(r) PROVE ReturnedWell'
    <2>1. \A s \in Request : s # r => request'[s] = request[s]
      BY <1>3, DeliverEffect DEF SystemInv, IInv
    <2>2. rpc[r].phase = "sent" /\ UNCHANGED <<rpc, fault>>
      BY <1>3 DEF Deliver, QuietUse, clientVars
    <2> QED
      BY <2>1, <2>2 DEF ReturnedWell
  <1>4. ASSUME NEW r \in Request, HandlerStep(r) PROVE ReturnedWell'
    <2>1. /\ \A s \in Request : s # r => request'[s] = request[s]
          /\ request[r].phase # "unsent"
      BY <1>4, HandlerEffect DEF HandlerStep, SystemInv, IInv
    <2>2. UNCHANGED <<rpc, fault>>
      BY <1>4 DEF HandlerStep, clientVars
    <2> QED
      BY <2>1, <2>2 DEF ReturnedWell
  <1>5. ASSUME NEW r \in Request, Return(r) \/ GiveUp(r) PROVE ReturnedWell'
    <2>1. UNCHANGED <<request, fault>>
      BY <1>5, QuietReturn
    <2>2. PICK ret, n, region :
            /\ C!Return(r, ret, n, region)
            /\ ret = "success" \/ (ret = "mercury" /\ request[r].phase = "unsent")
      BY <1>5, QuietReturn
    <2>3. /\ \A s \in Request : s # r => rpc'[s] = rpc[s]
          /\ rpc'[r].ret = ret
      BY <1>1, <2>2 DEF C!Return, CallType
    <2> QED
      BY <2>1, <2>2, <2>3 DEF ReturnedWell
  <1>6. CASE C!Application /\ UNCHANGED vars
    <2>1. UNCHANGED request
      BY <1>6 DEF vars
    <2>2. fault' \in {"no", "client used after free"}
      BY <1>6 DEF QuietUse, C!NewRegions, C!Application, C!ClientInit, C!ClientFinalize,
                  C!HandleCreate, C!RefIncr,
                  C!Release, C!FetchBegin, C!ListBegin, C!ReadClient, C!MayFault
    <2>3. ASSUME NEW r \in Request, NEW call \in CallType, C!Start(r, call)
          PROVE  \A s \in Request : rpc'[s].phase = "returned" => rpc'[s] = rpc[s]
      <3> DEFINE sent == [call EXCEPT !.phase = "sent", !.hg = "open"]
      <3>1. rpc[r].phase = "unused" /\ rpc' = [rpc EXCEPT ![r] = sent]
        BY <2>3 DEF C!Start, QuietUse
      <3>2. sent.phase = "sent"
        BY <2>3 DEF CallType
      <3> HIDE DEF sent
      <3>3. rpc'[r] = sent /\ \A s \in Request : s # r => rpc'[s] = rpc[s]
        BY ONLY <1>1, <3>1
      <3> QED
        BY ONLY <3>2, <3>3
    <2>4. \A s \in Request : rpc'[s].phase = "returned" => rpc'[s] = rpc[s]
      <3>1. HandleInv
        BY DEF SystemInv
      <3>2. CASE UNCHANGED rpc
        BY <3>2
      <3>3. ASSUME NEW a \in Remote, NEW r \in Request, NEW n \in Requested, C!FetchBegin(r, a, n)
            PROVE  \A s \in Request : rpc'[s].phase = "returned" => rpc'[s] = rpc[s]
        <4> DEFINE call == [C!Unused EXCEPT !.op = "fetch", !.stream_id = remote[a].stream_id,
                                            !.count = C!Clamp(n), !.region = "registered"]
        <4>1. C!Start(r, call)
          BY <3>3 DEF C!FetchBegin, C!NewRegions, QuietUse
        <4>2. remote[a].stream_id \in Id /\ C!Clamp(n) \in Nat
          BY <3>1, <3>3, AggregatorAssumption, ProviderAssumption DEF C!FetchBegin, HandleInv
        <4>3. call \in CallType
          BY <4>2, UnusedCall DEF CallType
        <4> HIDE DEF call
        <4> QED
          BY <2>3, <4>1, <4>3
      <3>4. ASSUME NEW r \in Request, NEW n \in Requested, C!ListBegin(r, n)
            PROVE  \A s \in Request : rpc'[s].phase = "returned" => rpc'[s] = rpc[s]
        <4> DEFINE call == [C!Unused EXCEPT !.op = "list", !.count = n]
        <4>1. C!Start(r, call)
          BY <3>4 DEF C!ListBegin
        <4>2. n \in Nat
          BY <3>4, AggregatorAssumption, ProviderAssumption DEF C!ListBegin
        <4>3. call \in CallType
          BY <4>2, UnusedCall DEF CallType
        <4> HIDE DEF call
        <4> QED
          BY <2>3, <4>1, <4>3
      <3> QED
        BY <1>6, <3>2, <3>3, <3>4
        DEF C!Application, C!ClientInit, C!ClientFinalize, C!HandleCreate, C!RefIncr, C!Release
    <2> QED
      BY <2>1, <2>2, <2>4 DEF ReturnedWell
  <1>7. CASE Owner /\ UNCHANGED clientVars
    BY <1>2, <1>7, OwnerKeepsRequests DEF clientVars
  <1> QED
    BY <1>3, <1>4, <1>5, <1>6, <1>7 DEF AggregatorNext

(* An application that destroys no stream and no provider and does not     *)
(* end Margo, clients that ask for ids that exist, and a Mercury that does *)
(* not fail, meet none of the uses of freed or unset memory of             *)
(* src/provider.c and src/client.c, but the late release of a handle that  *)
(* client_finalize has warned of; and no call that reaches the provider    *)
(* fails (src/provider.c 108-338, src/client.c 15-349).                    *)
THEOREM QuietUseSucceeds ==
  ASSUME QuietUse PROVE AggregatorSpec => []QuietRight
  <1> DEFINE Inv == AnsweredWell /\ ReturnedWell
  <1>1. AggregatorInit => Inv
    BY DEF AggregatorInit, Init, C!Init, Fresh, C!Unused, AnsweredWell, ReturnedWell
  <1>2. CrashInv => crashed = "no"
    BY DEF CrashInv, CrashType, CrashCause, QuietUse
  <1>3. SystemInv /\ CrashInv /\ Inv /\ [AggregatorNext]_system => Inv'
    <2>1. SystemInv /\ CrashInv /\ Inv /\ AggregatorNext => Inv'
      BY <1>2, NextAnswered, NextReturned
    <2>2. Inv /\ UNCHANGED system => Inv'
      BY DEF system, vars, clientVars, AnsweredWell, ReturnedWell
    <2> QED
      BY <2>1, <2>2
  <1>4. AggregatorSpec => []CrashInv
    BY ProviderWithin, CrashInvariance, PTL
  <1>5. AggregatorSpec => []C!WarnedBeforeStaleUse
    BY ClientKeepsItsWord, PTL
  <1>6. CrashInv /\ Inv /\ C!WarnedBeforeStaleUse => QuietRight
    BY <1>2 DEF ReturnedWell, C!WarnedBeforeStaleUse, QuietRight
  <1> HIDE DEF Inv
  <1> QED
    BY <1>1, <1>3, <1>4, <1>5, <1>6, SystemInvariance, PTL DEF AggregatorSpec
=============================================================================
