---------------------------- MODULE ClientProofs ----------------------------
(***************************************************************************)
(* What holds of a client for every number of handles and calls, every     *)
(* capacity, and whatever Mercury and the server do: handles live as long  *)
(* as they are held, the client counts them, it is used after it was freed *)
(* only when it has warned, and a call gives back what it took.            *)
(***************************************************************************)
EXTENDS Client, FiniteSetTheorems, TLAPS

CallType ==
  [phase : {"unused", "sent", "returned"},
   op : {"none", "fetch", "list"},
   stream_id : Id \cup {Null},
   count : Nat,
   hg : {"none", "open", "destroyed"},
   region : {"none", "registered", "unset", "freed"},
   ret : {"none", "success", "invalid_stream", "mercury"},
   got : Int]

HandleType ==
  /\ client \in {"none", "live", "freed"}
  /\ num_stream_handles \in Nat
  /\ warned \in {0, 1}
  /\ remote \in [Remote -> [stream_id : Id \cup {Null}, refcount : Nat]]
  /\ refs \in [Remote -> Nat]

FaultType ==
  /\ ph \in {"none", "live", "freed"}
  /\ fault \in {"no", "client used after free", "mid never set", "region never set",
                "freed what was not decoded", "name never set"}

(* The handles somebody has a reference to.                                *)
HeldHandles == {a \in Remote : refs[a] > 0}

(* The counts of the handles and of the client agree with who holds what.  *)
(* A client that is not yet there has no handles; one that was freed with  *)
(* handles left has warned.                                                *)
HandleInv ==
  /\ HandleType
  /\ FaultType
  /\ \A a \in Remote : remote[a].refcount = refs[a]
  /\ IsFiniteSet(HeldHandles)
  /\ client = "none" => HeldHandles = {}
  /\ client = "live" => num_stream_handles = Cardinality(HeldHandles)
  /\ client = "freed" /\ HeldHandles # {} => warned = 1
  /\ fault = "client used after free" => warned = 1

(* What a call c may look like.                                            *)
GoodCall(c) ==
  /\ c.hg = "open" <=> c.phase = "sent"
  /\ (c.phase = "sent" /\ c.op = "fetch") => c.region \in NewRegions
  /\ (c.phase = "returned" /\ c.region = "registered") => c.ret = "mercury"

CallInv ==
  /\ rpc \in [Rpc -> CallType]
  /\ \A r \in Rpc : GoodCall(rpc[r])

IInv == HandleInv /\ CallInv

LEMMA InitIInv == Init => IInv
  <1> SUFFICES ASSUME Init PROVE IInv
    OBVIOUS
  <1> USE DEF Init
  <1>1. NoRemote \in [stream_id : Id \cup {Null}, refcount : Nat] /\ NoRemote.refcount = 0
    BY DEF NoRemote
  <1>2. HeldHandles = {}
    BY DEF HeldHandles
  <1>3. IsFiniteSet(HeldHandles) /\ Cardinality(HeldHandles) = 0
    BY <1>2, FS_EmptySet
  <1>4. HandleInv
    BY <1>1, <1>2, <1>3 DEF HandleInv, HandleType, FaultType
  <1>5. Unused \in CallType /\ GoodCall(Unused)
    BY DEF Unused, CallType, GoodCall
  <1> QED
    BY <1>4, <1>5 DEF IInv, CallInv

----------------------------------------------------------------------------
(* The handles. *)

(* The references to the handle at a become n.                             *)
SetRefs(a, n) == refs' = [refs EXCEPT ![a] = n]

(* The set of handles held when the references to one of them change.      *)
LEMMA HeldAfter ==
  ASSUME HandleInv, NEW a \in Remote, NEW n \in Nat, SetRefs(a, n)
  PROVE  /\ IsFiniteSet(HeldHandles') /\ Cardinality(HeldHandles) \in Nat
         /\ refs' \in [Remote -> Nat] /\ refs'[a] = n
         /\ \A b \in Remote : b # a => refs'[b] = refs[b]
         /\ HeldHandles' = IF n > 0 THEN HeldHandles \cup {a} ELSE HeldHandles \ {a}
         /\ Cardinality(HeldHandles') =
              Cardinality(HeldHandles)
                + (IF n > 0 /\ refs[a] = 0 THEN 1
                   ELSE IF n = 0 /\ refs[a] > 0 THEN -1 ELSE 0)
  <1>1. refs \in [Remote -> Nat] /\ IsFiniteSet(HeldHandles)
    BY DEF HandleInv, HandleType
  <1>2. Cardinality(HeldHandles) \in Nat
    BY <1>1, FS_CardinalityType
  <1>3. /\ HeldHandles' = IF n > 0 THEN HeldHandles \cup {a} ELSE HeldHandles \ {a}
        /\ refs' \in [Remote -> Nat] /\ refs'[a] = n
        /\ \A b \in Remote : b # a => refs'[b] = refs[b]
    BY <1>1 DEF HeldHandles, SetRefs
  <1>4. a \in HeldHandles <=> refs[a] > 0
    BY DEF HeldHandles
  <1>5. CASE n > 0
    BY <1>1, <1>2, <1>3, <1>4, <1>5, FS_AddElement
  <1>6. CASE n = 0
    BY <1>1, <1>2, <1>3, <1>4, <1>6, FS_RemoveElement
  <1> QED
    BY <1>2, <1>3, <1>5, <1>6

(* The handle at a becomes h.                                              *)
SetRemote(a, h) == remote' = [remote EXCEPT ![a] = h]

(* A handle and the references to it that change together still agree.     *)
LEMMA CountsAgree ==
  ASSUME HandleInv, NEW a \in Remote, NEW n \in Nat, SetRefs(a, n),
         NEW h \in [stream_id : Id \cup {Null}, refcount : Nat], h.refcount = n,
         SetRemote(a, h)
  PROVE  /\ remote' \in [Remote -> [stream_id : Id \cup {Null}, refcount : Nat]]
         /\ \A b \in Remote : remote'[b].refcount = refs'[b]
  <1>1. /\ remote \in [Remote -> [stream_id : Id \cup {Null}, refcount : Nat]]
        /\ refs \in [Remote -> Nat]
        /\ \A b \in Remote : remote[b].refcount = refs[b]
    BY DEF HandleInv, HandleType
  <1>2. /\ remote' = [remote EXCEPT ![a] = h]
        /\ refs' = [refs EXCEPT ![a] = n]
    BY DEF SetRemote, SetRefs
  <1>3. remote' \in [Remote -> [stream_id : Id \cup {Null}, refcount : Nat]]
    BY <1>1, <1>2
  <1>4. remote'[a] = h /\ refs'[a] = n
    BY <1>1, <1>2
  <1>5. \A b \in Remote : b # a => remote'[b] = remote[b] /\ refs'[b] = refs[b]
    BY <1>1, <1>2
  <1> QED
    BY <1>1, <1>3, <1>4, <1>5

LEMMA CreateHandles ==
  ASSUME HandleInv, NEW a \in Remote, NEW id \in Id, HandleCreate(a, id)
  PROVE  HandleInv'
  <1> DEFINE h == [stream_id |-> id, refcount |-> 1]
  <1>1. /\ client = "live" /\ client' = "live" /\ remote[a] = NoRemote
        /\ SetRemote(a, h) /\ SetRefs(a, 1)
        /\ num_stream_handles' = num_stream_handles + 1
        /\ UNCHANGED <<warned, ph, fault>>
    BY DEF HandleCreate, SetRemote, SetRefs
  <1>2. refs[a] = 0
    <2>1. NoRemote.refcount = 0
      BY DEF NoRemote
    <2> QED
      BY <2>1, <1>1 DEF HandleInv
  <1>3. /\ IsFiniteSet(HeldHandles') /\ refs' \in [Remote -> Nat]
        /\ Cardinality(HeldHandles') = Cardinality(HeldHandles) + 1
    <2>1. 1 \in Nat
      OBVIOUS
    <2> QED
      BY <2>1, <1>1, <1>2, HeldAfter
  <1>4. h \in [stream_id : Id \cup {Null}, refcount : Nat] /\ h.refcount = 1
    OBVIOUS
  <1> HIDE DEF h
  <1>5. /\ remote' \in [Remote -> [stream_id : Id \cup {Null}, refcount : Nat]]
        /\ \A b \in Remote : remote'[b].refcount = refs'[b]
    BY <1>1, <1>4, CountsAgree
  <1>6. HandleType'
    <2>1. num_stream_handles \in Nat /\ warned \in {0, 1}
      BY DEF HandleInv, HandleType
    <2>2. num_stream_handles' \in Nat /\ warned' \in {0, 1}
      BY <2>1, <1>1
    <2> QED
      BY <2>2, <1>1, <1>3, <1>5 DEF HandleType
  <1> QED
    BY <1>1, <1>3, <1>5, <1>6 DEF HandleInv, FaultType

LEMMA IncrHandles ==
  ASSUME HandleInv, NEW a \in Remote, RefIncr(a)
  PROVE  HandleInv'
  <1> DEFINE n == refs[a] + 1
             h == [remote[a] EXCEPT !.refcount = @ + 1]
  <1>1. /\ refs[a] \in Nat /\ remote[a].refcount = refs[a]
        /\ remote[a] \in [stream_id : Id \cup {Null}, refcount : Nat]
    BY DEF HandleInv, HandleType
  <1>2. refs[a] > 0
    BY <1>1, ClientAssumption DEF RefIncr
  <1>3. SetRefs(a, n)
    BY DEF RefIncr, SetRefs
  <1>4. SetRemote(a, h) /\ UNCHANGED <<client, num_stream_handles, warned, ph, fault>>
    BY DEF RefIncr, SetRemote
  <1>5. /\ n \in Nat /\ n > 0
        /\ h \in [stream_id : Id \cup {Null}, refcount : Nat] /\ h.refcount = n
    BY <1>1
  <1>6. a \in HeldHandles
    BY <1>2 DEF HeldHandles
  <1> HIDE DEF n, h
  <1>7. /\ IsFiniteSet(HeldHandles') /\ refs' \in [Remote -> Nat]
        /\ HeldHandles' = HeldHandles
        /\ Cardinality(HeldHandles') = Cardinality(HeldHandles)
    <2>1. HeldHandles' = HeldHandles \cup {a} /\ IsFiniteSet(HeldHandles')
          /\ refs' \in [Remote -> Nat]
      BY <1>3, <1>5, HeldAfter
    <2>2. HeldHandles \cup {a} = HeldHandles
      BY <1>6
    <2> QED
      BY <2>1, <2>2
  <1>8. /\ remote' \in [Remote -> [stream_id : Id \cup {Null}, refcount : Nat]]
        /\ \A b \in Remote : remote'[b].refcount = refs'[b]
    BY <1>3, <1>4, <1>5, CountsAgree
  <1>9. HandleType'
    BY <1>4, <1>7, <1>8 DEF HandleInv, HandleType
  <1> QED
    BY <1>4, <1>7, <1>8, <1>9 DEF HandleInv, FaultType

LEMMA ReleaseHandles ==
  ASSUME HandleInv, fault = "no", NEW a \in Remote, Release(a)
  PROVE  HandleInv'
  <1> DEFINE n == refs[a] - 1
             h == IF n = 0 THEN NoRemote ELSE [remote[a] EXCEPT !.refcount = @ - 1]
  <1>1. /\ refs[a] \in Nat /\ refs[a] > 0 /\ remote[a].refcount = refs[a]
        /\ remote[a] \in [stream_id : Id \cup {Null}, refcount : Nat]
        /\ num_stream_handles \in Nat
    BY DEF Release, HandleInv, HandleType
  <1>2. SetRefs(a, n) /\ UNCHANGED <<client, warned, ph>>
    BY DEF Release, SetRefs
  <1>3. SetRemote(a, h)
    BY <1>1 DEF Release, SetRemote
  <1>4. num_stream_handles' =
          IF n = 0 /\ client = "live" THEN num_stream_handles - 1 ELSE num_stream_handles
    BY <1>1 DEF Release
  <1>5. ReadClient \/ UNCHANGED fault
    BY DEF Release
  <1>6. /\ n \in Nat /\ n < refs[a] /\ (n = 0 <=> refs[a] = 1)
        /\ h \in [stream_id : Id \cup {Null}, refcount : Nat] /\ h.refcount = n
    BY <1>1 DEF NoRemote
  <1>7. a \in HeldHandles /\ client # "none" /\ (client = "freed" => warned = 1)
    BY <1>1 DEF HeldHandles, HandleInv, HandleType
  <1> HIDE DEF n, h
  <1>8. /\ IsFiniteSet(HeldHandles') /\ refs' \in [Remote -> Nat]
        /\ Cardinality(HeldHandles) \in Nat /\ Cardinality(HeldHandles') \in Nat
        /\ Cardinality(HeldHandles') =
             Cardinality(HeldHandles) - (IF n = 0 THEN 1 ELSE 0)
    BY <1>1, <1>2, <1>6, HeldAfter, FS_CardinalityType
  <1>9. /\ remote' \in [Remote -> [stream_id : Id \cup {Null}, refcount : Nat]]
        /\ \A b \in Remote : remote'[b].refcount = refs'[b]
    BY <1>2, <1>3, <1>6, CountsAgree
  <1>10. client = "live" => num_stream_handles' = Cardinality(HeldHandles')
    BY <1>1, <1>4, <1>8 DEF HandleInv
  <1>11. num_stream_handles' \in Nat
    BY <1>1, <1>4, <1>8, <1>10
  <1>12. HandleType'
    BY <1>2, <1>8, <1>9, <1>11 DEF HandleInv, HandleType
  <1>13. FaultType' /\ (fault' = "client used after free" => warned' = 1)
    BY <1>2, <1>5, <1>7 DEF ReadClient, MayFault, HandleInv, FaultType, HandleType
  <1> QED
    BY <1>2, <1>7, <1>8, <1>9, <1>10, <1>12, <1>13 DEF HandleInv

----------------------------------------------------------------------------
(* The calls. *)

(* One call changes to a call that is good.                                *)
LEMMA OneCall ==
  ASSUME CallInv, NEW r \in Rpc, NEW c \in CallType, GoodCall(c),
         rpc' = [rpc EXCEPT ![r] = c]
  PROVE  CallInv'
  BY DEF CallInv, GoodCall

LEMMA StartCall ==
  ASSUME CallInv, NEW r \in Rpc, NEW call \in CallType,
         call.op = "fetch" => call.region \in NewRegions, call.hg = "none",
         Start(r, call)
  PROVE  CallInv'
  <1>1. CASE rpc' = [rpc EXCEPT ![r] = [call EXCEPT !.phase = "sent", !.hg = "open"]]
    <2> DEFINE c == [call EXCEPT !.phase = "sent", !.hg = "open"]
    <2>1. c \in CallType /\ GoodCall(c)
      BY DEF CallType, GoodCall
    <2> QED
      BY <1>1, <2>1, OneCall
  <1>2. CASE /\ "create" \in Faults
             /\ rpc' = [rpc EXCEPT ![r] =
                          [call EXCEPT !.phase = "returned", !.ret = "mercury"]]
    <2> DEFINE c == [call EXCEPT !.phase = "returned", !.ret = "mercury"]
    <2>1. c \in CallType /\ GoodCall(c)
      BY <1>2 DEF CallType, GoodCall
    <2> QED
      BY <1>2, <2>1, OneCall
  <1> QED
    BY <1>1, <1>2 DEF Start

LEMMA ReturnCall ==
  ASSUME CallInv, NEW r \in Rpc, NEW ret \in {"success", "invalid_stream", "mercury"},
         NEW n \in Int, NEW region \in {"none", "registered", "unset", "freed"},
         region = "registered" => ret = "mercury",
         Return(r, ret, n, region)
  PROVE  CallInv'
  <1> DEFINE c == [rpc[r] EXCEPT !.phase = "returned", !.ret = ret, !.got = n,
                                 !.hg = "destroyed", !.region = region]
  <1>1. rpc[r] \in CallType
    BY DEF CallInv
  <1>2. c \in CallType
    BY <1>1 DEF CallType
  <1>3. rpc' = [rpc EXCEPT ![r] = c]
    BY DEF Return
  <1>4. c.phase = "returned" /\ c.hg = "destroyed" /\ c.region = region /\ c.ret = ret
    BY <1>1 DEF CallType
  <1>5. GoodCall(c)
    <2> HIDE DEF c
    <2> QED
      BY <1>4 DEF GoodCall
  <1> QED
    BY <1>2, <1>3, <1>5, OneCall

LEMMA ClampType == ASSUME NEW n \in Requested PROVE Clamp(n) \in Nat
  BY ClientAssumption DEF Clamp

(* The words of a call before it begins.                                   *)
LEMMA UnusedCall ==
  Unused \in CallType /\ Unused.hg = "none"
  BY DEF Unused, CallType

(* Every step keeps the calls good.                                        *)
LEMMA NextCalls ==
  ASSUME IInv, Next
  PROVE  CallInv'
  <1>1. CallInv /\ HandleInv
    BY DEF IInv
  <1>2. CASE Application
    <2>1. CASE UNCHANGED rpc
      BY <2>1, <1>1 DEF CallInv
    <2>2. ASSUME NEW a \in Remote, NEW r \in Rpc, NEW n \in Requested, FetchBegin(r, a, n)
          PROVE  CallInv'
      <3> DEFINE Sent(region) ==
                   [Unused EXCEPT !.op = "fetch", !.stream_id = remote[a].stream_id,
                                  !.count = Clamp(n), !.region = region]
      <3>1. Clamp(n) \in Nat /\ remote[a].stream_id \in Id \cup {Null}
        BY <1>1, ClampType DEF HandleInv, HandleType
      <3>2. PICK region \in NewRegions : Start(r, Sent(region))
        BY <2>2 DEF FetchBegin
      <3> DEFINE call == Sent(region)
      <3>3. /\ call \in CallType /\ call.hg = "none" /\ call.region \in NewRegions
        BY <3>1, UnusedCall DEF CallType, NewRegions
      <3> HIDE DEF call
      <3>4. Start(r, call)
        BY <3>2 DEF call
      <3> QED
        BY <1>1, <3>3, <3>4, StartCall
    <2>3. ASSUME NEW r \in Rpc, NEW n \in Requested, ListBegin(r, n)
          PROVE  CallInv'
      <3> DEFINE call == [Unused EXCEPT !.op = "list", !.count = n]
      <3>1. n \in Nat
        BY <2>3, ClientAssumption DEF ListBegin
      <3>2. call \in CallType /\ call.hg = "none" /\ call.op # "fetch"
        BY <3>1, UnusedCall DEF CallType
      <3>3. Start(r, call)
        BY <2>3 DEF ListBegin
      <3> QED
        BY <1>1, <3>2, <3>3, StartCall
    <2> QED
      BY <1>2, <2>1, <2>2, <2>3
      DEF Application, ClientInit, ClientFinalize, HandleCreate, RefIncr, Release
  <1>3. CASE Bedrock
    BY <1>1, <1>3 DEF Bedrock, ProviderHandleCreate, ProviderHandleDestroy, CallInv
  <1>4. ASSUME NEW r \in Rpc, Server(r)
        PROVE  CallInv'
    <2>1. /\ rpc[r].region \in {"none", "registered", "unset", "freed"}
          /\ rpc[r].count \in Nat
      BY <1>1 DEF CallInv, CallType
    <2>2. CASE "forward" \in Faults /\ ForwardFails(r)
      BY <1>1, <2>1, <2>2, ReturnCall DEF ForwardFails
    <2>3. CASE "output" \in Faults /\ OutputFails(r)
      <3>1. Return(r, "mercury", 0, rpc[r].region)
        BY <2>3 DEF OutputFails
      <3> QED
        BY <1>1, <2>1, <3>1, ReturnCall
    <2>4. ASSUME NEW ret \in {"success", "invalid_stream", "mercury"},
                 NEW n \in 0..rpc[r].count,
                 FetchEnd(r, ret, n) \/ ListEnd(r, ret, n)
          PROVE  CallInv'
      <3>1. n \in Nat
        BY <2>1
      <3>2. CASE FetchEnd(r, ret, n)
        <4>1. Return(r, ret, n, IF rpc[r].region = "unset" THEN "unset" ELSE "freed")
          BY <3>2 DEF FetchEnd
        <4> QED
          BY <1>1, <3>1, <4>1, ReturnCall
      <3>3. CASE ListEnd(r, ret, n)
        <4>1. (IF ret = "success" THEN n ELSE 0) \in Nat
          BY <3>1
        <4> QED
          BY <1>1, <4>1, <3>3, ReturnCall DEF ListEnd
      <3> QED
        BY <2>4, <3>2, <3>3
    <2>5. ASSUME NEW ret \in {"success", "invalid_stream", "mercury"}, NEW n \in Decoded,
                 FetchEnd(r, ret, n)
          PROVE  CallInv'
      <3>1. n \in Int
        BY ClientAssumption
      <3>2. Return(r, ret, n, IF rpc[r].region = "unset" THEN "unset" ELSE "freed")
        BY <2>5 DEF FetchEnd
      <3> QED
        BY <1>1, <3>1, <3>2, ReturnCall
    <2> QED
      BY <1>4, <2>2, <2>3, <2>4, <2>5 DEF Server
  <1> QED
    BY <1>2, <1>3, <1>4 DEF Next

(* A step that leaves the handles alone and, unless the client is freed,   *)
(* does not use it after free.                                             *)
LEMMA SameHandles ==
  ASSUME HandleInv, UNCHANGED handles, FaultType',
         fault' = "client used after free" => warned = 1
  PROVE  HandleInv'
  BY DEF HandleInv, HandleType, HeldHandles, handles

LEMMA NextHandles ==
  ASSUME IInv, Next
  PROVE  HandleInv'
  <1>1. HandleInv /\ FaultType /\ fault = "no"
    BY DEF IInv, HandleInv, Next, Application, Bedrock, Server
  <1>2. CASE Application
    <2>1. CASE ClientInit
      <3>1. UNCHANGED HeldHandles /\ HeldHandles = {}
        BY <1>1, <2>1 DEF ClientInit, HandleInv, HeldHandles
      <3>2. IsFiniteSet(HeldHandles') /\ Cardinality(HeldHandles') = 0
        BY <3>1, FS_EmptySet
      <3> QED
        BY <1>1, <2>1, <3>1, <3>2 DEF ClientInit, HandleInv, HandleType, FaultType
    <2>2. CASE ClientFinalize
      <3>1. UNCHANGED HeldHandles
        BY <2>2 DEF ClientFinalize, HeldHandles
      <3>2. HeldHandles # {} => num_stream_handles # 0
        <4>1. Cardinality(HeldHandles) = 0 <=> HeldHandles = {}
          BY <1>1, FS_EmptySet DEF HandleInv
        <4> QED
          BY <1>1, <2>2, <4>1 DEF ClientFinalize, HandleInv
      <3> QED
        BY <1>1, <2>2, <3>1, <3>2 DEF ClientFinalize, HandleInv, HandleType, FaultType
    <2>3. ASSUME NEW a \in Remote, NEW id \in Id, HandleCreate(a, id)
          PROVE  HandleInv'
      BY <1>1, <2>3, CreateHandles
    <2>4. ASSUME NEW a \in Remote, RefIncr(a)
          PROVE  HandleInv'
      BY <1>1, <2>4, IncrHandles
    <2>5. ASSUME NEW a \in Remote, Release(a)
          PROVE  HandleInv'
      BY <1>1, <2>5, ReleaseHandles
    <2>6. ASSUME NEW a \in Remote, NEW r \in Rpc, NEW n \in Requested, FetchBegin(r, a, n)
          PROVE  HandleInv'
      <3>1. /\ UNCHANGED handles /\ UNCHANGED ph /\ refs[a] > 0
            /\ ReadClient \/ MayFault("region never set")
        BY <2>6 DEF FetchBegin, Start
      <3>2. client # "none" /\ (client = "freed" => warned = 1)
        <4>1. a \in HeldHandles
          BY <3>1 DEF HeldHandles
        <4> QED
          BY <1>1, <4>1 DEF HandleInv
      <3>3. FaultType' /\ (fault' = "client used after free" => warned = 1)
        BY <1>1, <3>1, <3>2 DEF ReadClient, MayFault, FaultType, HandleInv, HandleType
      <3> QED
        BY <1>1, <3>1, <3>3, SameHandles
    <2>7. ASSUME NEW r \in Rpc, NEW n \in Requested, ListBegin(r, n)
          PROVE  HandleInv'
      <3>1. UNCHANGED handles /\ UNCHANGED <<ph, fault>>
        BY <2>7 DEF ListBegin, Start
      <3> QED
        BY <1>1, <3>1, SameHandles DEF FaultType
    <2> QED
      BY <1>2, <2>1, <2>2, <2>3, <2>4, <2>5, <2>6, <2>7 DEF Application
  <1>3. CASE Bedrock
    <2>1. UNCHANGED handles /\ FaultType' /\ fault' # "client used after free"
      BY <1>1, <1>3
      DEF Bedrock, ProviderHandleCreate, ProviderHandleDestroy, MayFault, FaultType
    <2> QED
      BY <1>1, <2>1, SameHandles
  <1>4. ASSUME NEW r \in Rpc, Server(r)
        PROVE  HandleInv'
    <2>1. UNCHANGED handles /\ FaultType' /\ fault' # "client used after free"
      BY <1>1, <1>4
      DEF Server, ForwardFails, OutputFails, FetchEnd, ListEnd, Return, MayFault, FaultType
    <2> QED
      BY <1>1, <2>1, SameHandles
  <1> QED
    BY <1>2, <1>3, <1>4 DEF Next

LEMMA UnchangedIInv == IInv /\ UNCHANGED vars => IInv'
  BY DEF IInv, HandleInv, HandleType, FaultType, HeldHandles, CallInv, GoodCall, vars

----------------------------------------------------------------------------
(* The theorems. *)

THEOREM Invariance == Spec => []IInv
  <1>1. Init => IInv
    BY InitIInv
  <1>2. IInv /\ [Next]_vars => IInv'
    BY NextCalls, NextHandles, UnchangedIInv DEF IInv
  <1> QED
    BY <1>1, <1>2, PTL DEF Spec

(* The variables keep their types.                                         *)
THEOREM TypeCorrect == Spec => []TypeOK
  <1>1. IInv => TypeOK
    BY DEF IInv, HandleInv, HandleType, FaultType, CallInv, CallType, TypeOK
  <1> QED
    BY <1>1, Invariance, PTL

(* However many handles there are and however they are shared and their    *)
(* addresses reused, a handle is allocated exactly while somebody holds    *)
(* it, and num_stream_handles is the number of them.                       *)
THEOREM HandlesWhileHeld == Spec => []HandleWhileHeld
  <1>1. IInv => HandleWhileHeld
    BY DEF IInv, HandleInv, HeldHandles, HandleWhileHeld
  <1> QED
    BY <1>1, Invariance, PTL

(* Nobody uses a freed client without a warning of client_finalize.        *)
THEOREM WarnedFirst == Spec => []WarnedBeforeStaleUse
  <1>1. IInv => WarnedBeforeStaleUse
    BY DEF IInv, HandleInv, WarnedBeforeStaleUse
  <1> QED
    BY <1>1, Invariance, PTL

(* A call that is over has given back its RPC handle, and its region       *)
(* unless Mercury failed; one that waits has them both, and the region     *)
(* only if margo_bulk_create, whose result is not looked at, made one.     *)
THEOREM CallsReturnAll == Spec => []CallsGiveBack
  <1>1. IInv => CallsGiveBack
    BY DEF IInv, CallInv, GoodCall, CallsGiveBack
  <1> QED
    BY <1>1, Invariance, PTL
=============================================================================
