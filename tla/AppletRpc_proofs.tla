-------------------------- MODULE AppletRpc_proofs --------------------------
(***************************************************************************)
(* Proofs about AppletRpc for any finite set of connections and any depth  *)
(* of the channels.                                                        *)
(***************************************************************************)
EXTENDS AppletRpc, FiniteSetTheorems, SequenceTheorems, TLAPS

-----------------------------------------------------------------------------
(* How a step that moves one goroutine changes the set InFlight.            *)

(* A goroutine that enters CallApplet makes the set of callers one larger.  *)
LEMMA FlightGrows ==
  ASSUME TypeOK, NEW c \in Conns, pc[c] = "idle",
         pc' = [pc EXCEPT ![c] = "calling"]
  PROVE  /\ InFlight' = InFlight \cup {c}
         /\ Cardinality(InFlight') = Cardinality(InFlight) + 1
<1>1. InFlight' = InFlight \cup {c} /\ c \notin InFlight
  BY DEF InFlight, TypeOK
<1>2. IsFiniteSet(InFlight)
  BY RpcAssumption, FS_Subset DEF InFlight
<1>3. QED
  BY <1>1, <1>2, FS_AddElement

(* A goroutine that is given a reply makes the set of callers one smaller.  *)
LEMMA FlightShrinks ==
  ASSUME TypeOK, NEW c \in Conns, c \in InFlight, NEW r, Finish(c, r)
  PROVE  /\ InFlight' = InFlight \ {c}
         /\ Cardinality(InFlight') = Cardinality(InFlight) - 1
         /\ Cardinality(InFlight) \in Nat
<1>1. InFlight' = InFlight \ {c}
  BY DEF InFlight, TypeOK, Finish
<1>2. IsFiniteSet(InFlight)
  BY RpcAssumption, FS_Subset DEF InFlight
<1>3. QED
  BY <1>1, <1>2, FS_RemoveElement, FS_CardinalityType

(* Parking moves a goroutine inside CallApplet; the set stays the same.     *)
LEMMA FlightStays ==
  ASSUME TypeOK, NEW c \in Conns, pc[c] = "calling",
         pc' = [pc EXCEPT ![c] = "parked"]
  PROVE  InFlight' = InFlight
BY DEF InFlight, TypeOK

-----------------------------------------------------------------------------
(* The goroutines parked on appletReplyCh are distinct and are parked.      *)
ReceiversAreParked ==
  /\ \A i \in DOMAIN receivers : pc[receivers[i]] = "parked"
  /\ \A i, j \in DOMAIN receivers : receivers[i] = receivers[j] => i = j

(* Init and every step keep the types and the list of parked goroutines.    *)
LEMMA TypeInductive ==
  TypeOK /\ ReceiversAreParked /\ [Next]_vars => TypeOK' /\ ReceiversAreParked'
<1> SUFFICES ASSUME TypeOK, ReceiversAreParked, [Next]_vars
             PROVE  TypeOK' /\ ReceiversAreParked'
  OBVIOUS
<1> USE RpcAssumption DEF TypeOK, ReceiversAreParked, MethodKinds
<1>1. CASE \E c \in Conns : BadRequest(c)
  BY <1>1 DEF BadRequest, rpcVars
<1>2. CASE \E c \in Conns : TakeReply(c)
  BY <1>2 DEF TakeReply, Finish
<1>3. CASE \E c \in Conns : Park(c)
  BY <1>3 DEF Park
<1>4. CASE \E c \in Conns, m \in Methods : Call(c, m)
  BY <1>4 DEF Call, InFlight
<1>5. CASE Recv
  BY <1>5 DEF Recv, Polling
<1>6. CASE RecvExit
  BY <1>6 DEF RecvExit, Polling
<1>7. CASE Send
  <2>1. CASE receivers # <<>>
    <3>1. /\ Head(receivers) \in Conns
          /\ Tail(receivers) \in Seq(Conns)
          /\ \A i \in DOMAIN Tail(receivers) :
               /\ i + 1 \in DOMAIN receivers /\ i + 1 # 1
               /\ Tail(receivers)[i] = receivers[i + 1]
          /\ Head(receivers) = receivers[1] /\ 1 \in DOMAIN receivers
      BY <2>1
    <3>2. /\ receivers' = Tail(receivers)
          /\ pc' = [pc EXCEPT ![Head(receivers)] = "closed"]
          /\ got' = [got EXCEPT ![Head(receivers)] = serving]
          /\ UNCHANGED replies
      BY <1>7, <2>1 DEF Send, Finish
    <3>3. TypeOK'
      BY <1>7, <3>1, <3>2 DEF Send
    <3>4. ReceiversAreParked'
      BY <3>1, <3>2
    <3>5. QED
      BY <3>3, <3>4
  <2>2. CASE receivers = <<>>
    BY <1>7, <2>2 DEF Send
  <2>3. QED
    BY <2>1, <2>2
<1>8. CASE SendLost
  BY <1>8 DEF SendLost
<1>9. CASE Reset
  BY <1>9 DEF Reset
<1>10. CASE UNCHANGED vars
  BY <1>10 DEF vars, rpcVars
<1>11. QED
  BY <1>1, <1>2, <1>3, <1>4, <1>5, <1>6, <1>7, <1>8, <1>9, <1>10
  DEF Next, AppletStep

-----------------------------------------------------------------------------
(* Each step moves one call from one place to the next, or one caller and   *)
(* one call out, so the account stays balanced.                             *)
LEMMA AccountInductive ==
  TypeOK /\ ReceiversAreParked /\ CallsAccountedFor /\ [Next]_vars
    => CallsAccountedFor'
<1> SUFFICES ASSUME TypeOK, ReceiversAreParked, CallsAccountedFor, [Next]_vars
             PROVE  CallsAccountedFor'
  OBVIOUS
<1> USE RpcAssumption DEF CallsAccountedFor, Handling
<1>1. ASSUME NEW c \in Conns, BadRequest(c)
      PROVE  CallsAccountedFor'
  <2>1. InFlight' = InFlight
    BY <1>1 DEF BadRequest, InFlight, TypeOK
  <2>2. QED
    BY <1>1, <2>1 DEF BadRequest, rpcVars
<1>2. ASSUME NEW c \in Conns, TakeReply(c)
      PROVE  CallsAccountedFor'
  <2>1. c \in InFlight /\ Finish(c, Head(replies))
    BY <1>2 DEF TakeReply, InFlight
  <2>2. Cardinality(InFlight') = Cardinality(InFlight) - 1
    BY <2>1, FlightShrinks
  <2>3. Len(replies') = Len(replies) - 1
    BY <1>2 DEF TakeReply, TypeOK
  <2>4. QED
    BY <1>2, <2>2, <2>3 DEF TakeReply, TypeOK
<1>3. ASSUME NEW c \in Conns, Park(c)
      PROVE  CallsAccountedFor'
  BY <1>3, FlightStays DEF Park
<1>4. ASSUME NEW c \in Conns, NEW m \in Methods, Call(c, m)
      PROVE  CallsAccountedFor'
  <2>1. Cardinality(InFlight') = Cardinality(InFlight) + 1
    BY <1>4, FlightGrows DEF Call
  <2>2. Len(requests') = Len(requests) + 1
    BY <1>4 DEF Call, TypeOK
  <2>3. QED
    BY <1>4, <2>1, <2>2 DEF Call, TypeOK
<1>5. CASE Recv
  <2>1. InFlight' = InFlight
    BY <1>5 DEF Recv, InFlight
  <2>2. Head(requests) \in Conns /\ Len(requests') = Len(requests) - 1
    BY <1>5 DEF Recv, TypeOK
  <2>3. serving = None /\ serving' # None
    BY <1>5, <2>2 DEF Recv, Polling, TypeOK
  <2>4. /\ Len(requests) \in Nat /\ Len(replies) \in Nat /\ lost \in Nat
        /\ UNCHANGED <<replies, lost>>
    BY <1>5 DEF Recv, TypeOK
  <2>5. QED
    BY <2>1, <2>2, <2>3, <2>4
<1>6. CASE RecvExit
  <2>1. InFlight' = InFlight
    BY <1>6 DEF RecvExit, InFlight
  <2>2. Len(requests') = Len(requests) - 1
    BY <1>6 DEF RecvExit, TypeOK
  <2>3. /\ Len(requests) \in Nat /\ Len(replies) \in Nat /\ lost \in Nat
        /\ serving = None /\ serving' = None
        /\ lost' = lost + 1
        /\ UNCHANGED replies
    BY <1>6 DEF RecvExit, Polling, TypeOK
  <2>4. QED
    BY <2>1, <2>2, <2>3
<1>7. CASE Send
  <2>1. CASE receivers # <<>>
    <3>1. Head(receivers) \in Conns /\ Head(receivers) \in InFlight
      BY <2>1 DEF TypeOK, ReceiversAreParked, InFlight
    <3>2. Finish(Head(receivers), serving) /\ UNCHANGED replies
      BY <1>7, <2>1 DEF Send
    <3>3. Cardinality(InFlight') = Cardinality(InFlight) - 1
      BY <3>1, <3>2, FlightShrinks
    <3>4. QED
      BY <1>7, <3>2, <3>3 DEF Send, TypeOK
  <2>2. CASE receivers = <<>>
    <3>1. InFlight' = InFlight
      BY <1>7, <2>2 DEF Send, InFlight
    <3>2. Len(replies') = Len(replies) + 1
      BY <1>7, <2>2 DEF Send, TypeOK
    <3>3. QED
      BY <1>7, <3>1, <3>2 DEF Send, TypeOK
  <2>3. QED
    BY <2>1, <2>2
<1>8. CASE SendLost
  <2>1. InFlight' = InFlight
    BY <1>8 DEF SendLost, InFlight
  <2>2. QED
    BY <1>8, <2>1 DEF SendLost, TypeOK
<1>9. CASE Reset
  <2>1. InFlight' = {}
    BY <1>9 DEF Reset, InFlight
  <2>2. QED
    BY <1>9, <2>1, FS_EmptySet DEF Reset
<1>10. CASE UNCHANGED vars
  BY <1>10 DEF vars, InFlight
<1>11. QED
  BY <1>1, <1>2, <1>3, <1>4, <1>5, <1>6, <1>7, <1>8, <1>9, <1>10
  DEF Next, AppletStep

-----------------------------------------------------------------------------
(* A caller that has been alone since its send finds only its own call in   *)
(* the channels and in the applet.                                          *)
SoloCallersOwnThePipe ==
  \A c \in Conns : c \in InFlight /\ c \notin overlapped =>
    /\ InFlight = {c}
    /\ \A i \in DOMAIN requests : requests[i] = c
    /\ serving \in {c, None}
    /\ \A i \in DOMAIN replies : replies[i] = c

RpcInv ==
  /\ TypeOK
  /\ ReceiversAreParked
  /\ CallsAccountedFor
  /\ SoloCallersOwnThePipe
  /\ SoloCallersGetOwnReply

(* When nobody is inside CallApplet the account leaves nothing behind.      *)
LEMMA QuietIsClean ==
  ASSUME TypeOK, CallsAccountedFor, InFlight = {}
  PROVE  requests = <<>> /\ replies = <<>> /\ serving = None
<1>1. Len(requests) + Handling + Len(replies) + lost = 0
  BY FS_EmptySet DEF CallsAccountedFor
<1>2. /\ Len(requests) \in Nat /\ Handling \in Nat /\ Len(replies) \in Nat
      /\ lost \in Nat
  BY DEF TypeOK, Handling
<1>3. Len(requests) = 0 /\ Handling = 0 /\ Len(replies) = 0
  BY <1>1, <1>2
<1>4. QED
  BY <1>3 DEF TypeOK, Handling

(* A step keeps the channels of a solo caller free of other calls, and hands *)
(* it nothing but its own.                                                   *)
LEMMA SoloInductive ==
  RpcInv /\ [Next]_vars => SoloCallersOwnThePipe' /\ SoloCallersGetOwnReply'
<1> SUFFICES ASSUME RpcInv, [Next]_vars
             PROVE  SoloCallersOwnThePipe' /\ SoloCallersGetOwnReply'
  OBVIOUS
<1> USE RpcAssumption DEF SoloCallersOwnThePipe, SoloCallersGetOwnReply
<1>1. ASSUME NEW c \in Conns, BadRequest(c)
      PROVE  SoloCallersOwnThePipe' /\ SoloCallersGetOwnReply'
  <2>1. InFlight' = InFlight
    BY <1>1 DEF BadRequest, InFlight, RpcInv, TypeOK
  <2>2. QED
    BY <1>1, <2>1 DEF BadRequest, rpcVars, RpcInv
<1>2. ASSUME NEW c \in Conns, TakeReply(c)
      PROVE  SoloCallersOwnThePipe' /\ SoloCallersGetOwnReply'
  <2>1. c \in InFlight /\ Finish(c, Head(replies))
    BY <1>2 DEF TakeReply, InFlight
  <2>2. InFlight' = InFlight \ {c}
    BY <2>1, FlightShrinks DEF RpcInv
  <2>3. Head(replies) = replies[1] /\ 1 \in DOMAIN replies
    BY <1>2 DEF TakeReply, RpcInv, TypeOK
  <2>4. c \notin overlapped => Head(replies) = c
    BY <2>1, <2>3 DEF RpcInv
  <2>5. SoloCallersGetOwnReply'
    BY <1>2, <2>1, <2>4 DEF TakeReply, Finish, RpcInv, TypeOK
  <2>6. \A d \in InFlight' : d \in overlapped
    BY <2>1, <2>2 DEF RpcInv, InFlight
  <2>7. SoloCallersOwnThePipe'
    BY <1>2, <2>6 DEF TakeReply
  <2>8. QED
    BY <2>5, <2>7
<1>3. ASSUME NEW c \in Conns, Park(c)
      PROVE  SoloCallersOwnThePipe' /\ SoloCallersGetOwnReply'
  <2>1. InFlight' = InFlight
    BY <1>3, FlightStays DEF Park, RpcInv
  <2>2. QED
    BY <1>3, <2>1 DEF Park, RpcInv
<1>4. ASSUME NEW c \in Conns, NEW m \in Methods, Call(c, m)
      PROVE  SoloCallersOwnThePipe' /\ SoloCallersGetOwnReply'
  <2>1. InFlight' = InFlight \cup {c}
    BY <1>4, FlightGrows DEF Call, RpcInv
  <2>2. SoloCallersGetOwnReply'
    BY <1>4 DEF Call, RpcInv
  <2>3. CASE InFlight = {}
    <3>1. requests = <<>> /\ replies = <<>> /\ serving = None
      BY <2>3, QuietIsClean DEF RpcInv
    <3>2. requests' = <<c>> /\ replies' = <<>> /\ serving' = None
      BY <1>4, <3>1 DEF Call
    <3>3. QED
      BY <2>1, <2>2, <2>3, <3>2
  <2>4. CASE InFlight # {}
    <3>1. \A d \in InFlight' : d \in overlapped'
      BY <1>4, <2>1, <2>4 DEF Call
    <3>2. QED
      BY <2>2, <3>1
  <2>5. QED
    BY <2>3, <2>4
<1>5. CASE Recv
  <2>1. InFlight' = InFlight
    BY <1>5 DEF Recv, InFlight
  <2>2. /\ Head(requests) = requests[1] /\ 1 \in DOMAIN requests
        /\ \A i \in DOMAIN Tail(requests) :
             i + 1 \in DOMAIN requests /\ Tail(requests)[i] = requests[i + 1]
    BY <1>5 DEF Recv, RpcInv, TypeOK
  <2>3. QED
    BY <1>5, <2>1, <2>2 DEF Recv, RpcInv
<1>6. CASE RecvExit
  <2>1. InFlight' = InFlight
    BY <1>6 DEF RecvExit, InFlight
  <2>2. \A i \in DOMAIN Tail(requests) :
             i + 1 \in DOMAIN requests /\ Tail(requests)[i] = requests[i + 1]
    BY <1>6 DEF RecvExit, RpcInv, TypeOK
  <2>3. QED
    BY <1>6, <2>1, <2>2 DEF RecvExit, RpcInv
<1>7. CASE Send
  <2>1. CASE receivers # <<>>
    <3> DEFINE d == Head(receivers)
    <3>1. d \in Conns /\ d \in InFlight
      BY <2>1 DEF RpcInv, TypeOK, ReceiversAreParked, InFlight
    <3>2. Finish(d, serving) /\ UNCHANGED <<requests, replies, overlapped>>
      BY <1>7, <2>1 DEF Send
    <3>3. InFlight' = InFlight \ {d}
      BY <3>1, <3>2, FlightShrinks DEF RpcInv
    <3>4. d \notin overlapped => serving = d
      BY <1>7, <3>1 DEF RpcInv, TypeOK, Send
    <3>5. SoloCallersGetOwnReply'
      BY <3>2, <3>4 DEF Finish, RpcInv, TypeOK
    <3>6. \A e \in InFlight' : e \in overlapped
      BY <3>1, <3>3 DEF RpcInv, InFlight
    <3>7. QED
      BY <3>2, <3>5, <3>6
  <2>2. CASE receivers = <<>>
    <3>1. InFlight' = InFlight
      BY <1>7, <2>2 DEF Send, InFlight
    <3>2. /\ UNCHANGED <<requests, got, overlapped>>
          /\ replies' = Append(replies, serving)
          /\ serving' = None
          /\ serving # None
      BY <1>7, <2>2 DEF Send, RpcInv, TypeOK
    <3>3. \A i \in DOMAIN replies' : replies'[i] = serving \/
             (i \in DOMAIN replies /\ replies'[i] = replies[i])
      BY <3>2 DEF RpcInv, TypeOK
    <3>4. QED
      BY <3>1, <3>2, <3>3 DEF RpcInv
  <2>3. QED
    BY <2>1, <2>2
<1>8. CASE SendLost
  <2>1. InFlight' = InFlight
    BY <1>8 DEF SendLost, InFlight
  <2>2. QED
    BY <1>8, <2>1 DEF SendLost, RpcInv
<1>9. CASE Reset
  <2>1. InFlight' = {}
    BY <1>9 DEF Reset, InFlight
  <2>2. QED
    BY <1>9, <2>1 DEF Reset, RpcInv
<1>10. CASE UNCHANGED vars
  BY <1>10 DEF vars, InFlight, RpcInv
<1>11. QED
  BY <1>1, <1>2, <1>3, <1>4, <1>5, <1>6, <1>7, <1>8, <1>9, <1>10
  DEF Next, AppletStep

-----------------------------------------------------------------------------
(* The initial state satisfies the inductive invariant.                     *)
LEMMA RpcInitial == Init => RpcInv
<1> SUFFICES ASSUME Init PROVE RpcInv
  OBVIOUS
<1>1. TypeOK /\ ReceiversAreParked
  BY RpcAssumption DEF Init, TypeOK, ReceiversAreParked, MethodKinds
<1>2. InFlight = {}
  BY DEF Init, InFlight
<1>3. CallsAccountedFor
  BY <1>2, FS_EmptySet DEF Init, CallsAccountedFor, Handling
<1>4. QED
  BY <1>1, <1>2, <1>3
  DEF Init, RpcInv, SoloCallersOwnThePipe, SoloCallersGetOwnReply

(* Every reachable state satisfies the inductive invariant.                 *)
THEOREM RpcInvariant == Spec => []RpcInv
<1>1. RpcInv /\ [Next]_vars => RpcInv'
  BY TypeInductive, AccountInductive, SoloInductive DEF RpcInv
<1>2. QED
  BY RpcInitial, <1>1, PTL DEF Spec

(* Type correctness, with the bound on blocked replies.                     *)
THEOREM RpcTypeCorrect == Spec => []TypeOK
<1>1. RpcInv => TypeOK
  BY DEF RpcInv
<1>2. QED
  BY RpcInvariant, <1>1, PTL

(* For any number of connections and any channel depth, every caller inside *)
(* CallApplet is matched by a call on its way or by a lost reply.           *)
THEOREM RpcCallsAccountedFor == Spec => []CallsAccountedFor
<1>1. RpcInv => CallsAccountedFor
  BY DEF RpcInv
<1>2. QED
  BY RpcInvariant, <1>1, PTL

(* For any number of connections and any channel depth, a caller that was   *)
(* never in flight together with another one got its own reply.             *)
THEOREM RpcSoloCallersGetOwnReply == Spec => []SoloCallersGetOwnReply
<1>1. RpcInv => SoloCallersGetOwnReply
  BY DEF RpcInv
<1>2. QED
  BY RpcInvariant, <1>1, PTL

-----------------------------------------------------------------------------
(* The channels implement the abstract pool of calls.                       *)

Elems(s) == {s[i] : i \in DOMAIN s}
Distinct(s) == \A i, j \in DOMAIN s : s[i] = s[j] => i = j

LEMMA TailElems ==
  ASSUME NEW s \in Seq(Conns), s # <<>>, Distinct(s)
  PROVE  /\ Head(s) \in Elems(s)
         /\ Elems(Tail(s)) = Elems(s) \ {Head(s)}
         /\ Distinct(Tail(s))
<1>1. /\ Len(s) \in Nat \ {0} /\ DOMAIN s = 1..Len(s) /\ Head(s) = s[1]
      /\ Tail(s) \in Seq(Conns) /\ DOMAIN Tail(s) = 1..(Len(s) - 1)
      /\ \A i \in 1..(Len(s) - 1) : Tail(s)[i] = s[i + 1]
  OBVIOUS
<1>2. Head(s) \in Elems(s) /\ Elems(Tail(s)) \subseteq Elems(s)
  BY <1>1 DEF Elems
<1>3. Distinct(Tail(s))
  BY <1>1 DEF Distinct
<1>4. Head(s) \notin Elems(Tail(s))
  BY <1>1 DEF Elems, Distinct
<1>5. ASSUME NEW x \in Elems(s), x # Head(s)
      PROVE  x \in Elems(Tail(s))
  <2>1. PICK i \in 1..Len(s) : x = s[i]
    BY <1>1 DEF Elems
  <2>2. i - 1 \in 1..(Len(s) - 1) /\ Tail(s)[i - 1] = s[i]
    BY <1>1, <1>5, <2>1
  <2> QED
    BY <1>1, <2>1, <2>2 DEF Elems
<1> QED
  BY <1>2, <1>3, <1>4, <1>5

LEMMA AppendElems ==
  ASSUME NEW s \in Seq(Conns), NEW c \in Conns, Distinct(s), c \notin Elems(s)
  PROVE  /\ Elems(Append(s, c)) = Elems(s) \cup {c}
         /\ Distinct(Append(s, c))
<1>1. /\ Len(s) \in Nat /\ DOMAIN s = 1..Len(s)
      /\ DOMAIN Append(s, c) = 1..(Len(s) + 1)
      /\ Append(s, c)[Len(s) + 1] = c
      /\ \A i \in 1..Len(s) : Append(s, c)[i] = s[i]
  OBVIOUS
<1>2. Elems(Append(s, c)) = Elems(s) \cup {c}
  BY <1>1 DEF Elems
<1> QED
  BY <1>1, <1>2 DEF Distinct, Elems

Calls == Elems(requests) \cup Elems(replies) \cup ({serving} \ {None})
Fresh == {c \in Conns : pc[c] = "idle"}
Answers == {<<d, got[d]>> : d \in {e \in Conns : got[e] # None}}

(* A call is in one place only, was made, and has no answer until its       *)
(* caller has left CallApplet.                                              *)
EachCallOnce ==
  /\ Distinct(requests) /\ Distinct(replies)
  /\ Elems(requests) \cap Elems(replies) = {}
  /\ serving \notin Elems(requests) \cup Elems(replies)
  /\ Calls \cap Fresh = {}
  /\ \A c \in Conns : pc[c] \in {"idle", "calling", "parked"} => got[c] = None

(* The steps of the pool, in these terms. *)
PoolStep ==
  \/ \E c \in Fresh : Fresh' = Fresh \ {c} /\ UNCHANGED <<InFlight, Calls, Answers>>
  \/ \E c \in Fresh : /\ Fresh' = Fresh \ {c} /\ InFlight' = InFlight \cup {c}
                      /\ Calls' = Calls \cup {c} /\ UNCHANGED Answers
  \/ \E c \in Calls, d \in InFlight :
       /\ Calls' = Calls \ {c} /\ InFlight' = InFlight \ {d}
       /\ Answers' = Answers \cup {<<d, c>>} /\ UNCHANGED Fresh
  \/ \E c \in Calls : Calls' = Calls \ {c} /\ UNCHANGED <<Fresh, InFlight, Answers>>
  \/ Calls' = {} /\ InFlight' = {} /\ UNCHANGED <<Fresh, Answers>>
  \/ UNCHANGED <<Fresh, InFlight, Calls, Answers>>

LEMMA PoolStepIsStep ==
  ASSUME TypeOK, PoolStep
  PROVE  [Pool!Next]_(Pool!vars)
<1>1. Fresh \subseteq Conns /\ InFlight \subseteq Conns /\ Calls \subseteq Conns
  BY RpcAssumption DEF Fresh, InFlight, Calls, Elems, TypeOK
<1>2. /\ Calls = {requests[i] : i \in DOMAIN requests}
                   \cup {replies[i] : i \in DOMAIN replies} \cup ({serving} \ {None})
      /\ Calls' = {requests'[i] : i \in DOMAIN requests'}
                   \cup {replies'[i] : i \in DOMAIN replies'} \cup ({serving'} \ {None})
  BY DEF Calls, Elems
<1>3. /\ Fresh = {c \in Conns : pc[c] = "idle"}
      /\ Fresh' = {c \in Conns : pc'[c] = "idle"}
      /\ Answers = {<<d, got[d]>> : d \in {e \in Conns : got[e] # None}}
      /\ Answers' = {<<d, got'[d]>> : d \in {e \in Conns : got'[e] # None}}
  BY DEF Fresh, Answers
<1>4. CASE \E c \in Fresh :
             Fresh' = Fresh \ {c} /\ UNCHANGED <<InFlight, Calls, Answers>>
  BY <1>1, <1>2, <1>3, <1>4 DEF Pool!Next, Pool!Leave
<1>5. CASE \E c \in Fresh : /\ Fresh' = Fresh \ {c} /\ InFlight' = InFlight \cup {c}
                            /\ Calls' = Calls \cup {c} /\ UNCHANGED Answers
  BY <1>1, <1>2, <1>3, <1>5 DEF Pool!Next, Pool!Submit
<1>6. CASE \E c \in Calls, d \in InFlight :
             /\ Calls' = Calls \ {c} /\ InFlight' = InFlight \ {d}
             /\ Answers' = Answers \cup {<<d, c>>} /\ UNCHANGED Fresh
  BY <1>1, <1>2, <1>3, <1>6 DEF Pool!Next, Pool!Deliver
<1>7. CASE \E c \in Calls :
             Calls' = Calls \ {c} /\ UNCHANGED <<Fresh, InFlight, Answers>>
  BY <1>1, <1>2, <1>3, <1>7 DEF Pool!Next, Pool!Lose
<1>8. CASE Calls' = {} /\ InFlight' = {} /\ UNCHANGED <<Fresh, Answers>>
  BY <1>2, <1>3, <1>8 DEF Pool!Next, Pool!Forget
<1>9. CASE UNCHANGED <<Fresh, InFlight, Calls, Answers>>
  BY <1>2, <1>3, <1>9 DEF Pool!vars
<1> QED
  BY <1>4, <1>5, <1>6, <1>7, <1>8, <1>9 DEF PoolStep

(* A caller that is handed the reply to call x leaves with it. *)
LEMMA FinishAnswers ==
  ASSUME TypeOK, EachCallOnce, NEW d \in InFlight, NEW x \in Conns, Finish(d, x)
  PROVE  /\ Answers' = Answers \cup {<<d, x>>}
         /\ InFlight' = InFlight \ {d} /\ Fresh' = Fresh
         /\ \A c \in Conns : pc'[c] \in {"idle", "calling", "parked"} => got'[c] = None
<1>1. /\ pc' = [pc EXCEPT ![d] = "closed"] /\ got' = [got EXCEPT ![d] = x]
      /\ d \in Conns /\ got[d] = None /\ x # None
      /\ pc[d] \in {"calling", "parked"}
  BY RpcAssumption DEF Finish, InFlight, EachCallOnce
<1>2. /\ got \in [Conns -> Conns \cup {None}]
      /\ pc \in [Conns -> {"idle", "calling", "parked", "closed", "cut"}]
  BY DEF TypeOK
<1>3. got'[d] = x /\ \A e \in Conns \ {d} : got'[e] = got[e]
  BY <1>1, <1>2
<1>4. {e \in Conns : got'[e] # None} = {e \in Conns : got[e] # None} \cup {d}
  BY <1>1, <1>3
<1>5. Answers' = Answers \cup {<<d, x>>}
  BY <1>1, <1>3, <1>4 DEF Answers
<1> QED
  BY <1>1, <1>2, <1>3, <1>5 DEF InFlight, Fresh, EachCallOnce

LEMMA PoolInductive ==
  ASSUME TypeOK, ReceiversAreParked, EachCallOnce, [Next]_vars
  PROVE  EachCallOnce' /\ PoolStep
<1> DEFINE Goal == EachCallOnce' /\ PoolStep
<1>0. /\ requests \in Seq(Conns) /\ replies \in Seq(Conns)
      /\ serving \in Conns \cup {None}
      /\ pc \in [Conns -> {"idle", "calling", "parked", "closed", "cut"}]
      /\ Distinct(requests) /\ Distinct(replies)
      /\ None \notin Conns
  BY RpcAssumption DEF TypeOK, EachCallOnce
<1>N. None \notin Elems(requests) \cup Elems(replies)
  BY <1>0 DEF Elems
<1>S. ASSUME UNCHANGED <<requests, replies>>
      PROVE  /\ Elems(requests') = Elems(requests) /\ Elems(replies') = Elems(replies)
             /\ Distinct(requests') /\ Distinct(replies')
  BY <1>0, <1>S DEF Elems, Distinct
<1>1. ASSUME NEW c \in Conns, BadRequest(c)
      PROVE  Goal
  <2>1. /\ c \in Fresh /\ Fresh' = Fresh \ {c}
        /\ UNCHANGED <<requests, replies, serving, got>>
        /\ pc' = [pc EXCEPT ![c] = "closed"] /\ pc[c] = "idle"
    BY <1>0, <1>1 DEF BadRequest, Fresh, rpcVars
  <2>2. UNCHANGED <<InFlight, Calls, Answers>>
    BY <1>0, <2>1 DEF InFlight, Calls, Elems, Answers
  <2>3. \A d \in Conns : pc'[d] \in {"idle", "calling", "parked"} => got'[d] = None
    BY <1>0, <2>1 DEF EachCallOnce
  <2>4. EachCallOnce'
    BY <1>S, <2>1, <2>2, <2>3 DEF EachCallOnce
  <2> QED
    BY <2>1, <2>2, <2>4 DEF PoolStep
<1>2. ASSUME NEW c \in Conns, TakeReply(c)
      PROVE  Goal
  <2> DEFINE x == Head(replies)
  <2>1. /\ c \in InFlight /\ replies # <<>>
        /\ Finish(c, x)
        /\ replies' = Tail(replies)
        /\ UNCHANGED <<requests, serving>>
    BY <1>2 DEF TakeReply, InFlight
  <2>2. x \in Elems(replies) /\ Elems(replies') = Elems(replies) \ {x} /\ Distinct(replies')
    BY <1>0, <2>1, TailElems
  <2>3. x \in Conns /\ x \in Calls
    BY <1>0, <2>1, <2>2 DEF Calls
  <2> HIDE DEF x
  <2>4. Calls' = Calls \ {x}
    BY <1>0, <2>1, <2>2 DEF Calls, Elems, EachCallOnce
  <2>5. /\ Answers' = Answers \cup {<<c, x>>}
        /\ InFlight' = InFlight \ {c} /\ Fresh' = Fresh
        /\ \A d \in Conns : pc'[d] \in {"idle", "calling", "parked"} => got'[d] = None
    BY <2>1, <2>3, FinishAnswers
  <2>6. requests' = requests /\ serving' = serving
    BY <2>1
  <2>7. EachCallOnce'
    BY <2>2, <2>4, <2>5, <2>6 DEF EachCallOnce
  <2> QED
    BY <2>1, <2>3, <2>4, <2>5, <2>7 DEF PoolStep
<1>3. ASSUME NEW c \in Conns, Park(c)
      PROVE  Goal
  <2>1. /\ pc[c] = "calling" /\ pc' = [pc EXCEPT ![c] = "parked"]
        /\ UNCHANGED <<requests, replies, serving, got>>
    BY <1>3 DEF Park
  <2>2. UNCHANGED <<Fresh, InFlight, Calls, Answers>>
    BY <1>0, <2>1 DEF Fresh, InFlight, Calls, Elems, Answers
  <2>3. \A d \in Conns : pc'[d] \in {"idle", "calling", "parked"} => got'[d] = None
    BY <1>0, <2>1 DEF EachCallOnce
  <2>4. EachCallOnce'
    BY <1>S, <2>1, <2>2, <2>3 DEF EachCallOnce
  <2> QED
    BY <2>2, <2>4 DEF PoolStep
<1>4. ASSUME NEW c \in Conns, NEW m \in Methods, Call(c, m)
      PROVE  Goal
  <2>1. /\ pc[c] = "idle" /\ pc' = [pc EXCEPT ![c] = "calling"]
        /\ requests' = Append(requests, c)
        /\ UNCHANGED <<replies, serving, got>>
    BY <1>4 DEF Call
  <2>2. c \in Fresh /\ c \notin Calls
    BY <2>1 DEF Fresh, EachCallOnce
  <2>3. Elems(requests') = Elems(requests) \cup {c} /\ Distinct(requests')
    BY <1>0, <2>1, <2>2, AppendElems DEF Calls
  <2>4. Calls' = Calls \cup {c}
    BY <2>1, <2>3 DEF Calls, Elems
  <2>5. /\ Fresh' = Fresh \ {c} /\ InFlight' = InFlight \cup {c} /\ Answers' = Answers
    BY <1>0, <2>1 DEF Fresh, InFlight, Answers
  <2>6. EachCallOnce'
    BY <1>0, <2>1, <2>2, <2>3, <2>4, <2>5 DEF EachCallOnce, Calls
  <2> QED
    BY <2>2, <2>4, <2>5, <2>6 DEF PoolStep
<1>5. CASE Recv
  <2> DEFINE x == Head(requests)
  <2>1. /\ requests # <<>> /\ applet = "polling"
        /\ serving' = x /\ requests' = Tail(requests)
        /\ UNCHANGED <<pc, replies, got>>
    BY <1>5 DEF Recv, Polling
  <2>2. /\ x \in Elems(requests) /\ Elems(requests') = Elems(requests) \ {x}
        /\ Distinct(requests')
    BY <1>0, <2>1, TailElems
  <2>3. x \in Conns /\ serving = None
    BY <1>0, <2>1 DEF TypeOK
  <2> HIDE DEF x
  <2>4. Calls' = Calls
    BY <1>0, <2>1, <2>2, <2>3 DEF Calls, Elems
  <2>5. UNCHANGED <<Fresh, InFlight, Answers>>
    BY <2>1 DEF Fresh, InFlight, Answers
  <2>6. EachCallOnce'
    BY <2>1, <2>2, <2>4, <2>5 DEF EachCallOnce
  <2> QED
    BY <2>4, <2>5, <2>6 DEF PoolStep
<1>6. CASE RecvExit
  <2> DEFINE x == Head(requests)
  <2>1. /\ requests # <<>> /\ requests' = Tail(requests)
        /\ UNCHANGED <<pc, replies, serving, got>>
    BY <1>6 DEF RecvExit
  <2>2. /\ x \in Elems(requests) /\ Elems(requests') = Elems(requests) \ {x}
        /\ Distinct(requests')
    BY <1>0, <2>1, TailElems
  <2> HIDE DEF x
  <2>R. Elems(replies') = Elems(replies) /\ Distinct(replies')
    BY <1>0, <2>1 DEF Elems, Distinct
  <2>3. x \in Calls /\ Calls' = Calls \ {x}
    BY <2>1, <2>2, <2>R DEF Calls, EachCallOnce
  <2>4. UNCHANGED <<Fresh, InFlight, Answers>>
    BY <2>1 DEF Fresh, InFlight, Answers
  <2>5. EachCallOnce'
    BY <2>1, <2>2, <2>R, <2>3, <2>4 DEF EachCallOnce
  <2> QED
    BY <2>3, <2>4, <2>5 DEF PoolStep
<1>7. CASE Send
  <2>1. /\ serving \in Conns /\ serving # None /\ serving' = None
        /\ UNCHANGED requests
    BY <1>0, <1>7 DEF Send, TypeOK
  <2>2. serving \in Calls
    BY <2>1 DEF Calls
  <2>3. CASE receivers # <<>>
    <3> DEFINE d == Head(receivers)
    <3>1. d \in InFlight
      BY <2>3 DEF TypeOK, ReceiversAreParked, InFlight
    <3>2. Finish(d, serving) /\ replies' = replies
      BY <1>7, <2>3 DEF Send
    <3> HIDE DEF d
    <3>3. /\ Answers' = Answers \cup {<<d, serving>>}
          /\ InFlight' = InFlight \ {d} /\ Fresh' = Fresh
          /\ \A c \in Conns : pc'[c] \in {"idle", "calling", "parked"} => got'[c] = None
      BY <2>1, <3>1, <3>2, FinishAnswers
    <3>4. Calls' = Calls \ {serving}
      BY <2>1, <3>2 DEF Calls, Elems, EachCallOnce
    <3>5. EachCallOnce'
      BY <1>N, <1>S, <2>1, <3>2, <3>3, <3>4 DEF EachCallOnce
    <3> QED
      BY <2>2, <3>1, <3>3, <3>4, <3>5 DEF PoolStep
  <2>4. CASE receivers = <<>>
    <3>1. replies' = Append(replies, serving) /\ UNCHANGED <<pc, got>>
      BY <1>7, <2>4 DEF Send
    <3>2. Elems(replies') = Elems(replies) \cup {serving} /\ Distinct(replies')
      BY <1>0, <2>1, <3>1, AppendElems DEF EachCallOnce
    <3>3. Calls' = Calls
      BY <2>1, <3>2 DEF Calls, Elems
    <3>4. UNCHANGED <<Fresh, InFlight, Answers>>
      BY <3>1 DEF Fresh, InFlight, Answers
    <3>R. Elems(requests') = Elems(requests) /\ Distinct(requests')
      BY <1>0, <2>1 DEF Elems, Distinct
    <3>5. None \notin Elems(requests) \cup Elems(replies')
      BY <1>N, <2>1, <3>2
    <3>6. EachCallOnce'
      BY <2>1, <3>1, <3>2, <3>R, <3>3, <3>4, <3>5 DEF EachCallOnce
    <3> QED
      BY <3>3, <3>4, <3>6 DEF PoolStep
  <2> QED
    BY <2>3, <2>4
<1>8. CASE SendLost
  <2>1. /\ serving \in Conns /\ serving # None /\ serving' = None
        /\ UNCHANGED <<pc, requests, replies, got>>
    BY <1>0, <1>8 DEF SendLost, TypeOK
  <2>2. serving \in Calls /\ Calls' = Calls \ {serving}
    BY <2>1 DEF Calls, Elems, EachCallOnce
  <2>3. UNCHANGED <<Fresh, InFlight, Answers>>
    BY <2>1 DEF Fresh, InFlight, Answers
  <2>4. EachCallOnce'
    BY <1>N, <1>S, <2>1, <2>2, <2>3 DEF EachCallOnce
  <2> QED
    BY <2>2, <2>3, <2>4 DEF PoolStep
<1>9. CASE Reset
  <2>1. /\ pc' = [c \in Conns |-> IF c \in InFlight THEN "cut" ELSE pc[c]]
        /\ requests' = <<>> /\ replies' = <<>> /\ serving' = None /\ got' = got
    BY <1>9 DEF Reset
  <2>2. Calls' = {} /\ Elems(requests') = {} /\ Elems(replies') = {}
    BY <2>1 DEF Calls, Elems
  <2>3. InFlight' = {} /\ Fresh' = Fresh /\ Answers' = Answers
    BY <1>0, <2>1 DEF InFlight, Fresh, Answers
  <2>4. EachCallOnce'
    BY <1>0, <2>1, <2>2, <2>3 DEF EachCallOnce, Distinct
  <2> QED
    BY <2>2, <2>3, <2>4 DEF PoolStep
<1>10. CASE UNCHANGED vars
  BY <1>10 DEF vars, EachCallOnce, Distinct, Elems, Calls, Fresh, InFlight, Answers,
               PoolStep
<1> QED
  BY <1>1, <1>2, <1>3, <1>4, <1>5, <1>6, <1>7, <1>8, <1>9, <1>10
  DEF Next, AppletStep

LEMMA PoolInitial == Init => EachCallOnce /\ Pool!Init
<1> SUFFICES ASSUME Init PROVE EachCallOnce /\ Pool!Init
  OBVIOUS
<1>1. /\ requests = <<>> /\ replies = <<>> /\ serving = None
      /\ \A c \in Conns : pc[c] = "idle" /\ got[c] = None
  BY DEF Init
<1> QED
  BY <1>1 DEF EachCallOnce, Distinct, Elems, Calls, Pool!Init, InFlight

(* For any number of connections and any depth, two separate operations on  *)
(* two channels are a pool of calls: each call is answered at most once,    *)
(* each answer goes to one caller that is blocked, and to a call that was   *)
(* made (CallApplet, RPC.Recv, RPC.Send).                                   *)
THEOREM RpcRefinesCallPool == Spec => RefinesCallPool
<1>1. RpcInv => TypeOK /\ ReceiversAreParked
  BY DEF RpcInv
<1>2. RpcInv /\ EachCallOnce /\ [Next]_vars => EachCallOnce' /\ [Pool!Next]_(Pool!vars)
  BY <1>1, PoolInductive, PoolStepIsStep
<1> QED
  BY <1>2, PoolInitial, RpcInvariant, PTL DEF Spec, RefinesCallPool, Pool!Spec

-----------------------------------------------------------------------------
(* The ring of callers, request channel, applet and reply channel cannot    *)
(* come to a halt.                                                          *)

(* What the goroutine c can do: TakeReply or Park. *)
CallerRuns(c) == pc[c] = "calling" /\ ~SendBlocked(c)

(* What the applet can do: Recv or RecvExit, Send or SendLost. *)
AppletRuns ==
  \/ Polling /\ requests # <<>>
  \/ applet = "handling" /\ method[serving] # "__exit"

(* As long as no reply has been lost, whoever waits inside CallApplet waits *)
(* for somebody who can go on: another caller, or the applet.               *)
NoDeadlock ==
  InFlight # {} /\ lost = 0 => AppletRuns \/ \E c \in InFlight : CallerRuns(c)

(* What they wait for: a parked caller is in the queue of the reply channel,*)
(* which holds no reply meanwhile, and an applet that has stopped owes one. *)
WaitersAreQueued ==
  /\ \A c \in Conns : pc[c] = "parked" => \E i \in DOMAIN receivers : receivers[i] = c
  /\ receivers # <<>> => replies = <<>>
  /\ applet = "stopped" => lost > 0
  /\ serving # None => method[serving] # "__exit"

LEMMA WaitersInductive ==
  ASSUME RpcInv, EachCallOnce, WaitersAreQueued, [Next]_vars
  PROVE  WaitersAreQueued'
<1> USE RpcAssumption DEF RpcInv, TypeOK
<1>1. ASSUME NEW c \in Conns, BadRequest(c) PROVE WaitersAreQueued'
  BY <1>1 DEF BadRequest, rpcVars, WaitersAreQueued
<1>2. ASSUME NEW c \in Conns, TakeReply(c) PROVE WaitersAreQueued'
  BY <1>2 DEF TakeReply, Finish, WaitersAreQueued
<1>3. ASSUME NEW c \in Conns, Park(c) PROVE WaitersAreQueued'
  <2>1. /\ pc' = [pc EXCEPT ![c] = "parked"] /\ replies' = <<>>
        /\ receivers' = Append(receivers, c)
        /\ UNCHANGED <<method, applet, serving, lost>>
    BY <1>3 DEF Park
  <2>2. /\ Len(receivers) + 1 \in DOMAIN receivers'
        /\ receivers'[Len(receivers) + 1] = c
        /\ \A i \in DOMAIN receivers :
             i \in DOMAIN receivers' /\ receivers'[i] = receivers[i]
    BY <2>1
  <2> QED
    BY <2>1, <2>2 DEF WaitersAreQueued
<1>4. ASSUME NEW c \in Conns, NEW m \in Methods, Call(c, m)
      PROVE  WaitersAreQueued'
  <2>1. serving # None => serving # c
    BY <1>4 DEF Call, EachCallOnce, Calls, Fresh
  <2> QED
    BY <1>4, <2>1 DEF Call, WaitersAreQueued
<1>5. CASE Recv
  BY <1>5 DEF Recv, WaitersAreQueued
<1>6. CASE RecvExit
  BY <1>6 DEF RecvExit, WaitersAreQueued
<1>7. CASE Send
  <2>1. /\ applet' = "polling" /\ serving' = None /\ UNCHANGED <<method, lost>>
    BY <1>7 DEF Send
  <2>2. CASE /\ receivers # <<>> /\ Finish(Head(receivers), serving)
             /\ receivers' = Tail(receivers) /\ UNCHANGED replies
    <3>1. replies' = <<>>
      BY <2>2 DEF WaitersAreQueued
    <3>2. ASSUME NEW c \in Conns, pc'[c] = "parked"
          PROVE  \E i \in DOMAIN receivers' : receivers'[i] = c
      <4>1. pc[c] = "parked" /\ c # Head(receivers)
        BY <2>2, <3>2 DEF Finish
      <4>2. PICK i \in DOMAIN receivers : receivers[i] = c
        BY <4>1 DEF WaitersAreQueued
      <4>3. i - 1 \in DOMAIN receivers' /\ receivers'[i - 1] = c
        BY <2>2, <4>1, <4>2
      <4> QED
        BY <4>3
    <3> QED
      BY <2>1, <3>1, <3>2 DEF WaitersAreQueued
  <2>3. CASE receivers = <<>> /\ UNCHANGED <<pc, got, receivers>>
    BY <2>1, <2>3 DEF WaitersAreQueued
  <2> QED
    BY <1>7, <2>2, <2>3 DEF Send
<1>8. CASE SendLost
  BY <1>8 DEF SendLost, WaitersAreQueued
<1>9. CASE Reset
  BY <1>9 DEF Reset, InFlight, WaitersAreQueued
<1>10. CASE UNCHANGED vars
  BY <1>10 DEF vars, WaitersAreQueued
<1> QED
  BY <1>1, <1>2, <1>3, <1>4, <1>5, <1>6, <1>7, <1>8, <1>9, <1>10
  DEF Next, AppletStep

(* If nobody could go on, the applet would be polling behind a full reply   *)
(* channel or an empty request channel; and every caller would be blocked   *)
(* in its send or else parked, which together are too few to account for.   *)
LEMMA WaitersAreServed ==
  ASSUME RpcInv, WaitersAreQueued
  PROVE  NoDeadlock
<1> SUFFICES ASSUME InFlight # {}, lost = 0, ~AppletRuns,
                    \A c \in InFlight : ~CallerRuns(c)
             PROVE  FALSE
  BY DEF NoDeadlock
<1> USE RpcAssumption DEF RpcInv, TypeOK
<1>1. applet = "polling" /\ serving = None
  BY DEF AppletRuns, WaitersAreQueued
<1>2. Cardinality(InFlight) = Len(requests) + Len(replies)
  BY <1>1 DEF CallsAccountedFor, Handling
<1>3. IsFiniteSet(InFlight) /\ Cardinality(InFlight) # 0
  BY FS_Subset, FS_EmptySet DEF InFlight
<1>4. \A c \in InFlight : SendBlocked(c) \/ pc[c] = "parked"
  BY DEF CallerRuns, InFlight
<1>5. Len(replies) # 0
  <2> SUFFICES ASSUME Len(replies) = 0 PROVE FALSE
    OBVIOUS
  <2>1. requests = <<>>
    BY <1>1 DEF AppletRuns, Polling
  <2> QED
    BY <1>2, <1>3, <2>1
<1>6. receivers = <<>>
  BY <1>5 DEF WaitersAreQueued
<1>7. \A c \in InFlight : SendBlocked(c)
  BY <1>4, <1>6 DEF WaitersAreQueued, InFlight
<1>8. InFlight \subseteq Elems(requests)
  BY <1>7 DEF SendBlocked, Elems
<1>9. Cardinality(InFlight) <= Len(requests)
  <2> DEFINE n == Len(requests)
  <2>0. n \in Nat /\ requests \in [1..n -> Conns] /\ DOMAIN requests = 1..n
    OBVIOUS
  <2>1. requests \in Surjection(1..n, Elems(requests))
    <3>1. requests \in [1..n -> Elems(requests)]
      BY <2>0 DEF Elems
    <3>2. \A x \in Elems(requests) : \E i \in 1..n : requests[i] = x
      BY <2>0 DEF Elems
    <3> QED
      BY <3>1, <3>2 DEF Surjection
  <2>2. IsFiniteSet(1..n) /\ Cardinality(1..n) = n
    <3> HIDE DEF n
    <3> QED
      BY <2>0, FS_Interval
  <2>3. /\ IsFiniteSet(Elems(requests))
        /\ Cardinality(Elems(requests)) <= Len(requests)
    BY <2>1, <2>2, FS_Surjection
  <2>4. Cardinality(InFlight) <= Cardinality(Elems(requests))
    BY <1>8, <2>3, FS_Subset
  <2>5. Cardinality(InFlight) \in Nat /\ Cardinality(Elems(requests)) \in Nat
    BY <1>3, <2>3, FS_CardinalityType
  <2> QED
    BY <2>3, <2>4, <2>5
<1> QED
  BY <1>2, <1>5, <1>9

(* For any number of connections and any depth, one reply lost is needed to *)
(* strand a caller: until then neither the size of the channels nor the two *)
(* separate operations of CallApplet make everyone wait on everyone. With   *)
(* fairness of all of them, TLC checks CallsAnswered on top of this.        *)
THEOREM RpcNeverDeadlocks == Spec => []NoDeadlock
<1>1. Init => WaitersAreQueued
  BY RpcAssumption DEF Init, WaitersAreQueued
<1>2. RpcInv => TypeOK /\ ReceiversAreParked
  BY DEF RpcInv
<1>3. RpcInv /\ EachCallOnce /\ [Next]_vars => EachCallOnce'
  BY <1>2, PoolInductive
<1> QED
  BY <1>1, <1>3, PoolInitial, RpcInvariant, WaitersInductive, WaitersAreServed, PTL
  DEF Spec
=============================================================================
