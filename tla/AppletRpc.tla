----------------------------- MODULE AppletRpc ------------------------------
(***************************************************************************)
(* The path of one bridge call through the Trusted OS to the applet and    *)
(* back: handleBridgeConn -> CallApplet -> appletRequestCh -> RPC.Recv ->  *)
(* serve()'s handler -> RPC.Send -> appletReplyCh -> the blocked caller    *)
(* (docker/trusted_os/bridge.go, rpc.go and docker/gotee_syscall).         *)
(*                                                                         *)
(* startBridge runs one goroutine per connection, so any number of callers *)
(* are inside CallApplet at once, each having made two separate channel    *)
(* operations.  A Go channel is a buffer of Depth values followed by the   *)
(* senders blocked on it, first in first out; it is one sequence here, and *)
(* a sender is blocked exactly while its value lies beyond Depth.  A       *)
(* receiver that is already waiting takes a value without it being         *)
(* buffered, which is the send followed at once by the receive.            *)
(***************************************************************************)
EXTENDS Naturals, Sequences, FiniteSets

CONSTANTS
  Conns,          (* bridge connections; each carries one request          *)
  Depth,          (* capacity of each of the two channels, 1 in the code   *)
  Methods,        (* the kinds of call that occur, a subset of MethodKinds *)
  None            (* no connection                                         *)

(* "plain" returns a short output; "oversized" one that does not fit the   *)
(* 1024-byte JsonBuf; "panicking" makes the handler panic; "__exit" is the *)
(* sentinel of serve().                                                    *)
MethodKinds == {"plain", "oversized", "panicking", "__exit"}

ASSUME RpcAssumption ==
  /\ IsFiniteSet(Conns)
  /\ Depth \in Nat \ {0}
  /\ Methods \subseteq MethodKinds
  /\ None \notin Conns

VARIABLES
  pc,             (* where each connection's goroutine is                  *)
  method,         (* the method each connection asked for                  *)
  requests,       (* appletRequestCh: its buffer, then its blocked senders *)
  replies,        (* appletReplyCh: its buffer, then the blocked Send      *)
  receivers,      (* goroutines parked on appletReplyCh, in order          *)
  applet,         (* "polling" in RPC.Recv, "handling", or "stopped"       *)
  serving,        (* the call being handled                                *)
  got,            (* whose reply each connection was given                 *)
  lost,           (* calls taken by the applet that are never answered     *)
  overlapped      (* history: calls that ever were in flight with another  *)

rpcVars == <<requests, replies, receivers, applet, serving>>
vars == <<pc, method, requests, replies, receivers, applet, serving, got,
          lost, overlapped>>

Init ==
  /\ pc = [c \in Conns |-> "idle"]
  /\ method = [c \in Conns |-> "plain"]
  /\ requests = <<>>
  /\ replies = <<>>
  /\ receivers = <<>>
  /\ applet = "polling"
  /\ serving = None
  /\ got = [c \in Conns |-> None]
  /\ lost = 0
  /\ overlapped = {}

(* Goroutines inside CallApplet. *)
InFlight == {c \in Conns : pc[c] \in {"calling", "parked"}}

(* c's send on appletRequestCh has not gone through. *)
SendBlocked(c) == \E i \in DOMAIN requests : i > Depth /\ requests[i] = c

-----------------------------------------------------------------------------
(* The connection goroutines. *)

(* dec.Decode fails and the deferred Close runs. *)
BadRequest(c) ==
  /\ pc[c] = "idle"
  /\ pc' = [pc EXCEPT ![c] = "closed"]
  /\ UNCHANGED <<method, rpcVars, got, lost, overlapped>>

(* The request decodes and CallApplet sends it on appletRequestCh. *)
Call(c, m) ==
  /\ pc[c] = "idle"
  /\ pc' = [pc EXCEPT ![c] = "calling"]
  /\ method' = [method EXCEPT ![c] = m]
  /\ requests' = Append(requests, c)
  /\ overlapped' = IF InFlight = {} THEN overlapped
                   ELSE overlapped \cup InFlight \cup {c}
  /\ UNCHANGED <<replies, receivers, applet, serving, got, lost>>

(* A goroutine that is handed reply r encodes it, closes and ends. *)
Finish(c, r) ==
  /\ pc' = [pc EXCEPT ![c] = "closed"]
  /\ got' = [got EXCEPT ![c] = r]

(* Mutation: the receive leaves the reply in the channel.                   *)
PeekReply(c) ==
  /\ pc[c] = "calling" /\ ~SendBlocked(c)
  /\ replies # <<>>
  /\ Finish(c, Head(replies))
  /\ UNCHANGED <<method, rpcVars, lost, overlapped>>

(* CallApplet's receive finds a reply: the oldest one in the channel. *)
TakeReply(c) ==
  /\ pc[c] = "calling" /\ ~SendBlocked(c)
  /\ replies # <<>>
  /\ Finish(c, Head(replies))
  /\ replies' = Tail(replies)
  /\ UNCHANGED <<method, requests, receivers, applet, serving, lost, overlapped>>

(* CallApplet's receive finds none and parks the goroutine. *)
Park(c) ==
  /\ pc[c] = "calling" /\ ~SendBlocked(c)
  /\ replies = <<>>
  /\ pc' = [pc EXCEPT ![c] = "parked"]
  /\ receivers' = Append(receivers, c)
  /\ UNCHANGED <<method, requests, replies, applet, serving, got, lost, overlapped>>

-----------------------------------------------------------------------------
(* The applet's serve() loop, one system call at a time. *)

(* Mutation: RPC.Send does not block on a full channel.                     *)
PollingRegardless == applet = "polling"

(* The Send that preceded this RPC.Recv has returned. *)
Polling == applet = "polling" /\ Len(replies) <= Depth

(* RPC.Recv returns a request for the handler. *)
Recv ==
  /\ Polling /\ requests # <<>> /\ method[Head(requests)] # "__exit"
  /\ serving' = Head(requests)
  /\ requests' = Tail(requests)
  /\ applet' = "handling"
  /\ UNCHANGED <<pc, method, replies, receivers, got, lost, overlapped>>

(* RPC.Recv returns the sentinel: exit(), and the monitor stops the applet. *)
RecvExit ==
  /\ Polling /\ requests # <<>> /\ method[Head(requests)] = "__exit"
  /\ requests' = Tail(requests)
  /\ applet' = "stopped"
  /\ lost' = lost + 1
  /\ UNCHANGED <<pc, method, replies, receivers, serving, got, overlapped>>

(* Mutation: RPC.Send only buffers its output and wakes no receiver.        *)
SendWithoutWakeup ==
  /\ applet = "handling" /\ method[serving] = "plain"
  /\ applet' = "polling"
  /\ serving' = None
  /\ replies' = Append(replies, serving)
  /\ UNCHANGED <<pc, method, requests, receivers, got, lost, overlapped>>

(* The handler returned and RPC.Send passes its output to appletReplyCh: to *)
(* the goroutine parked longest, or into the channel.                       *)
Send ==
  /\ applet = "handling" /\ method[serving] = "plain"
  /\ applet' = "polling"
  /\ serving' = None
  /\ \/ /\ receivers # <<>>
        /\ Finish(Head(receivers), serving)
        /\ receivers' = Tail(receivers)
        /\ UNCHANGED replies
     \/ /\ receivers = <<>>
        /\ replies' = Append(replies, serving)
        /\ UNCHANGED <<pc, got, receivers>>
  /\ UNCHANGED <<method, requests, lost, overlapped>>

(* No Send reaches appletReplyCh: the handler panicked, or the output did   *)
(* not fit JsonBuf and a truncated request was sent, which the monitor      *)
(* either discards or answers by stopping the applet.                       *)
SendLost ==
  /\ applet = "handling" /\ method[serving] \in {"oversized", "panicking"}
  /\ applet' \in IF method[serving] = "oversized" THEN {"polling", "stopped"}
                 ELSE {"stopped"}
  /\ serving' = None
  /\ lost' = lost + 1
  /\ UNCHANGED <<pc, method, requests, replies, receivers, got, overlapped>>

-----------------------------------------------------------------------------
(* Mutation: the applet alone is restarted; the channels live on.           *)
RestartAppletOnly ==
  /\ pc' = [c \in Conns |-> IF c \in InFlight THEN "cut" ELSE pc[c]]
  /\ receivers' = <<>>
  /\ applet' = "polling"
  /\ serving' = None
  /\ lost' = 0
  /\ UNCHANGED <<method, requests, replies, got, overlapped>>

(* An accepted upload, or a power cycle, restarts the Trusted OS: every     *)
(* goroutine and both channels are gone and a new applet starts polling.    *)
Reset ==
  /\ pc' = [c \in Conns |-> IF c \in InFlight THEN "cut" ELSE pc[c]]
  /\ requests' = <<>>
  /\ replies' = <<>>
  /\ receivers' = <<>>
  /\ applet' = "polling"
  /\ serving' = None
  /\ lost' = 0
  /\ UNCHANGED <<method, got, overlapped>>

AppletStep == Recv \/ RecvExit \/ Send \/ SendLost

Next ==
  \/ \E c \in Conns : BadRequest(c) \/ TakeReply(c) \/ Park(c)
  \/ \E c \in Conns, m \in Methods : Call(c, m)
  \/ AppletStep
  \/ Reset

Spec == Init /\ [][Next]_vars

(* The Go scheduler runs every runnable goroutine, the applet's included;   *)
(* channel queues are first in first out, so weak fairness suffices.        *)
(* Nothing obliges a client to call or the device to be reset.              *)
Fairness ==
  /\ WF_vars(AppletStep)
  /\ \A c \in Conns : WF_vars(TakeReply(c) \/ Park(c))

FairSpec == Spec /\ Fairness

-----------------------------------------------------------------------------
(* Types, and the bounds the channels give: a blocked Send is the only      *)
(* reply beyond the buffer, and the applet takes no further call meanwhile. *)
TypeOK ==
  /\ pc \in [Conns -> {"idle", "calling", "parked", "closed", "cut"}]
  /\ method \in [Conns -> MethodKinds]
  /\ requests \in Seq(Conns)
  /\ replies \in Seq(Conns) /\ Len(replies) <= Depth + 1
  /\ receivers \in Seq(Conns)
  /\ applet \in {"polling", "handling", "stopped"}
  /\ serving \in Conns \cup {None}
  /\ applet = "handling" <=> serving # None
  /\ applet = "handling" => Len(replies) <= Depth
  /\ got \in [Conns -> Conns \cup {None}]
  /\ lost \in Nat
  /\ overlapped \subseteq Conns

Handling == IF serving = None THEN 0 ELSE 1

(* The bridge never strands a caller by itself: the goroutines inside       *)
(* CallApplet are as many as the calls still on their way through the       *)
(* channels and the applet, plus the calls whose reply the applet never     *)
(* produced.  So a caller hangs only after a lost reply, each lost reply    *)
(* hangs one caller, and once nobody is inside CallApplet no stale reply is *)
(* left for the next one (CallApplet, Recv, Send).                          *)
CallsAccountedFor ==
  Cardinality(InFlight) = Len(requests) + Handling + Len(replies) + lost

(* A caller that was alone in CallApplet from its send to its receive got   *)
(* the reply to its own call, whatever happened before it: overlapping      *)
(* callers, lost replies, resets (CallApplet, Send).                        *)
SoloCallersGetOwnReply ==
  \A c \in Conns : got[c] # None /\ c \notin overlapped => got[c] = c

(* Two channel operations instead of one exchange still make a call pool:   *)
(* every call is answered at most once, every answer goes to exactly one    *)
(* caller that is blocked, and nobody gets an answer to a call not made.    *)
Pool == INSTANCE CallPool WITH
  fresh      <- {c \in Conns : pc[c] = "idle"},
  blocked    <- InFlight,
  unanswered <- {requests[i] : i \in DOMAIN requests}
                  \cup {replies[i] : i \in DOMAIN replies}
                  \cup ({serving} \ {None}),
  answers    <- {<<d, got[d]>> : d \in {e \in Conns : got[e] # None}}

RefinesCallPool == Pool!Spec

(* Every goroutine inside CallApplet is answered (or cut by a reset) unless *)
(* some reply has been lost: neither the depth of the channels nor the      *)
(* order of the two operations can deadlock callers against the applet.     *)
CallsAnswered ==
  \A c \in Conns : c \in InFlight ~> (c \notin InFlight \/ lost > 0)

(* What the documentation says.                                             *)

(* rpc.go:58 "Send delivers the applet's reply back to whoever queued the   *)
(* request".                                                                *)
ReplyGoesToItsCaller == \A c \in Conns : got[c] \in {None, c}
=============================================================================
